------------------------------ MODULE NativeTree ------------------------------
(***************************************************************************)
(* How a native page source becomes the tree, the refs and the tap targets *)
(* of a snapshot: the passes of NativeSnapshotGenerator.generate, one      *)
(* action each, and each omission under max_nodes an action of its own.    *)
(*                                                                         *)
(* An element of the page source is its class group and the facts the      *)
(* passes ask of it; its id, description or name is the ref base derived   *)
(* from it.  Bounds are reduced to whether the element is visible, and     *)
(* selected, checked, disabled and focused to whether it has a state.      *)
(***************************************************************************)
EXTENDS DocumentTree

CONSTANTS
  Elements,   \* elements a page source may hold
  Budgets,    \* values of max_nodes; at least N when there is no limit
  Guard       \* omissions _enforce_max_nodes makes at most

ASSUME LimitsAssumption == Budgets \subseteq Nat \ {0} /\ Guard \in Nat
ASSUME BasesAssumption == \A e \in Elements : IsSequence(e.base)

VARIABLES
  pc,         \* the pass that comes next
  raw, el,    \* the page source: parents and elements
  budget,     \* max_nodes
  role,       \* roles inferred, then changed under tabs
  up,         \* parents in the snapshot tree; its domain are its nodes
  omitted,    \* nodes rendered as "..."
  truncated,
  kind,       \* container_kind
  ref,        \* refs
  target      \* action_target_ref

source == <<raw, el, budget>>
vars == <<pc, source, role, up, omitted, truncated, kind, ref, target>>

NoRef == <<>>
Root == CHOOSE n \in DOMAIN up : up[n] = 0

-----------------------------------------------------------------------------
(* Roles. *)

ACTIONABLE_ROLES ==
  {"button", "row", "tab", "checkbox", "radio", "switch", "link", "menuitem",
   "textbox", "select"}

\* Classes whose role is their own, whatever their attributes are.
RoleOfClass ==
  [Toolbar |-> "toolbar", Overlay |-> "overlay", Tabs |-> "tabs",
   Selection |-> "selection", List |-> "list", Button |-> "button",
   EditText |-> "textbox", CheckBox |-> "checkbox", TextView |-> "text",
   ImageView |-> "image"]

\* What e says it takes: e.taps is a part of {"click", "long", "check"}, for
\* clickable, long-clickable and checkable.
Takes(e, tap) == tap \in e.taps

InferRole(e, kids, roles) ==
  IF e.class = "ImageView" /\ Takes(e, "click") THEN "button"
  ELSE IF e.class \in DOMAIN RoleOfClass THEN RoleOfClass[e.class]
  ELSE IF e.class = "TabItem" /\ (Takes(e, "click") \/ Takes(e, "check")) THEN "tab"
  ELSE IF ~Takes(e, "click") THEN IF e.named THEN "text" ELSE "container"
  ELSE IF e.class = "Group" /\ \E c \in kids : roles[c] \in {"text", "image"} \/ el[c].named
    THEN "row" ELSE "button"

InferredRoles ==
  LET roles[n \in 1..N] == InferRole(el[n], Children(raw, n), roles) IN roles

\* Kept by the passes; only a role among ACTIONABLE_ROLES gives a ref as well.
IsActionable(n) == el[n].taps # {} \/ role[n] = "textbox"

\* Something on n itself to read or to use.
Tells(n) == IsActionable(n) \/ el[n].scrollable \/ el[n].named \/ el[n].state

Plain(n) == role[n] = "container" /\ ~Tells(n)

-----------------------------------------------------------------------------
Init ==
  /\ pc = "semantics"
  /\ raw \in Trees
  /\ el \in [1..N -> Elements]
  /\ budget \in Budgets
  /\ role = [n \in 1..N |-> "container"]
  /\ up = raw
  /\ omitted = {} /\ truncated = FALSE
  /\ kind = [n \in 1..N |-> ""]
  /\ ref = [n \in 1..N |-> NoRef] /\ target = [n \in 1..N |-> NoRef]

InferSemantics ==
  /\ pc = "semantics" /\ pc' = "prune"
  /\ role' = InferredRoles
  /\ UNCHANGED <<source, up, omitted, truncated, kind, ref, target>>

-----------------------------------------------------------------------------
(* Pruning, from the leaves up. *)

ShouldPrune(n, hasKids) ==
  /\ ~hasKids
  /\ ~el[n].visible \/ ~Tells(n)

Kept ==
  LET kept[n \in 1..N] == ~ShouldPrune(n, \E c \in Children(raw, n) : kept[c])
  IN  {n \in 1..N : kept[n]}

Transparent(n) == n # 1 /\ Plain(n)

\* The nearest ancestor that stays; elements of a transparent wrapper become
\* children of its parent.
\* Mutant: the children of a transparent wrapper become children of the root.
NearestStayingRoot(n) ==
  IF n # 1 /\ raw[n] # 1 /\ Transparent(raw[n]) THEN 1 ELSE raw[n]

NearestStaying(n) ==
  LET over == {a \in Above(raw, n) : ~Transparent(a)}
  IN  IF over = {} THEN 0 ELSE LastOf(over)

\* Mutant: the only child of a plain root keeps its parent.
CollapsedDangling ==
  LET nodes == {n \in Kept : ~Transparent(n)}
      tree == [n \in nodes |-> NearestStaying(n)]
  IN  IF Kept = {} THEN [n \in {1} |-> 0]
      ELSE IF Plain(1) /\ Cardinality(Children(tree, 1)) = 1
        THEN [n \in nodes \ {1} |-> tree[n]]
        ELSE tree

\* The tree after the collapse, and after a plain root with one child has been
\* replaced by it.
Collapsed ==
  LET nodes == {n \in Kept : ~Transparent(n)}
      tree == [n \in nodes |-> NearestStaying(n)]
  IN  IF Kept = {} THEN [n \in {1} |-> 0]
      ELSE IF Plain(1) /\ Cardinality(Children(tree, 1)) = 1
        THEN [n \in nodes \ {1} |-> IF tree[n] = 1 THEN 0 ELSE tree[n]]
        ELSE tree

PruneAndCollapse ==
  /\ pc = "prune" /\ pc' = "enforce"
  /\ up' = Collapsed
  /\ UNCHANGED <<source, role, omitted, truncated, kind, ref, target>>

-----------------------------------------------------------------------------
(* max_nodes. *)

OverBudget == Cardinality(DOMAIN up) > budget

Omittable ==
  {n \in DOMAIN up \ (omitted \cup {Root}) :
     role[n] \notin ACTIONABLE_ROLES /\ ~el[n].scrollable}

DeepestOmittable ==
  FirstOf({n \in Omittable : \A m \in Omittable : Depth(up, m) <= Depth(up, n)})

CanOmit == OverBudget /\ Omittable # {} /\ Cardinality(omitted) < Guard

\* Mutant: only what lies below an omitted node counts as truncation.
OmitUnsaid ==
  /\ pc = "enforce" /\ CanOmit
  /\ LET n == DeepestOmittable IN
       /\ omitted' = omitted \cup {n}
       /\ up' = [e \in DOMAIN up \ (Subtree(up, n) \ {n}) |-> up[e]]
  /\ truncated' = (truncated \/ up' # up)
  /\ UNCHANGED <<pc, source, role, kind, ref, target>>

OmitDeepest ==
  /\ pc = "enforce" /\ CanOmit
  /\ LET n == DeepestOmittable IN
       /\ omitted' = omitted \cup {n}
       /\ up' = [e \in DOMAIN up \ (Subtree(up, n) \ {n}) |-> up[e]]
  /\ truncated' = TRUE
  /\ UNCHANGED <<pc, source, role, kind, ref, target>>

Enforced ==
  /\ pc = "enforce" /\ ~CanOmit
  /\ pc' = "containers"
  /\ UNCHANGED <<source, role, up, omitted, truncated, kind, ref, target>>

-----------------------------------------------------------------------------
(* Containers; a parent is classified before its children. *)

RowsOf(n, roles) == {c \in Children(up, n) : roles[c] = "row"}

FirstToolbar == FirstOf({n \in DOMAIN up : el[n].class = "Toolbar"})

KindOfClass == [Overlay |-> "dialog", Tabs |-> "tabs", Selection |-> "selection"]

KindOf(n, roles) ==
  IF el[n].class = "Toolbar" /\ n = FirstToolbar THEN "topbar"
  ELSE IF el[n].class \in DOMAIN KindOfClass THEN KindOfClass[el[n].class]
  ELSE IF \/ el[n].class = "List" /\ el[n].scrollable
          \/ Cardinality(RowsOf(n, roles)) >= 2 THEN "list" ELSE ""

\* Rows and buttons become tabs in a container of tabs.
RoleUnder(n) ==
  IF up[n] \in DOMAIN up /\ el[up[n]].class = "Tabs" /\ role[n] \in {"row", "button"}
    THEN "tab" ELSE role[n]

DetectContainers ==
  /\ pc = "containers" /\ pc' = "refs"
  /\ role' = [n \in 1..N |-> IF n \in DOMAIN up THEN RoleUnder(n) ELSE role[n]]
  /\ kind' = [n \in 1..N |-> IF n \in DOMAIN up THEN KindOf(n, role') ELSE ""]
  /\ UNCHANGED <<source, up, omitted, truncated, ref, target>>

-----------------------------------------------------------------------------
(* Refs and tap targets. *)

NeedsRef(n) == el[n].scrollable \/ kind[n] # "" \/ role[n] \in ACTIONABLE_ROLES

\* The base, from the id, description or name, or the prefix of the role.
Base(n) == IF el[n].base = NoRef THEN <<role[n]>> ELSE el[n].base

\* The n-th use of a base is numbered; "a_2" may also be a base.
UniqueRef(n) ==
  LET used == {m \in DOMAIN up : m <= n /\ NeedsRef(m) /\ Base(m) = Base(n)}
  IN  IF Cardinality(used) = 1 THEN Base(n) ELSE Append(Base(n), Cardinality(used))

AssignRefs ==
  /\ pc = "refs" /\ pc' = "links"
  /\ ref' = [n \in 1..N |-> IF n \in DOMAIN up /\ NeedsRef(n) THEN UniqueRef(n) ELSE NoRef]
  /\ UNCHANGED <<source, role, up, omitted, truncated, kind, target>>

RefAbove(n) == {a \in Above(up, n) : ref[a] # NoRef}

\* Mutant: the outermost element with a ref instead of the nearest.
LinkOutermost ==
  /\ pc = "links" /\ pc' = "done"
  /\ target' = [n \in 1..N |->
       IF n \in DOMAIN up /\ ref[n] = NoRef /\ role[n] = "text" /\ el[n].named /\ RefAbove(n) # {}
         THEN ref[FirstOf(RefAbove(n))] ELSE NoRef]
  /\ UNCHANGED <<source, role, up, omitted, truncated, kind, ref>>

LinkTexts ==
  /\ pc = "links" /\ pc' = "done"
  /\ target' = [n \in 1..N |->
       IF n \in DOMAIN up /\ ref[n] = NoRef /\ role[n] = "text" /\ el[n].named /\ RefAbove(n) # {}
         THEN ref[LastOf(RefAbove(n))] ELSE NoRef]
  /\ UNCHANGED <<source, role, up, omitted, truncated, kind, ref>>

Done == pc = "done" /\ UNCHANGED vars

Next ==
  \/ InferSemantics \/ PruneAndCollapse \/ OmitDeepest \/ Enforced
  \/ DetectContainers \/ AssignRefs \/ LinkTexts \/ Done

Spec == Init /\ [][Next]_vars

-----------------------------------------------------------------------------
(* What readers of the snapshot do with it. *)

Actionable(n) == ref[n] # NoRef /\ role[n] \in ACTIONABLE_ROLES

Named(r) == {n \in DOMAIN up : ref[n] = r}

\* to_ref_map: the last of that ref.
RefMap(r) == LastOf(Named(r))

\* find_text: the node itself or its nearest actionable ancestor.
TextTarget(n) ==
  LET over == {a \in Above(up, n) \cup {n} : Actionable(a)}
  IN  IF over = {} THEN 0 ELSE LastOf(over)

-----------------------------------------------------------------------------
Collide == \E m, n \in DOMAIN up : m # n /\ ref[m] # NoRef /\ ref[m] = ref[n]

TypeOK ==
  /\ pc \in {"semantics", "prune", "enforce", "containers", "refs", "links", "done"}
  /\ raw \in Trees /\ el \in [1..N -> Elements] /\ budget \in Budgets
  /\ DOMAIN up \subseteq 1..N /\ DOMAIN up # {}
  /\ \A n \in DOMAIN up : up[n] \in DOMAIN up \cup {0}
  /\ Cardinality({n \in DOMAIN up : up[n] = 0}) = 1
  /\ omitted \subseteq 1..N /\ truncated \in BOOLEAN
  /\ \A n \in 1..N : ref[n] # NoRef \/ target[n] # NoRef => n \in DOMAIN up

\* What an agent could read, use or be told of on the screen (a label, a tap, a
\* scroll, that something is checked) is in the finished tree, and
\* rendered, unless the snapshot says that it is truncated.
NothingLostUnsaid ==
  pc = "done" /\ ~truncated =>
    \A n \in 1..N :
      el[n].visible /\ Tells(n) => n \in DOMAIN up \ omitted

\* Pruning, collapsing and truncating keep who lies inside whom.
AncestryKept ==
  pc # "semantics" => \A m, n \in DOMAIN up : m \in Above(up, n) <=> m \in Above(raw, n)

\* The persisted tap target of a text is the element find_text would act on, or
\* a container that lies between the two: never something further out.
TapTargetIsNearest ==
  pc = "done" /\ ~Collide =>
    \A n \in DOMAIN up : target[n] # NoRef =>
      LET t == RefMap(target[n])
      IN  /\ t \in Above(up, n)
          /\ TextTarget(n) # t =>
               /\ ~Actionable(t)
               /\ TextTarget(n) # 0 => TextTarget(n) \in Above(up, t)
=============================================================================
