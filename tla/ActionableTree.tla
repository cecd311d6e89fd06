---------------------------- MODULE ActionableTree ----------------------------
(***************************************************************************)
(* snapshot_actionable_tree: the operable part of a native snapshot, with  *)
(* labels borrowed from the texts inside an element.                       *)
(***************************************************************************)
EXTENDS NativeSearch

Operable(n) == Actionable(n) \/ el[n].scrollable

\* Elements with a line: the operable ones and what leads to them.
Lines == {n \in DOMAIN up : \E m \in Subtree(up, n) : Operable(m)}

Within(n) == Subtree(up, n) \ {n}

DirectTexts(n) == {m \in Children(up, n) : role[m] = "text" /\ el[m].named}

\* Mutant: labels are taken from inside other operable elements.
CollectedTextsAll(n) ==
  {m \in Within(n) :
     /\ role[m] = "text" /\ el[m].named
     /\ Depth(up, m) - Depth(up, n) <= 5
     /\ \A a \in Within(n) \cap Above(up, m) : role[a] # "text"}

\* At most five levels down, not through operable elements or texts.
CollectedTexts(n) ==
  {m \in Within(n) :
     /\ role[m] = "text" /\ el[m].named
     /\ Depth(up, m) - Depth(up, n) <= 5
     /\ ~Operable(m)
     /\ \A a \in Within(n) \cap Above(up, m) : ~Operable(a) /\ role[a] # "text"}

ContextLabelKinds == {"dialog", "overlay", "sheet", "topbar", "tabs", "selection"}

\* The elements whose names make the label of n.
LabelSources(n) ==
  IF el[n].named
    THEN IF Actionable(n) \/ kind[n] \in ContextLabelKinds THEN {n} ELSE {}
  ELSE IF ~Actionable(n) THEN {}
  ELSE IF DirectTexts(n) # {} THEN DirectTexts(n) ELSE CollectedTexts(n)

LabelOf(n) == {el[m].base : m \in LabelSources(n)}

Records == {n \in DOMAIN up : Actionable(n)}

-----------------------------------------------------------------------------
\* A text near enough to give an element its label: no further down than texts
\* are collected from, and not inside another text.
Near(m, n) ==
  /\ Depth(up, m) - Depth(up, n) <= 5
  /\ \A a \in Within(n) \cap Above(up, m) : role[a] # "text"

\* The label of an element is made of texts that a tap by text would send to
\* this element, and an element that the search gives as the tap target of a
\* text has a line when it can be acted on, and a label when the text is near:
\* the two views an agent is told to use together speak of the same elements.
LabelsNameTheirTarget ==
  pc = "done" /\ ~Collide =>
    /\ \A n \in Records : \A m \in LabelSources(n) : TextTarget(m) = n
    /\ \A m \in TextTargets :
         LET t == RefMap(target[m])
         IN  Actionable(t) => t \in Lines /\ (Near(m, t) => LabelOf(t) # {})
=============================================================================
