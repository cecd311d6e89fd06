----------------------------- MODULE MCNativeTree -----------------------------
(* Instances of NativeTree, NativeSearch and ActionableTree for TLC.         *)
EXTENDS ActionableTree

E(class, taps, scrollable, named, visible, base) ==
  [class |-> class, taps |-> taps, scrollable |-> scrollable, named |-> named,
   visible |-> visible, state |-> FALSE, base |-> base]

Layout == E("Group", {}, FALSE, FALSE, TRUE, <<>>)
Item == E("Group", {"click"}, FALSE, FALSE, TRUE, <<>>)
Held == E("Group", {"long"}, FALSE, FALSE, TRUE, <<>>)
Chosen == [Layout EXCEPT !.state = TRUE]
TabItem == E("TabItem", {"check"}, FALSE, FALSE, TRUE, <<>>)
Label == E("TextView", {}, FALSE, TRUE, TRUE, <<"label">>)
Save == E("Button", {"click"}, FALSE, TRUE, TRUE, <<"save">>)
Scroller == E("List", {}, TRUE, FALSE, TRUE, <<>>)
Gone == E("Button", {"click"}, FALSE, TRUE, FALSE, <<"save">>)
TabBar == E("Tabs", {}, FALSE, FALSE, TRUE, <<>>)
Bar == E("Toolbar", {}, FALSE, TRUE, TRUE, <<"label">>)
Box == E("Other", {}, TRUE, FALSE, TRUE, <<>>)
Verse == E("TextView", {}, TRUE, TRUE, TRUE, <<"label">>)
Blank == E("TextView", {}, FALSE, FALSE, TRUE, <<>>)

Screens ==
  {Layout, Item, Held, Chosen, TabItem, Label, Save, Scroller, Gone, TabBar, Bar,
   Box, Verse, Blank}
=============================================================================
