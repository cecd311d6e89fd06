------------------------------ MODULE MCWebTree ------------------------------
(* Instances of WebTree for TLC.                                             *)
EXTENDS WebTree

E(tag, id, attrs, text, hidden) ==
  [tag |-> tag, role |-> "", id |-> id, attrs |-> attrs, text |-> text,
   hidden |-> hidden]

Div == E("div", <<>>, {}, FALSE, FALSE)
Words == E("div", <<>>, {}, TRUE, FALSE)
Item == E("li", <<>>, {}, FALSE, FALSE)
Save == E("button", <<"save">>, {}, TRUE, FALSE)
Save2 == E("input", <<"save", 2>>, {}, FALSE, FALSE)
Bare == E("button", <<>>, {}, FALSE, FALSE)
Far == E("button", <<>>, {"offscreen"}, FALSE, FALSE)
Spacer == E("img", <<>>, {"presentational"}, FALSE, FALSE)
Rule == E("hr", <<>>, {}, FALSE, FALSE)
Gone == E("button", <<"save">>, {}, TRUE, TRUE)

Pages == {Div, Words, Item, Save, Save2, Bare, Far, Spacer, Rule, Gone}
=============================================================================
