------------------------------ MODULE MCService ------------------------------
(* Small instance of Service for TLC.                                      *)
EXTENDS Service

CONSTANTS a1, v1, v2

\* Ids of four characters and more are cut, so the grandchild of the second
\* tree gets the id of its parent; the item has the id the first tree derives
\* for its child, and asks for an answer.
Deep == [rid |-> <<"c">>, author |-> a1, nodes |-> {<<>>, <<0>>, <<0, 0>>, <<1>>}, wait |-> 0]
Long == [rid |-> <<"a", "b", "c", "d">>, author |-> a1, nodes |-> {<<>>, <<0>>, <<0, 0>>}, wait |-> 0]
Item == [rid |-> <<"c", "-", 0>>, author |-> a1, nodes |-> {<<>>}, wait |-> 1]

Near == [rid |-> <<"a", "b", "c", "d", "e">>, author |-> a1, nodes |-> {<<>>, <<0>>}, wait |-> 0]

TwoClients == {1, 2}
Pairs == {<<Deep, Item>>, <<Long, Near>>}
OneNode == {<<Deep, <<0>>>>}
TwoContents == {v1, v2}
TwoTimes == {1, 2}
=============================================================================
