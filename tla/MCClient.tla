------------------------------ MODULE MCClient ------------------------------
(* Small instances of Player: the groups of MCQueue, whose queue is looked *)
(* at in the session, and a group that a device shows and plays.           *)
EXTENDS MCQueue, Player

\* Three items, of which a screen has room for two and one cannot be played,
\* and a narrated child.
Programme == {Item(31, 1, None, <<>>), Item(32, 2, None, <<>>), Item(33, 3, 32, <<>>),
              Item(34, 4, None, <<>>)}
Broken == {34}
OnScreen == {item.id : item \in Programme}
ClientGroups == AllGroups \union {[items |-> Programme, foreign |-> {}]}
=============================================================================
