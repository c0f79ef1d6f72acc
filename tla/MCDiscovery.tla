---------------------------- MODULE MCDiscovery -----------------------------
(* Instance of Discovery: a name, one below it that is too long for the    *)
(* node, and one that is too long for the caller.                          *)
EXTENDS Discovery

a == <<"/", "a">>
MCNames == {a, a \o <<"/", "b">>}
MCAsked == MCNames \cup {a \o <<"/", "b", "/">>}
MCListed == {<< >>, <<"/">>, a, a \o <<"/">>, <<"a">>}
MCScenes ==
  {[slots |-> 2, actors |-> 6, boots |-> 1, names |-> {}],
   [slots |-> 2, actors |-> 3, boots |-> 1, names |-> {a}],
   [slots |-> 1, actors |-> 3, boots |-> 2, names |-> {a}],
   [slots |-> 1, actors |-> 2, boots |-> 2, names |-> MCNames]}
MCUnbound == [pid |-> -1, n |-> 0, boot |-> 0]
=============================================================================
