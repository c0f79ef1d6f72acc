----------------------------- MODULE MCObserved -----------------------------
(* Instance of Observed: messages of two kinds, matchers for one of them   *)
(* and for both.                                                           *)
EXTENDS Observed, TLC

CONSTANTS r1, r2

MCBody == <<"x", "y", "y">>
MCScenes ==
  {[freed |-> 1, observed |-> << >>, receivers |-> {r1, r2}, calls |-> 1],
   [freed |-> 0, observed |-> <<1, 2, 3>>, receivers |-> {r1, r2}, calls |-> 0],
   [freed |-> 1, observed |-> <<2>>, receivers |-> {r1}, calls |-> 0]}
MCAccept == r1 :> {"y"} @@ r2 :> {"x", "y"}
=============================================================================
