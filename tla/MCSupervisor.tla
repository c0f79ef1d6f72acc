---------------------------- MODULE MCSupervisor ----------------------------
(* Instances of Supervisor for TLC: the scenarios its runs start from. *)
EXTENDS Supervisor

Scene(specs, ps, ls, mon, os, nPids, nOps, nEnds, nErrors) ==
  [children |-> specs, paths |-> ps, links |-> ls, monitored |-> mon, ops |-> os,
   maxPid |-> nPids, maxOps |-> nOps, maxEnds |-> nEnds, maxErrors |-> nErrors]

(* Two linked RestartOne children; a remote monitor may report the exit of *)
(* the first as well.                                                      *)
OneForOne == Scene(<<"one", "one">>, << >>, {<<1, 2>>}, {1}, {}, 4, 0, 2, 0)

(* Two RestartAll children; one that shares its group with an actor that   *)
(* is only watched.                                                        *)
OneForAll == Scene(<<"all", "all">>, << >>, {}, {}, {}, 4, 0, 2, 0)
Watched == Scene(<<"all", "watch">>, << >>, {<<1, 2>>}, {}, {}, 3, 0, 2, 0)

(* A child whose factory fails until it is dropped. *)
Dropped == Scene(<<"one", "none">>, << >>, {<<1, 2>>}, {1}, {}, 3, 0, 2, 3)

(* A child is added from outside at any moment of two exits and a restart; *)
(* any one call that takes something back, or links, at any such moment;   *)
(* any two of those around one exit.                                       *)
Undo == {"unwatch", "remove_child", "link", "unlink", "stop"}
Added ==
  Scene(<<"one", "none">>, << >>, {}, {}, {"add", "checked", "add_new"}, 3, 1, 2, 0)
Called == Scene(<<"one", "none">>, << >>, {<<1, 2>>}, {}, Undo, 3, 1, 2, 0)
CalledTwice == Scene(<<"one", "none">>, << >>, {<<1, 2>>}, {}, Undo, 3, 2, 1, 0)

(* An actor under the global supervisor and under one of a path, linked to *)
(* an actor that only the path supervisor has.                             *)
TwoSupervisors ==
  Scene(<<"one", "none">>, <<<<"one", "one">>>>, {<<1, 2>>}, {}, {}, 4, 0, 2, 0)

SafetyScenes ==
  {OneForOne, OneForAll, Watched, Dropped, Added, Called, CalledTwice, TwoSupervisors}

(* The pids suffice for every restart these can ask for, so that no        *)
(* factory waits for a pid.                                                *)
LiveScenes ==
  {Scene(<<"one", "none">>, << >>, {<<1, 2>>}, {1}, {}, 4, 0, 1, 3),
   Scene(<<"one", "one">>, << >>, {<<1, 2>>}, {}, {}, 4, 0, 2, 1),
   Scene(<<"all", "all">>, << >>, {<<1, 2>>}, {}, {}, 4, 0, 1, 0),
   Scene(<<"one", "none">>, <<<<"one", "one">>>>, {<<1, 2>>}, {}, {}, 4, 0, 1, 0),
   Scene(<<"none", "none">>, <<<<"all", "none">>>>, {<<1, 2>>}, {},
         {"create", "add_new", "remove"}, 4, 1, 1, 0)}

LostExitScenes == {Scene(<<"one", "none">>, << >>, {<<1, 2>>}, {}, {}, 3, 0, 1, 0)}

WaveScenes == {Scene(<<"all", "all">>, << >>, {}, {}, {}, 6, 0, 2, 0)}
=============================================================================
