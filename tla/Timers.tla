------------------------------- MODULE Timers -------------------------------
(***************************************************************************)
(* One-shot and interval timers of the Runtime (src/lib.rs): callers of    *)
(* send_after, send_interval and cancel_timer, and the tokio task of each  *)
(* timer.  Time is the moment a delay elapses, chosen freely.  The select! *)
(* of a timer task is not biased: when its sleep and its cancel channel    *)
(* are both ready, either is taken.  The task ignores what its send        *)
(* returns, so that the target's life makes no difference to it.           *)
(***************************************************************************)
EXTENDS Integers, FiniteSets

CONSTANTS Callers,    \* threads that start timers
          MaxTimers,  \* bound of the model: timers ever started
          MaxTicks    \* bound of the model: elapsed delays kept apart per timer

ASSUME TimersAssumption == MaxTimers \in Nat \ {0} /\ MaxTicks \in Nat \ {0}

Ids == 1 .. MaxTimers

VARIABLES
  timer_counter,  \* Runtime.timer_counter
  timers,         \* keys of Runtime.timers
  closed,         \* timers whose oneshot channel was fired or dropped
  kind,           \* "once" or "interval", as started
  task,           \* where the task of each timer is
  caller,         \* the id each caller is starting, and the step it is at
  tries,          \* history: sends attempted by each timer, up to MaxTicks
  hits            \* history: calls of cancel_timer that returned true

vars == <<timer_counter, timers, closed, kind, task, caller, tries, hits>>

Idle == [pc |-> "idle", id |-> 0]

Init ==
  /\ timer_counter = 0 /\ timers = {} /\ closed = {}
  /\ kind = [i \in Ids |-> "none"] /\ task = [i \in Ids |-> "none"]
  /\ caller = [c \in Callers |-> Idle]
  /\ tries = [i \in Ids |-> 0] /\ hits = [i \in Ids |-> 0]
-----------------------------------------------------------------------------
(* send_after and send_interval: fetch_add + 1 ... *)
NewId(c) ==
  /\ caller[c] = Idle /\ timer_counter < MaxTimers
  /\ timer_counter' = timer_counter + 1
  /\ caller' = [caller EXCEPT ![c] = [pc |-> "insert", id |-> timer_counter + 1]]
  /\ \E k \in {"once", "interval"} : kind' = [kind EXCEPT ![timer_counter + 1] = k]
  /\ UNCHANGED <<timers, closed, task, tries, hits>>

(* mutants: the task is spawned before the entry is made; the sender is    *)
(* not stored, and dropped                                                 *)
SpawnFirst(c) ==
  /\ caller[c].pc = "insert"
  /\ IF task[caller[c].id] = "none"
     THEN /\ task' = [task EXCEPT ![caller[c].id] = "sleep"]
          /\ UNCHANGED <<timers, caller>>
     ELSE /\ timers' = timers \cup {caller[c].id}
          /\ caller' = [caller EXCEPT ![c] = Idle]
          /\ UNCHANGED task
  /\ UNCHANGED <<timer_counter, closed, kind, tries, hits>>
InsertDropsSender(c) ==
  /\ caller[c].pc = "insert"
  /\ closed' = closed \cup {caller[c].id}
  /\ caller' = [caller EXCEPT ![c] = [pc |-> "spawn", id |-> caller[c].id]]
  /\ UNCHANGED <<timer_counter, timers, kind, task, tries, hits>>

(* ... timers.insert ... *)
Insert(c) ==
  /\ caller[c].pc = "insert"
  /\ timers' = timers \cup {caller[c].id}
  /\ caller' = [caller EXCEPT ![c] = [pc |-> "spawn", id |-> caller[c].id]]
  /\ UNCHANGED <<timer_counter, closed, kind, task, tries, hits>>

(* ... RUNTIME.spawn, and the id is returned. *)
Spawn(c) ==
  /\ caller[c].pc = "spawn"
  /\ task' = [task EXCEPT ![caller[c].id] = "sleep"]
  /\ caller' = [caller EXCEPT ![c] = Idle]
  /\ UNCHANGED <<timer_counter, timers, closed, kind, tries, hits>>

(* cancel_timer on a known id: the entry is removed and its channel fired  *)
(* under the lock, and the call returns true.  On any other id it returns  *)
(* false and changes nothing.  The id is known once the call that made it  *)
(* has returned.                                                           *)
Cancel(i) ==
  /\ i \in timers /\ task[i] # "none"
  /\ timers' = timers \ {i}
  /\ closed' = closed \cup {i}
  /\ hits' = [hits EXCEPT ![i] = @ + 1]
  /\ UNCHANGED <<timer_counter, kind, task, caller, tries>>
-----------------------------------------------------------------------------
(* The task of a timer *)

Tried(i) == tries' = [tries EXCEPT ![i] = IF @ < MaxTicks THEN @ + 1 ELSE @]

(* The delay elapses and Runtime::send is called, whether or not the       *)
(* target still has a mailbox; an interval goes round its loop.            *)
Elapse(i) ==
  /\ task[i] = "sleep"
  /\ Tried(i)
  /\ task' = [task EXCEPT ![i] = IF kind[i] = "once" THEN "remove" ELSE "sleep"]
  /\ UNCHANGED <<timer_counter, timers, closed, kind, caller, hits>>

(* mutant: an interval does not leave its loop *)
CancelledOnce(i) ==
  /\ task[i] = "sleep" /\ i \in closed /\ kind[i] = "once"
  /\ task' = [task EXCEPT ![i] = "remove"]
  /\ UNCHANGED <<timer_counter, timers, closed, kind, caller, tries, hits>>

(* The cancel channel is ready. *)
Cancelled(i) ==
  /\ task[i] = "sleep" /\ i \in closed
  /\ task' = [task EXCEPT ![i] = "remove"]
  /\ UNCHANGED <<timer_counter, timers, closed, kind, caller, tries, hits>>

(* timers.remove at the end of the task drops the sender, if still there. *)
Remove(i) ==
  /\ task[i] = "remove"
  /\ timers' = timers \ {i}
  /\ task' = [task EXCEPT ![i] = "end"]
  /\ UNCHANGED <<timer_counter, closed, kind, caller, tries, hits>>

Next ==
  \/ \E c \in Callers : NewId(c) \/ Insert(c) \/ Spawn(c)
  \/ \E i \in Ids : Cancel(i) \/ Elapse(i) \/ Cancelled(i) \/ Remove(i)

Spec == Init /\ [][Next]_vars

(* Delays elapse, the scheduler polls every task that is ready, and a      *)
(* select! whose cancel channel stays ready takes that branch in the end   *)
(* (it picks its first branch at random on every poll).                    *)
Fairness ==
  /\ \A c \in Callers : WF_vars(Insert(c)) /\ WF_vars(Spawn(c))
  /\ \A i \in Ids : WF_vars(Elapse(i)) /\ WF_vars(Cancelled(i)) /\ WF_vars(Remove(i))

FairSpec == Spec /\ Fairness
-----------------------------------------------------------------------------
(* The table holds no entry of a finished timer: the entry is made before  *)
(* the task that removes it exists.                                        *)
NoLeakedEntry == \A i \in timers : task[i] # "end"

(* A one-shot timer sends at most once, and ends without sending only if   *)
(* a cancel_timer returned true for it.                                    *)
OneShotExact ==
  \A i \in Ids :
    kind[i] = "once" =>
      /\ tries[i] <= 1
      /\ task[i] \in {"remove", "end"} /\ tries[i] = 0 => hits[i] = 1

(* The task of a timer that was cancelled ends, an interval's by the break *)
(* out of its loop (lib.rs:140).                                           *)
CancelEnds == \A i \in Ids : hits[i] > 0 ~> task[i] = "end"
=============================================================================
