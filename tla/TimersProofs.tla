--------------------------- MODULE TimersProofs ----------------------------
(***************************************************************************)
(* Proofs about the timers, for any number of threads and of timers.  The  *)
(* inductive invariant ties the table, the cancel channels and the history *)
(* of each timer to the step of its task, and gives every timer that is    *)
(* being started to one thread, which no cancel_timer can know yet.        *)
(***************************************************************************)
EXTENDS Timers, TLAPS

Types ==
  /\ timer_counter \in Nat
  /\ kind \in [Ids -> {"none", "once", "interval"}]
  /\ task \in [Ids -> {"none", "sleep", "remove", "end"}]
  /\ caller \in [Callers -> [pc : {"idle", "insert", "spawn"}, id : 0 .. MaxTimers]]
  /\ timers \subseteq Ids
  /\ tries \in [Ids -> Nat] /\ hits \in [Ids -> Nat]

(* A timer that is being started is its caller's alone. *)
StartsInv ==
  \A c \in Callers : caller[c].pc # "idle" =>
    /\ caller[c].id \in Ids /\ caller[c].id <= timer_counter
    /\ task[caller[c].id] = "none"
    /\ \A d \in Callers : caller[d].pc # "idle" /\ caller[d].id = caller[c].id => d = c

(* The timer i, by the step of its task. *)
TimerInv(i) ==
  /\ i > timer_counter => task[i] = "none"
  /\ task[i] = "none" => i \notin closed /\ tries[i] = 0
  /\ hits[i] = IF i \in closed THEN 1 ELSE 0
  /\ i \in timers => i \notin closed /\ task[i] # "end"
  /\ kind[i] = "once" /\ task[i] = "sleep" => tries[i] = 0
  /\ kind[i] = "once" /\ task[i] \in {"remove", "end"} =>
       tries[i] = 1 \/ (tries[i] = 0 /\ i \in closed)

Inv == Types /\ StartsInv /\ \A i \in Ids : TimerInv(i)

LEMMA InvInit == Init => Inv
BY TimersAssumption
DEF Init, Inv, Types, StartsInv, TimerInv, Idle, Ids

(* The steps of a thread that starts a timer. *)
LEMMA CallerKeeps ==
  ASSUME Inv, NEW c \in Callers, NewId(c) \/ Insert(c) \/ Spawn(c)
  PROVE  Inv'
<1> USE TimersAssumption DEF Ids, Inv
<1>1. CASE NewId(c)
  <2>1. Types'
    BY <1>1 DEF Types, NewId
  <2>2. StartsInv'
    BY <1>1 DEF Types, StartsInv, TimerInv, NewId, Idle
  <2>3. ASSUME NEW i \in Ids PROVE TimerInv(i)'
    BY <1>1 DEF Types, TimerInv, NewId
  <2> QED
    BY <2>1, <2>2, <2>3
<1>2. CASE Insert(c)
  <2>1. Types'
    BY <1>2 DEF Types, StartsInv, Insert
  <2>2. StartsInv'
    BY <1>2 DEF Types, StartsInv, Insert
  <2>3. ASSUME NEW i \in Ids PROVE TimerInv(i)'
    BY <1>2 DEF Types, StartsInv, TimerInv, Insert
  <2> QED
    BY <2>1, <2>2, <2>3
<1>3. CASE Spawn(c)
  <2>1. Types'
    BY <1>3 DEF Types, StartsInv, Spawn, Idle
  <2>2. StartsInv'
    BY <1>3 DEF Types, StartsInv, Spawn, Idle
  <2>3. ASSUME NEW i \in Ids PROVE TimerInv(i)'
    BY <1>3 DEF Types, StartsInv, TimerInv, Spawn
  <2> QED
    BY <2>1, <2>2, <2>3
<1> QED
  BY <1>1, <1>2, <1>3

(* cancel_timer and the steps of a timer's task. *)
LEMMA TimerKeeps ==
  ASSUME Inv, NEW k \in Ids, Cancel(k) \/ Elapse(k) \/ Cancelled(k) \/ Remove(k)
  PROVE  Inv'
<1> USE TimersAssumption DEF Ids, Inv
<1>1. CASE Cancel(k)
  <2>1. Types'
    BY <1>1 DEF Types, Cancel
  <2>2. StartsInv'
    BY <1>1 DEF StartsInv, Cancel
  <2>3. ASSUME NEW i \in Ids PROVE TimerInv(i)'
    BY <1>1 DEF Types, TimerInv, Cancel
  <2> QED
    BY <2>1, <2>2, <2>3
<1>2. CASE Elapse(k)
  <2>1. Types'
    <3>1. tries' \in [Ids -> Nat]
      BY <1>2 DEF Types, Elapse, Tried
    <3>2. task' \in [Ids -> {"none", "sleep", "remove", "end"}]
      BY <1>2 DEF Types, Elapse
    <3> QED
      BY <1>2, <3>1, <3>2 DEF Types, Elapse
  <2>2. StartsInv'
    BY <1>2 DEF Types, StartsInv, Elapse
  <2>3. ASSUME NEW i \in Ids PROVE TimerInv(i)'
    BY <1>2 DEF Types, TimerInv, Elapse, Tried
  <2> QED
    BY <2>1, <2>2, <2>3
<1>3. CASE Cancelled(k)
  <2>1. Types'
    BY <1>3 DEF Types, Cancelled
  <2>2. StartsInv'
    BY <1>3 DEF Types, StartsInv, Cancelled
  <2>3. ASSUME NEW i \in Ids PROVE TimerInv(i)'
    BY <1>3 DEF Types, TimerInv, Cancelled
  <2> QED
    BY <2>1, <2>2, <2>3
<1>4. CASE Remove(k)
  <2>1. Types'
    BY <1>4 DEF Types, Remove
  <2>2. StartsInv'
    BY <1>4 DEF Types, StartsInv, Remove
  <2>3. ASSUME NEW i \in Ids PROVE TimerInv(i)'
    BY <1>4 DEF Types, TimerInv, Remove
  <2> QED
    BY <2>1, <2>2, <2>3
<1> QED
  BY <1>1, <1>2, <1>3, <1>4

LEMMA InvStep == Inv /\ [Next]_vars => Inv'
<1> SUFFICES ASSUME Inv, [Next]_vars PROVE Inv'
  OBVIOUS
<1>1. ASSUME NEW c \in Callers, NewId(c) \/ Insert(c) \/ Spawn(c)
      PROVE  Inv'
  BY <1>1, CallerKeeps
<1>2. ASSUME NEW k \in Ids, Cancel(k) \/ Elapse(k) \/ Cancelled(k) \/ Remove(k)
      PROVE  Inv'
  BY <1>2, TimerKeeps
<1>3. CASE UNCHANGED vars
  BY <1>3 DEF Inv, Types, StartsInv, TimerInv, vars
<1> QED
  BY <1>1, <1>2, <1>3 DEF Next

(* No finished timer has an entry in the table (lib.rs:105, :120, :146),   *)
(* for any number of timers, threads and cancellations.                    *)
THEOREM EntriesAreRemoved == Spec => []NoLeakedEntry
<1>1. Inv => NoLeakedEntry
  BY DEF Inv, Types, TimerInv, NoLeakedEntry
<1> QED
  BY <1>1, InvInit, InvStep, PTL DEF Spec

(* A one-shot timer sends exactly once or was cancelled (lib.rs:109).      *)
THEOREM OneShotsAreExact == Spec => []OneShotExact
<1>1. Inv => OneShotExact
  BY DEF Inv, Types, TimerInv, OneShotExact
<1> QED
  BY <1>1, InvInit, InvStep, PTL DEF Spec
=============================================================================
