-------------------------- MODULE SupervisorProofs -------------------------
(***************************************************************************)
(* Proofs about the restarting marks, for any number of actors, path       *)
(* supervisors and calls from outside, and for any scenario.               *)
(***************************************************************************)
EXTENDS Supervisor, TLAPS

Steps == {"off", "insert", "lookup", "unmark", "collect", "iterate", "mark", "done"}

TaskRecord == [pc : {"factory", "insert", "remove", "links", "release", "end"},
               spec : Spec1, attempts : Nat, new : 0 .. MaxPid]

Types ==
  /\ phase \in [Pids -> {"unborn", "running", "unmap", "notify", "paths", "signal", "dead"}]
  /\ children \in [Sups -> [Pids -> Spec1]]
  /\ restarting \subseteq Sups \X Pids
  /\ call \in [Callers -> [pc : Steps, all : SUBSET (Pids \X Spec0), todo : SUBSET Pids]]
  /\ tasks \in [DOMAIN tasks -> TaskRecord]

(* A restart task exists only after the notify_exit that spawned it; until *)
(* it has ended it has a spec, and the pid it registers once it knows it.  *)
TaskInv ==
  \A id \in DOMAIN tasks :
    /\ id \in Tasks
    /\ <<id[1], id[2], id[3]>> \in Callers
    /\ call[<<id[1], id[2], id[3]>>].pc = "done"
    /\ tasks[id].pc # "end" => tasks[id].spec \in Spec0
    /\ tasks[id].pc = "insert" => tasks[id].new \in Pids

CallInv ==
  /\ \A c \in Callers : call[c].pc = "mark" => call[c].todo \subseteq Keys(call[c].all)
  /\ \A p \in Pids : phase[p] \in {"unborn", "running", "unmap"} =>
                       call[<<"exit", 0, p>>].pc = "off"

HalfInv ==
  \A h \in half :
    h[1] = "checked" => h[2] \in Sups /\ h[3] \in Pids /\ h[4] \in Spec0

(* The caller c will take the mark m back or spawn a task that does.  From *)
(* the lookup on it is sure to only while the child is registered: whoever *)
(* removes the child from under it takes the mark back as well.            *)
Covers(c, m) ==
  /\ c[2] = m[1]
  /\ \/ c[3] = m[2] /\ call[c].pc \in {"lookup", "unmark"}
     \/ /\ c[3] = m[2] /\ call[c].pc = "collect"
        /\ children[m[1]][m[2]] # "none"
     \/ /\ c[3] = m[2] /\ call[c].pc = "iterate"
        /\ children[m[1]][m[2]] # "none" /\ m[2] \in Keys(call[c].all)
     \/ call[c].pc = "mark" /\ m[2] \in Keys(call[c].all)

Replaces(id, m) == id[2] = m[1] /\ id[4] = m[2] /\ tasks[id].pc # "end"
Removes(h, m) == h[1] \in {"unwatch", "remove_child"} /\ <<0, h[2]>> = m

Covered(m) ==
  \/ \E c \in Callers : Covers(c, m)
  \/ \E id \in DOMAIN tasks : Replaces(id, m)
  \/ \E h \in half : Removes(h, m)

MarkInv == \A m \in restarting : Covered(m)

Inv == Types /\ TaskInv /\ CallInv /\ HalfInv /\ MarkInv
-----------------------------------------------------------------------------
LEMMA CallerForm ==
  ASSUME NEW c \in Callers
  PROVE  /\ c = <<c[1], c[2], c[3]>> /\ c[1] \in {"exit", "monitor"}
         /\ c[2] \in Sups /\ c[3] \in Pids
BY DEF Callers, Sups

LEMMA ExitCaller ==
  ASSUME NEW s \in Sups, NEW p \in Pids
  PROVE  <<"exit", s, p>> \in Callers
BY DEF Callers

LEMMA MonitorCaller ==
  ASSUME NEW p \in Pids
  PROVE  <<"monitor", 0, p>> \in Callers
BY DEF Callers

LEMMA InvInit == Init => Inv
<1> SUFFICES ASSUME Init PROVE Inv
  OBVIOUS
<1>1. Types
  <2>1. ASSUME NEW s \in Sups, NEW p \in Pids PROVE Initially(s, p) \in Spec1
    BY SupervisorAssumption DEF Init, Initially, Sups, PathSups, Pids, Spec1
  <2>2. children \in [Sups -> [Pids -> Spec1]]
    BY <2>1 DEF Init
  <2>3. tasks \in [DOMAIN tasks -> TaskRecord]
    BY DEF Init
  <2>4. restarting \subseteq Sups \X Pids
    BY DEF Init
  <2> QED
    BY <2>2, <2>3, <2>4 DEF Init, Types, Steps
<1>2. TaskInv
  BY DEF Init, TaskInv
<1>3. CallInv
  BY ExitCaller DEF Init, CallInv, Sups
<1>4. HalfInv /\ MarkInv
  BY DEF Init, HalfInv, MarkInv
<1> QED
  BY <1>1, <1>2, <1>3, <1>4 DEF Inv
-----------------------------------------------------------------------------
(* What the steps have in common that touch neither the maps nor the calls *)
(* of notify_exit nor the restart tasks.                                   *)
Early == {"unborn", "running", "unmap"}
PhaseOk ==
  /\ phase' \in [Pids -> {"unborn", "running", "unmap", "notify", "paths", "signal", "dead"}]
  /\ \A p \in Pids : phase'[p] \in Early => phase[p] \in Early
HalfOk == HalfInv' /\ \A h \in half : h[1] \in {"unwatch", "remove_child"} => h \in half'

LEMMA Frame ==
  ASSUME Inv, PhaseOk, HalfOk, UNCHANGED <<children, restarting, call, tasks>>
  PROVE  Inv'
<1>1. Types' /\ TaskInv'
  BY Zenon DEF Inv, Types, TaskInv, PhaseOk
<1>2. CallInv'
  BY DEF Inv, CallInv, PhaseOk, Early
<1>3. MarkInv'
  BY DEF Inv, MarkInv, Covered, Covers, Replaces, Removes, HalfOk
<1> QED
  BY <1>1, <1>2, <1>3 DEF Inv, HalfOk

LEMMA PathKeeps ==
  ASSUME Inv, NEW p \in Pids,
         ActorEnds(p) \/ IteratePaths(p) \/ TakeLinks(p) \/ Signal(p)
  PROVE  Inv'
<1>1. UNCHANGED <<children, restarting, call, tasks, half>>
  BY DEF ActorEnds, IteratePaths, TakeLinks, Iterated, Signal, mapVars, envVars
<1>2. \E new \in {"unmap", "paths", "signal", "dead"} :
        /\ phase' = [phase EXCEPT ![p] = new] \/ phase' = phase
        /\ new = "unmap" => phase[p] = "running"
  BY DEF ActorEnds, IteratePaths, TakeLinks, Iterated, Signal
<1>3. PhaseOk
  BY <1>2 DEF Inv, Types, PhaseOk, Early
<1>4. HalfOk
  BY <1>1 DEF Inv, HalfInv, HalfOk
<1> QED
  BY <1>1, <1>3, <1>4, Frame

LEMMA RetainKeeps ==
  ASSUME Inv, NEW r \in cleaning, RetainPeer(r)
  PROVE  Inv'
<1>1. UNCHANGED <<children, restarting, call, tasks, half, phase>>
  BY DEF RetainPeer, mapVars, envVars
<1>2. PhaseOk /\ HalfOk
  BY <1>1 DEF Inv, Types, HalfInv, PhaseOk, HalfOk
<1> QED
  BY <1>1, <1>2, Frame

(* The calls from outside that leave children and restarting alone. *)
LEMMA LinkCallKeeps ==
  ASSUME Inv,
         \/ OtherHalf \/ RemoveLinks
         \/ \E a, b \in Pids : Link(a, b) \/ Unlink(a, b)
         \/ \E q \in Pids : Stop(q)
         \/ \E t \in PathSups : CreatePath(t) \/ RemovePath(t)
         \/ \E u \in Sups, q \in Pids, spec \in Spec0 : CheckFactory(u, q, spec)
  PROVE  Inv'
<1>1. UNCHANGED <<children, restarting, call, tasks>>
  BY Zenon DEF OtherHalf, RemoveLinks, Link, Unlink, Stop, CreatePath, RemovePath, CheckFactory,
         mapVars
<1>2. PhaseOk
  <2>1. \/ phase' = phase
        \/ \E new \in Pids : new \notin Spawned /\ phase' = [phase EXCEPT ![new] = "running"]
    BY Zenon DEF OtherHalf, RemoveLinks, Link, Unlink, Stop, CreatePath, RemovePath, CheckFactory,
           SpawnActor
  <2> QED
    BY <2>1 DEF Inv, Types, PhaseOk, Early, Spawned
<1>3. HalfOk
  <2>1. CASE \E h \in half : h[1] \notin {"unwatch", "remove_child"} /\ half' = half \ {h}
    BY <2>1 DEF Inv, HalfInv, HalfOk
  <2>2. CASE \E op \in {"link", "unlink"} : \E a, b, n : half' = half \cup {<<op, a, b, n>>}
    BY <2>2 DEF Inv, HalfInv, HalfOk
  <2>3. CASE half' = half
    BY <2>3 DEF Inv, HalfInv, HalfOk
  <2>4. CASE \E u \in Sups, q \in Pids, spec \in Spec0 : \E n :
               half' = half \cup {<<"checked", u, q, spec, n>>}
    BY <2>4 DEF Inv, HalfInv, HalfOk
  <2>5. CASE OtherHalf \/ RemoveLinks
    BY Zenon, <2>1, <2>5 DEF OtherHalf, RemoveLinks
  <2>6. CASE \E a, b \in Pids : Link(a, b) \/ Unlink(a, b)
    BY Zenon, <2>2, <2>6 DEF Link, Unlink
  <2>7. CASE (\E q \in Pids : Stop(q)) \/ \E t \in PathSups : CreatePath(t) \/ RemovePath(t)
    BY <2>3, <2>7 DEF Stop, CreatePath, RemovePath
  <2>8. CASE \E u \in Sups, q \in Pids, spec \in Spec0 : CheckFactory(u, q, spec)
    BY Zenon, <2>4, <2>8 DEF CheckFactory
  <2> QED
    BY <2>5, <2>6, <2>7, <2>8
<1> QED
  BY <1>1, <1>2, <1>3, Frame
-----------------------------------------------------------------------------
(* A caller c moves from one step to another, neither being "done" before, *)
(* and nothing else that matters changes but the marks.                    *)
LEMMA CallMoves ==
  ASSUME Inv, NEW c \in Callers, NEW r \in [pc : Steps, all : SUBSET (Pids \X Spec0),
                                           todo : SUBSET Pids],
         call[c].pc # "done", call' = [call EXCEPT ![c] = r],
         r.pc = "mark" => r.todo \subseteq Keys(r.all),
         restarting' \subseteq Sups \X Pids,
         UNCHANGED <<children, tasks, half>>,
         PhaseOk,
         \A p \in Pids : c = <<"exit", 0, p>> /\ phase'[p] \in Early => r.pc = "off",
         \A m \in restarting' : \/ m \in restarting /\ ~Covers(c, m)
                                \/ Covers(c, m)'
  PROVE  Inv'
<1> USE DEF Inv
<1>1. \A d \in Callers : call'[d] = IF d = c THEN r ELSE call[d]
  BY DEF Types
<1>2. Types'
  BY DEF Types, PhaseOk
<1>3. TaskInv'
  BY Zenon, <1>1 DEF TaskInv
<1>4. CallInv'
  <2>1. \A d \in Callers : call'[d].pc = "mark" => call'[d].todo \subseteq Keys(call'[d].all)
    BY <1>1 DEF CallInv
  <2>2. ASSUME NEW p \in Pids, phase'[p] \in Early PROVE call'[<<"exit", 0, p>>].pc = "off"
    BY <1>1, <2>2, ExitCaller DEF CallInv, PhaseOk, Early, Sups
  <2> QED
    BY <2>1, <2>2 DEF CallInv, Early
<1>5. HalfInv'
  BY DEF HalfInv
<1>6. ASSUME NEW m \in restarting' PROVE Covered(m)'
  <2>1. CASE Covers(c, m)'
    BY <2>1 DEF Covered
  <2>2. CASE m \in restarting /\ ~Covers(c, m)
    <3>1. \A d \in Callers : Covers(d, m) => d # c /\ Covers(d, m)'
      BY <1>1, <2>2 DEF Covers
    <3>2. \A id \in DOMAIN tasks : Replaces(id, m) => id \in DOMAIN tasks' /\ Replaces(id, m)'
      BY DEF Replaces
    <3>3. \A h \in half : Removes(h, m) => h \in half' /\ Removes(h, m)'
      BY DEF Removes
    <3> QED
      BY <2>2, <3>1, <3>2, <3>3 DEF MarkInv, Covered
  <2> QED
    BY <1>6, <2>1, <2>2
<1> QED
  BY <1>2, <1>3, <1>4, <1>5, <1>6 DEF MarkInv

(* notify_exit is called, or the exit path passes a path supervisor by. *)
LEMMA CallBegins ==
  ASSUME Inv, NEW c \in Callers, call[c].pc = "off", NEW pc \in {"insert", "done"},
         call' = CallAt(c, pc), UNCHANGED <<children, restarting, tasks, half>>, PhaseOk,
         \A p \in Pids : c = <<"exit", 0, p>> => phase'[p] \notin Early
  PROVE  Inv'
<1> DEFINE r == [pc |-> pc, all |-> call[c].all, todo |-> call[c].todo]
<1>1. r \in [pc : Steps, all : SUBSET (Pids \X Spec0), todo : SUBSET Pids]
  BY DEF Inv, Types, Steps
<1>2. call' = [call EXCEPT ![c] = r]
  BY DEF CallAt
<1>3. restarting' \subseteq Sups \X Pids
  BY DEF Inv, Types
<1>4. \A m \in restarting' : m \in restarting /\ ~Covers(c, m)
  BY DEF Covers
<1>5. r.pc # "mark"
  OBVIOUS
<1> HIDE DEF r
<1> QED
  BY Zenon, <1>1, <1>2, <1>3, <1>4, <1>5, CallMoves

LEMMA ReportKeeps ==
  ASSUME Inv, NEW p \in Pids,
         Unmap(p) \/ MonitorDown(p) \/ \E s \in PathSups : VisitPath(p, s)
  PROVE  Inv'
<1>1. CASE Unmap(p)
  <2>1. <<"exit", 0, p>> \in Callers /\ call[<<"exit", 0, p>>].pc = "off"
    BY <1>1, ExitCaller DEF Unmap, Inv, CallInv, Sups
  <2>2. PhaseOk /\ phase'[p] \notin Early
    BY <1>1 DEF Unmap, Inv, Types, PhaseOk, Early
  <2>3. \A q \in Pids : <<"exit", 0, p>> = <<"exit", 0, q>> => phase'[q] \notin Early
    BY <2>2
  <2>4. call' = CallAt(<<"exit", 0, p>>, "insert") /\ UNCHANGED <<children, restarting, tasks, half>>
    BY <1>1 DEF Unmap, mapVars, envVars
  <2> QED
    BY <2>1, <2>2, <2>3, <2>4, CallBegins
<1>2. CASE MonitorDown(p)
  <2>1. <<"monitor", 0, p>> \in Callers /\ call[<<"monitor", 0, p>>].pc = "off"
    BY <1>2, MonitorCaller DEF MonitorDown
  <2>2. PhaseOk
    BY <1>2 DEF MonitorDown, Inv, Types, PhaseOk
  <2>3. \A q \in Pids : <<"monitor", 0, p>> # <<"exit", 0, q>>
    OBVIOUS
  <2>4. /\ call' = CallAt(<<"monitor", 0, p>>, "insert")
        /\ UNCHANGED <<children, restarting, tasks, half>>
    BY <1>2 DEF MonitorDown, mapVars, envVars
  <2> QED
    BY <2>1, <2>2, <2>3, <2>4, CallBegins
<1>3. ASSUME NEW s \in PathSups, VisitPath(p, s) PROVE Inv'
  <2>1. PICK pc \in {"insert", "done"} : Visit(p, s, pc)
    BY <1>3 DEF VisitPath
  <2>2. <<"exit", s, p>> \in Callers /\ call[<<"exit", s, p>>].pc = "off" /\ s # 0
    BY <2>1, ExitCaller DEF Visit, Sups, PathSups
  <2>3. PhaseOk
    BY <2>1 DEF Visit, Inv, Types, PhaseOk
  <2>4. \A q \in Pids : <<"exit", s, p>> # <<"exit", 0, q>>
    BY <2>2
  <2>5. call' = CallAt(<<"exit", s, p>>, pc) /\ UNCHANGED <<children, restarting, tasks, half>>
    BY <2>1 DEF Visit, mapVars, envVars
  <2> QED
    BY <2>2, <2>3, <2>4, <2>5, CallBegins
<1> QED
  BY <1>1, <1>2, <1>3
-----------------------------------------------------------------------------
LEMMA NewTaskForm ==
  ASSUME NEW s \in Spec0
  PROVE  NewTask(s) \in TaskRecord /\ NewTask(s).pc = "factory" /\ NewTask(s).spec = s
BY SupervisorAssumption DEF NewTask, TaskRecord, Spec1

(* A call of notify_exit ends with a task for every mark it answers for. *)
LEMMA CallSpawns ==
  ASSUME Inv, NEW c \in Callers, call[c].pc # "done",
         NEW new \in SUBSET (Pids \X Spec0), SpawnTasks(c, new),
         NEW all \in SUBSET (Pids \X Spec0), NEW todo \in SUBSET Pids,
         call' = [call EXCEPT ![c] = [pc |-> "done", all |-> all, todo |-> todo]],
         UNCHANGED <<children, restarting, half, phase>>,
         \A p \in Pids : c = <<"exit", 0, p>> => phase[p] \notin Early,
         \A m \in restarting : Covers(c, m) => m[2] \in Keys(new)
  PROVE  Inv'
<1> USE DEF Inv
<1> DEFINE N == {<<c[1], c[2], c[3], e[1]>> : e \in new}
<1>1. /\ c = <<c[1], c[2], c[3]>> /\ c[1] \in {"exit", "monitor"}
      /\ c[2] \in Sups /\ c[3] \in Pids
  BY CallerForm
<1>2. /\ DOMAIN tasks' = DOMAIN tasks \cup N
      /\ \A id \in DOMAIN tasks : tasks'[id] = tasks[id]
  BY DEF SpawnTasks
<1>3. ASSUME NEW id \in N
      PROVE  /\ id \in Tasks /\ id \notin DOMAIN tasks /\ <<id[1], id[2], id[3]>> = c
             /\ \E s \in Spec0 : tasks'[id] = NewTask(s)
  <2>1. PICK e \in new : id = <<c[1], c[2], c[3], e[1]>>
    OBVIOUS
  <2>2. id \in Tasks /\ <<id[1], id[2], id[3]>> = c /\ id[4] = e[1]
    BY <1>1, <2>1 DEF Tasks
  <2>3. id \notin DOMAIN tasks
    BY <2>2 DEF TaskInv
  <2>4. tasks'[id] = NewTask((CHOOSE f \in new : f[1] = id[4])[2])
    BY <2>3 DEF SpawnTasks
  <2>5. (CHOOSE f \in new : f[1] = id[4]) \in new
    BY <2>2
  <2>6. (CHOOSE f \in new : f[1] = id[4])[2] \in Spec0
    BY <2>5
  <2> QED
    BY Zenon, <2>2, <2>3, <2>4, <2>6
<1>4. \A d \in Callers : call'[d] = IF d = c THEN [pc |-> "done", all |-> all, todo |-> todo]
                                   ELSE call[d]
  BY DEF Types
<1>5. Types'
  <2>1. tasks' \in [DOMAIN tasks' -> TaskRecord]
    <3>1. ASSUME NEW id \in DOMAIN tasks' PROVE tasks'[id] \in TaskRecord
      <4>1. CASE id \in DOMAIN tasks
        BY <1>2, <4>1 DEF Types
      <4>2. CASE id \in N
        BY <1>3, <4>2, NewTaskForm
      <4> QED
        BY <1>2, <3>1, <4>1, <4>2
    <3>2. tasks' = [id \in DOMAIN tasks' |-> tasks'[id]]
      BY DEF SpawnTasks
    <3> QED
      BY <3>1, <3>2
  <2>2. call' \in [Callers -> [pc : Steps, all : SUBSET (Pids \X Spec0), todo : SUBSET Pids]]
    BY DEF Types, Steps
  <2> QED
    BY <2>1, <2>2 DEF Types
<1>6. TaskInv'
  <2>1. ASSUME NEW id \in DOMAIN tasks
        PROVE  /\ id \in Tasks /\ <<id[1], id[2], id[3]>> \in Callers
               /\ call'[<<id[1], id[2], id[3]>>].pc = "done"
               /\ tasks'[id].pc # "end" => tasks'[id].spec \in Spec0
               /\ tasks'[id].pc = "insert" => tasks'[id].new \in Pids
    BY <1>2, <1>4 DEF TaskInv
  <2>2. ASSUME NEW id \in N
        PROVE  /\ id \in Tasks /\ <<id[1], id[2], id[3]>> \in Callers
               /\ call'[<<id[1], id[2], id[3]>>].pc = "done"
               /\ tasks'[id].pc # "end" => tasks'[id].spec \in Spec0
               /\ tasks'[id].pc = "insert" => tasks'[id].new \in Pids
    BY <1>3, <1>4, NewTaskForm
  <2> HIDE DEF N
  <2> QED
    BY Zenon, <1>2, <2>1, <2>2 DEF TaskInv
<1>7. CallInv' /\ HalfInv'
  BY <1>4, ExitCaller DEF CallInv, HalfInv, Early, Sups
<1>8. ASSUME NEW m \in restarting' PROVE Covered(m)'
  <2>1. CASE Covers(c, m)
    <3>1. m[2] \in Keys(new) /\ c[2] = m[1]
      BY <1>8, <2>1 DEF Covers
    <3>2. PICK e \in new : e[1] = m[2]
      BY <3>1 DEF Keys
    <3>3. <<c[1], c[2], c[3], e[1]>> \in N
      OBVIOUS
    <3>4. \E id \in DOMAIN tasks' : Replaces(id, m)'
      <4> DEFINE id == <<c[1], c[2], c[3], e[1]>>
      <4>1. id[2] = m[1] /\ id[4] = m[2]
        BY <3>1, <3>2
      <4>2. id \in DOMAIN tasks' /\ tasks'[id].pc = "factory"
        BY <1>2, <1>3, <3>3, NewTaskForm
      <4> HIDE DEF id
      <4> QED
        BY <1>8, <4>1, <4>2 DEF Replaces
    <3> QED
      BY <3>4 DEF Covered
  <2>2. CASE ~Covers(c, m)
    <3>1. \A d \in Callers : Covers(d, m) => Covers(d, m)'
      BY <1>4, <2>2 DEF Covers
    <3>2. \A id \in DOMAIN tasks : Replaces(id, m) => id \in DOMAIN tasks' /\ Replaces(id, m)'
      BY <1>2 DEF Replaces
    <3>3. \A h \in half : Removes(h, m) => h \in half' /\ Removes(h, m)'
      BY DEF Removes
    <3> QED
      BY <1>8, <3>1, <3>2, <3>3 DEF MarkInv, Covered
  <2> QED
    BY <2>1, <2>2
<1> QED
  BY <1>5, <1>6, <1>7, <1>8 DEF MarkInv

LEMMA NotifyKeeps ==
  ASSUME Inv, NEW c \in Callers, NotifyStep(c)
  PROVE  Inv'
<1> USE DEF Inv
<1> DEFINE CallRecord == [pc : Steps, all : SUBSET (Pids \X Spec0), todo : SUBSET Pids]
<1>1. /\ c = <<c[1], c[2], c[3]>> /\ c[2] \in Sups /\ c[3] \in Pids
      /\ Marked(c) = <<c[2], c[3]>> /\ Marked(c) \in Sups \X Pids
      /\ \A m \in Sups \X Pids : m = Marked(c) <=> c[2] = m[1] /\ c[3] = m[2]
  BY CallerForm DEF Marked
<1>2. call[c] \in CallRecord /\ restarting \subseteq Sups \X Pids
  BY DEF Types
<1>3. UNCHANGED <<phase, children, half>> /\ PhaseOk
  BY DEF NotifyStep, Debounce, Mark, Lookup, LookupAnd, Unmark, Collect, Collected, MarkNext,
         SpawnAll, mapVars, envVars, Types, PhaseOk
<1>4. call[c].pc \notin {"off", "done"}
  BY DEF NotifyStep, Debounce, Mark, Lookup, LookupAnd, Unmark, Collect, Collected, MarkNext,
         SpawnAll, AtStep
<1>5. \A p \in Pids : c = <<"exit", 0, p>> => phase[p] \notin Early /\ phase'[p] \notin Early
  BY <1>3, <1>4 DEF CallInv, Early
<1>6. CASE Debounce(c)
  <2> DEFINE pc == IF Marked(c) \in restarting THEN "done" ELSE "lookup"
             r == [pc |-> pc, all |-> call[c].all, todo |-> call[c].todo]
  <2>1. /\ call[c].pc = "insert" /\ call' = [call EXCEPT ![c] = r]
        /\ restarting' = restarting \cup {Marked(c)} /\ tasks' = tasks
    BY <1>6 DEF Debounce, Mark, CallAt, AtStep
  <2>2. r \in CallRecord /\ r.pc # "mark" /\ call'[c] = r
    BY <1>2, <2>1 DEF Types, Steps
  <2>3. \A m \in Sups \X Pids : ~Covers(c, m)
    BY <2>1 DEF Covers
  <2>4. ASSUME NEW m \in restarting', m \notin restarting PROVE Covers(c, m)'
    <3>1. m = Marked(c) /\ r.pc = "lookup"
      BY <2>1, <2>4
    <3> QED
      BY <1>1, <2>2, <3>1 DEF Covers
  <2>5. restarting' \subseteq Sups \X Pids
    BY <1>1, <1>2, <2>1
  <2> HIDE DEF r
  <2> QED
    BY Zenon, <1>3, <1>4, <1>5, <2>1, <2>2, <2>3, <2>4, <2>5, CallMoves
<1>7. CASE Lookup(c)
  <2> DEFINE s == children[c[2]][c[3]]
  <2>1. s \in Spec1 /\ call[c].pc = "lookup" /\ restarting' = restarting
    BY <1>1, <1>7 DEF Types, Lookup, LookupAnd, AtStep, mapVars
  <2>2. CASE s \in Spec0 \ RestartAll
    <3>1. call' = [call EXCEPT ![c] = [pc |-> "done", all |-> call[c].all, todo |-> call[c].todo]]
      BY Zenon, <1>7, <2>2 DEF Lookup, LookupAnd, CallAt, Spec0, Identity, RestartAll
    <3>2. SpawnTasks(c, {<<c[3], s>>})
      BY <1>7, <2>2 DEF Lookup, LookupAnd
    <3>3. {<<c[3], s>>} \in SUBSET (Pids \X Spec0) /\ c[3] \in Keys({<<c[3], s>>})
      BY <1>1, <2>2 DEF Keys
    <3>4. \A m \in restarting : Covers(c, m) => m[2] \in Keys({<<c[3], s>>})
      BY <2>1, <3>3 DEF Covers
    <3> HIDE DEF s
    <3> QED
      BY Zenon, <1>2, <1>3, <1>4, <1>5, <2>1, <3>1, <3>2, <3>3, <3>4, CallSpawns
  <2>3. CASE s \notin Spec0 \ RestartAll
    <3> DEFINE pc == IF s = "none" THEN "unmark" ELSE "collect"
               r == [pc |-> pc, all |-> call[c].all, todo |-> call[c].todo]
    <3>1. call' = [call EXCEPT ![c] = r]
      BY Zenon, <1>7, <2>1, <2>3 DEF Lookup, LookupAnd, CallAt, Spec0, Spec1, Identity, RestartAll
    <3>2. tasks' = tasks
      <4>1. SpawnTasks(c, {})
        BY <1>7, <2>3 DEF Lookup, LookupAnd
      <4>2. tasks' = [id \in DOMAIN tasks |-> tasks[id]]
        BY <4>1 DEF SpawnTasks
      <4> QED
        BY <4>2 DEF Types
    <3>3. r \in CallRecord /\ r.pc # "mark" /\ call'[c] = r
      BY <1>2, <3>1 DEF Types, Steps
    <3>4. ASSUME NEW m \in restarting, Covers(c, m) PROVE Covers(c, m)'
      <4>1. c[2] = m[1] /\ c[3] = m[2]
        BY <2>1, <3>4 DEF Covers
      <4> QED
        BY <1>3, <3>3, <4>1 DEF Covers
    <3>5. restarting' \subseteq Sups \X Pids
      BY <1>2, <2>1
    <3> HIDE DEF r
    <3> QED
      BY Zenon, <1>3, <1>4, <1>5, <2>1, <3>1, <3>2, <3>3, <3>4, <3>5, CallMoves
  <2> QED
    BY <2>2, <2>3
<1>8. CASE Unmark(c)
  <2> DEFINE r == [pc |-> "done", all |-> call[c].all, todo |-> call[c].todo]
  <2>1. /\ call[c].pc = "unmark" /\ call' = [call EXCEPT ![c] = r]
        /\ restarting' = restarting \ {Marked(c)} /\ tasks' = tasks
    BY <1>8 DEF Unmark, CallAt, AtStep
  <2>2. r \in CallRecord /\ r.pc # "mark"
    BY <1>2 DEF Steps
  <2>3. \A m \in restarting' : m \in restarting /\ ~Covers(c, m)
    BY <1>1, <1>2, <2>1 DEF Covers
  <2>4. restarting' \subseteq Sups \X Pids
    BY <1>2, <2>1
  <2> HIDE DEF r
  <2> QED
    BY Zenon, <1>3, <1>4, <1>5, <2>1, <2>2, <2>3, <2>4, CallMoves
<1>9. /\ Snapshot(c[2]) \in SUBSET (Pids \X Spec0)
      /\ children[c[2]][c[3]] # "none" => c[3] \in Keys(Snapshot(c[2]))
  <2>1. \A p \in Pids : children[c[2]][p] # "none" => children[c[2]][p] \in Spec0
    BY <1>1 DEF Types, Spec1
  <2>2. Snapshot(c[2]) \in SUBSET (Pids \X Spec0)
    BY <2>1 DEF Snapshot, Registered
  <2>3. ASSUME children[c[2]][c[3]] # "none" PROVE c[3] \in Keys(Snapshot(c[2]))
    <3>1. <<c[3], children[c[2]][c[3]]>> \in Snapshot(c[2])
      BY <1>1, <2>3 DEF Snapshot, Registered
    <3> QED
      BY <3>1 DEF Keys
  <2> QED
    BY <2>2, <2>3
<1>10. CASE Collect(c)
  <2> DEFINE r == [pc |-> "iterate", all |-> Snapshot(c[2]), todo |-> {}]
  <2>1. /\ call[c].pc = "collect" /\ call' = [call EXCEPT ![c] = r]
        /\ restarting' = restarting /\ tasks' = tasks
    BY <1>10 DEF Collect, AtStep, mapVars
  <2>2. r \in CallRecord /\ r.pc # "mark" /\ call'[c] = r
    BY <1>2, <1>9, <2>1 DEF Types, Steps
  <2>3. ASSUME NEW m \in restarting, Covers(c, m) PROVE Covers(c, m)'
    <3>1. c[2] = m[1] /\ c[3] = m[2] /\ children[m[1]][m[2]] # "none"
      BY <2>1, <2>3 DEF Covers
    <3>2. m[2] \in Keys(r.all) /\ r.pc = "iterate"
      BY <1>9, <3>1
    <3> QED
      BY <1>3, <2>2, <3>1, <3>2 DEF Covers
  <2>4. restarting' \subseteq Sups \X Pids
    BY <1>2, <2>1
  <2> HIDE DEF r
  <2> QED
    BY Zenon, <1>3, <1>4, <1>5, <2>1, <2>2, <2>3, <2>4, CallMoves
<1>11. CASE Collected(c)
  <2>1. PICK seen \in SUBSET (call[c].all \cup Snapshot(c[2])) :
          /\ Keys(call[c].all) \cap Keys(Snapshot(c[2])) \subseteq Keys(seen)
          /\ call' = [call EXCEPT ![c] = [pc |-> "mark", all |-> seen, todo |-> Keys(seen)]]
    BY Zenon, <1>11 DEF Collected
  <2> DEFINE r == [pc |-> "mark", all |-> seen, todo |-> Keys(seen)]
  <2>2. call[c].pc = "iterate" /\ restarting' = restarting /\ tasks' = tasks
    BY <1>11 DEF Collected, AtStep, mapVars
  <2>3. seen \in SUBSET (Pids \X Spec0) /\ Keys(seen) \subseteq Pids
    BY <1>2, <1>9, <2>1 DEF Keys
  <2>4. r \in CallRecord /\ r.todo \subseteq Keys(r.all) /\ call'[c] = r
    BY <2>1, <2>3 DEF Types, Steps
  <2>5. ASSUME NEW m \in restarting, Covers(c, m) PROVE Covers(c, m)'
    <3>1. /\ c[2] = m[1] /\ c[3] = m[2] /\ children[m[1]][m[2]] # "none"
          /\ m[2] \in Keys(call[c].all)
      BY <2>2, <2>5 DEF Covers
    <3>2. m[2] \in Keys(r.all) /\ r.pc = "mark"
      BY <1>9, <2>1, <3>1
    <3> QED
      BY <2>4, <3>1, <3>2 DEF Covers
  <2>6. restarting' \subseteq Sups \X Pids
    BY <1>2, <2>2
  <2>7. call' = [call EXCEPT ![c] = r]
    BY <2>1
  <2> HIDE DEF r
  <2> QED
    BY Zenon, <1>3, <1>4, <1>5, <2>2, <2>4, <2>5, <2>6, <2>7, CallMoves
<1>12. CASE MarkNext(c)
  <2>1. PICK p \in call[c].todo :
          /\ restarting' = restarting \cup {<<c[2], p>>}
          /\ call' = [call EXCEPT ![c] = [pc |-> "mark", all |-> call[c].all,
                                        todo |-> call[c].todo \ {p}]]
    BY Zenon, <1>12 DEF MarkNext
  <2> DEFINE r == [pc |-> "mark", all |-> call[c].all, todo |-> call[c].todo \ {p}]
  <2>2. call[c].pc = "mark" /\ tasks' = tasks /\ call[c].todo \subseteq Keys(call[c].all)
    BY <1>12 DEF MarkNext, AtStep, CallInv
  <2>3. r \in CallRecord /\ r.todo \subseteq Keys(r.all) /\ call'[c] = r
    BY <1>2, <2>1, <2>2 DEF Types, Steps
  <2>4. ASSUME NEW m \in restarting', Covers(c, m) \/ m \notin restarting PROVE Covers(c, m)'
    <3>1. c[2] = m[1] /\ m[2] \in Keys(r.all) /\ r.pc = "mark"
      <4>1. CASE Covers(c, m)
        BY <2>2, <4>1 DEF Covers
      <4>2. CASE m \notin restarting
        BY <2>1, <2>2, <2>4, <4>2
      <4> QED
        BY <2>4, <4>1, <4>2
    <3> QED
      BY <2>3, <3>1 DEF Covers
  <2>5. restarting' \subseteq Sups \X Pids
    BY <1>1, <1>2, <2>1
  <2>6. call' = [call EXCEPT ![c] = r]
    BY <2>1
  <2> HIDE DEF r
  <2> QED
    BY Zenon, <1>3, <1>4, <1>5, <2>2, <2>3, <2>4, <2>5, <2>6, CallMoves
<1>13. CASE SpawnAll(c)
  <2>1. /\ call[c].pc = "mark" /\ restarting' = restarting
        /\ call' = [call EXCEPT ![c] = [pc |-> "done", all |-> {}, todo |-> {}]]
        /\ SpawnTasks(c, call[c].all)
    BY <1>13 DEF SpawnAll, AtStep, mapVars
  <2>2. \A m \in restarting : Covers(c, m) => m[2] \in Keys(call[c].all)
    BY <2>1 DEF Covers
  <2>3. /\ call[c].all \in SUBSET (Pids \X Spec0)
        /\ {} \in SUBSET (Pids \X Spec0) /\ {} \in SUBSET Pids
    BY <1>2
  <2> QED
    BY Zenon, <1>3, <1>4, <1>5, <2>1, <2>2, <2>3, CallSpawns
<1> QED
  BY <1>6, <1>7, <1>8, <1>10, <1>11, <1>12, <1>13 DEF NotifyStep
-----------------------------------------------------------------------------
(* A restart task goes on.  It removes no child but the one it replaces,   *)
(* and when it ends the mark is gone.                                      *)
LEMMA TaskMoves ==
  ASSUME Inv, NEW id \in DOMAIN tasks, NEW r \in TaskRecord,
         tasks' = [tasks EXCEPT ![id] = r],
         r.pc # "end" => r.spec \in Spec0, r.pc = "insert" => r.new \in Pids,
         UNCHANGED <<call, half>>, PhaseOk,
         children' \in [Sups -> [Pids -> Spec1]], restarting' \subseteq restarting,
         \A m \in restarting' : id[2] = m[1] /\ id[4] = m[2] => r.pc # "end",
         \A m \in Sups \X Pids : children[m[1]][m[2]] # "none" =>
            children'[m[1]][m[2]] # "none" \/ (id[2] = m[1] /\ id[4] = m[2])
  PROVE  Inv'
<1> USE DEF Inv
<1>1. DOMAIN tasks' = DOMAIN tasks /\ \A i \in DOMAIN tasks : tasks'[i] = IF i = id THEN r ELSE tasks[i]
  BY DEF Types
<1>2. Types'
  <2>1. tasks' \in [DOMAIN tasks' -> TaskRecord]
    BY <1>1 DEF Types
  <2> QED
    BY <2>1 DEF Types, PhaseOk
<1>3. TaskInv' /\ HalfInv'
  BY <1>1 DEF TaskInv, HalfInv
<1>4. CallInv'
  BY DEF CallInv, PhaseOk, Early
<1>5. ASSUME NEW m \in restarting' PROVE Covered(m)'
  <2>1. m \in restarting /\ m \in Sups \X Pids
    BY DEF Types
  <2>2. CASE id[2] = m[1] /\ id[4] = m[2]
    BY <1>1, <1>5, <2>2 DEF Covered, Replaces
  <2>3. CASE ~(id[2] = m[1] /\ id[4] = m[2])
    <3>1. \A d \in Callers : Covers(d, m) => Covers(d, m)'
      BY <2>1, <2>3 DEF Covers
    <3>2. \A i \in DOMAIN tasks : Replaces(i, m) => i \in DOMAIN tasks' /\ Replaces(i, m)'
      BY <1>1, <2>3 DEF Replaces
    <3>3. \A h \in half : Removes(h, m) => h \in half' /\ Removes(h, m)'
      BY DEF Removes
    <3> QED
      BY <2>1, <3>1, <3>2, <3>3 DEF MarkInv, Covered
  <2> QED
    BY <2>2, <2>3
<1> QED
  BY <1>2, <1>3, <1>4, <1>5 DEF MarkInv

(* A call from outside changes the maps: it removes a mark, or it removes  *)
(* a child and is still to remove the mark, or it adds a child.            *)
LEMMA MapMoves ==
  ASSUME Inv, UNCHANGED <<call, tasks>>, PhaseOk, HalfInv',
         children' \in [Sups -> [Pids -> Spec1]], restarting' \subseteq restarting,
         \A m \in restarting' :
           \/ \E h \in half' : Removes(h, m)
           \/ /\ children[m[1]][m[2]] # "none" => children'[m[1]][m[2]] # "none"
              /\ \A h \in half : ~Removes(h, m)
  PROVE  Inv'
<1> USE DEF Inv
<1>1. Types' /\ TaskInv'
  BY Zenon DEF Types, TaskInv, PhaseOk
<1>2. CallInv'
  BY DEF CallInv, PhaseOk, Early
<1>3. ASSUME NEW m \in restarting' PROVE Covered(m)'
  <2>1. CASE \E h \in half' : Removes(h, m)
    BY <2>1 DEF Covered, Removes
  <2>2. CASE /\ children[m[1]][m[2]] # "none" => children'[m[1]][m[2]] # "none"
             /\ \A h \in half : ~Removes(h, m)
    <3>1. \A d \in Callers : Covers(d, m) => Covers(d, m)'
      BY <2>2 DEF Covers
    <3>2. \A i \in DOMAIN tasks : Replaces(i, m) => i \in DOMAIN tasks' /\ Replaces(i, m)'
      BY DEF Replaces
    <3> QED
      BY <1>3, <2>2, <3>1, <3>2 DEF MarkInv, Covered
  <2> QED
    BY <2>1, <2>2
<1> QED
  BY <1>1, <1>2, <1>3 DEF MarkInv

LEMMA TaskKeeps ==
  ASSUME Inv, NEW id \in DOMAIN tasks, TaskStep(id)
  PROVE  Inv'
<1> USE DEF Inv
<1>1. /\ id[2] \in Sups /\ id[4] \in Pids /\ tasks[id] \in TaskRecord
      /\ tasks[id].pc # "end" => tasks[id].spec \in Spec0
      /\ tasks[id].pc = "insert" => tasks[id].new \in Pids
  BY Zenon DEF TaskInv, Tasks, Types
<1>2. UNCHANGED <<call, half>>
  BY DEF TaskStep, FactoryOk, FactoryErr, InsertNew, RemoveOld, SetChild, DropLinks, Release,
         envVars
<1>3. "none" \notin Spec0 /\ Spec0 \subseteq Spec1 /\ "none" \in Spec1
  BY DEF Spec0, Spec1, Identity, RestartAll
<1>4. CASE FactoryOk(id)
  <2>1. PICK new \in Pids : tasks' = TaskAt(id, "insert", tasks[id].attempts + 1, new)
    BY <1>4 DEF FactoryOk
  <2> DEFINE r == [pc |-> "insert", spec |-> tasks[id].spec, attempts |-> tasks[id].attempts + 1,
                   new |-> new]
  <2>2. tasks' = [tasks EXCEPT ![id] = r]
    BY <2>1 DEF TaskAt
  <2>3. r \in TaskRecord /\ r.pc = "insert" /\ r.spec \in Spec0 /\ r.new \in Pids
    BY <1>1, <1>4 DEF FactoryOk, At, TaskRecord, Pids
  <2>4. PhaseOk
    BY <1>4 DEF FactoryOk, SpawnActor, Spawned, Types, PhaseOk, Early
  <2>5. children' = children /\ restarting' = restarting
    BY Zenon, <1>4 DEF FactoryOk, mapVars
  <2>6. children' \in [Sups -> [Pids -> Spec1]]
    BY <2>5 DEF Types
  <2> HIDE DEF r
  <2> QED
    BY Zenon, <1>2, <2>2, <2>3, <2>4, <2>5, <2>6, TaskMoves
<1>5. CASE FactoryErr(id)
  <2> DEFINE n == tasks[id].attempts + 1
             r == [pc |-> IF n >= MaxAttempts THEN "remove" ELSE "factory",
                   spec |-> tasks[id].spec, attempts |-> n, new |-> tasks[id].new]
  <2>1. tasks' = [tasks EXCEPT ![id] = r]
    BY <1>5 DEF FactoryErr, TaskAt
  <2>2. r \in TaskRecord /\ r.pc \notin {"insert", "end"} /\ r.spec \in Spec0
    BY <1>1, <1>5 DEF FactoryErr, At, TaskRecord
  <2>3. children' = children /\ restarting' = restarting /\ PhaseOk
    BY <1>5 DEF FactoryErr, mapVars, Types, PhaseOk
  <2>4. children' \in [Sups -> [Pids -> Spec1]]
    BY <2>3 DEF Types
  <2> HIDE DEF r
  <2> QED
    BY Zenon, <1>2, <2>1, <2>2, <2>3, <2>4, TaskMoves
<1>6. ASSUME NEW p \in Pids, NEW spec \in Spec1, NEW next \in {"remove", "links"},
             SetChild(id, p, spec, next), tasks[id].pc # "end",
             spec = "none" => p = id[4]
      PROVE  Inv'
  <2> DEFINE r == [pc |-> next, spec |-> tasks[id].spec, attempts |-> tasks[id].attempts,
                   new |-> tasks[id].new]
  <2>1. tasks' = [tasks EXCEPT ![id] = r]
    BY <1>6 DEF SetChild, Goto, TaskAt
  <2>2. r \in TaskRecord /\ r.pc \notin {"insert", "end"} /\ r.spec \in Spec0
    BY <1>1, <1>6 DEF TaskRecord
  <2>3. children' = WithChild(id[2], p, spec) /\ restarting' = restarting /\ PhaseOk
    BY <1>6 DEF SetChild, Types, PhaseOk
  <2>4. /\ children' \in [Sups -> [Pids -> Spec1]]
        /\ \A t \in Sups, q \in Pids :
             children'[t][q] = IF t = id[2] /\ q = p THEN spec ELSE children[t][q]
    <3>1. /\ WithChild(id[2], p, spec) \in [Sups -> [Pids -> Spec1]]
          /\ \A t \in Sups, q \in Pids : WithChild(id[2], p, spec)[t][q] =
               IF t = id[2] /\ q = p THEN spec ELSE children[t][q]
      BY <1>1 DEF WithChild, Types
    <3> QED
      BY <2>3, <3>1
  <2>5. \A m \in Sups \X Pids : children[m[1]][m[2]] # "none" =>
           children'[m[1]][m[2]] # "none" \/ (id[2] = m[1] /\ id[4] = m[2])
    BY <1>6, <2>4
  <2> HIDE DEF r
  <2> QED
    BY Zenon, <1>2, <2>1, <2>2, <2>3, <2>4, <2>5, TaskMoves
<1>7. CASE InsertNew(id)
  BY <1>1, <1>3, <1>6, <1>7 DEF InsertNew, At
<1>8. CASE RemoveOld(id)
  BY <1>1, <1>3, <1>6, <1>8 DEF RemoveOld, At
<1>9. CASE DropLinks(id)
  <2> DEFINE r == [pc |-> "release", spec |-> tasks[id].spec, attempts |-> tasks[id].attempts,
                   new |-> tasks[id].new]
  <2>1. tasks' = [tasks EXCEPT ![id] = r]
    BY <1>9 DEF DropLinks, Goto, TaskAt
  <2>2. r \in TaskRecord /\ r.pc \notin {"insert", "end"} /\ r.spec \in Spec0
    BY <1>1, <1>9 DEF DropLinks, At, TaskRecord
  <2>3. children' = children /\ restarting' = restarting /\ PhaseOk
    BY <1>9 DEF DropLinks, mapVars, Types, PhaseOk
  <2>4. children' \in [Sups -> [Pids -> Spec1]]
    BY <2>3 DEF Types
  <2> HIDE DEF r
  <2> QED
    BY Zenon, <1>2, <2>1, <2>2, <2>3, <2>4, TaskMoves
<1>10. CASE Release(id)
  <2> DEFINE r == [pc |-> "end", spec |-> "none", attempts |-> 0, new |-> 0]
  <2>1. tasks' = [tasks EXCEPT ![id] = r] /\ restarting' = restarting \ {<<id[2], id[4]>>}
    BY <1>10 DEF Release
  <2>2. r \in TaskRecord /\ r.pc = "end"
    BY <1>3, SupervisorAssumption DEF TaskRecord
  <2>3. children' = children /\ PhaseOk
    BY <1>10 DEF Release, Types, PhaseOk
  <2>4. children' \in [Sups -> [Pids -> Spec1]]
    BY <2>3 DEF Types
  <2>5. \A m \in restarting' : ~(id[2] = m[1] /\ id[4] = m[2])
    BY <2>1 DEF Types
  <2> HIDE DEF r
  <2> QED
    BY Zenon, <1>2, <2>1, <2>2, <2>3, <2>4, <2>5, TaskMoves
<1> QED
  BY <1>4, <1>5, <1>7, <1>8, <1>9, <1>10 DEF TaskStep

(* The calls from outside that change children or restarting. *)
LEMMA ChildCallKeeps ==
  ASSUME Inv,
         \/ AddChecked \/ RemoveMark
         \/ \E s \in Sups, p \in Pids, spec \in Spec0 :
              AddChild(s, p, spec) \/ AddToNewPath(s, p, spec)
         \/ \E p \in Pids, op \in {"unwatch", "remove_child"} : RemoveChild(p, op)
  PROVE  Inv'
<1> USE DEF Inv
<1>1. PhaseOk /\ UNCHANGED <<call, tasks>>
  BY DEF AddChecked, RemoveMark, AddChild, AddToNewPath, RemoveChild, Insert, Types, PhaseOk
<1>2. "none" \notin Spec0 /\ Spec0 \subseteq Spec1 /\ "none" \in Spec1 /\ 0 \in Sups
  BY DEF Spec0, Spec1, Identity, RestartAll, Sups
<1>3. ASSUME NEW s \in Sups, NEW p \in Pids, NEW spec \in Spec0, Insert(s, p, spec), HalfOk
      PROVE  Inv'
  <2>1. children' = WithChild(s, p, spec) /\ restarting' = restarting
    BY <1>3 DEF Insert
  <2>2. /\ WithChild(s, p, spec) \in [Sups -> [Pids -> Spec1]]
        /\ \A t \in Sups, q \in Pids :
             WithChild(s, p, spec)[t][q] = IF t = s /\ q = p THEN spec ELSE children[t][q]
    BY <1>2 DEF WithChild, Types
  <2>3. \A m \in restarting :
          /\ children[m[1]][m[2]] # "none" => children'[m[1]][m[2]] # "none"
          /\ \A h \in half : Removes(h, m) => h \in half'
    BY <1>2, <1>3, <2>1, <2>2 DEF Types, Removes, HalfOk
  <2> QED
    BY Zenon, <1>1, <1>3, <2>1, <2>2, <2>3, MapMoves DEF HalfOk
<1>4. CASE AddChecked
  <2>1. PICK h \in half : h[1] = "checked" /\ Insert(h[2], h[3], h[4]) /\ half' = half \ {h}
    BY <1>4 DEF AddChecked
  <2>2. HalfOk
    BY <2>1 DEF HalfInv, HalfOk
  <2>3. h[2] \in Sups /\ h[3] \in Pids /\ h[4] \in Spec0
    BY <2>1 DEF HalfInv
  <2> QED
    BY <1>3, <2>1, <2>2, <2>3
<1>5. ASSUME NEW s \in Sups, NEW p \in Pids, NEW spec \in Spec0,
             AddChild(s, p, spec) \/ AddToNewPath(s, p, spec)
      PROVE  Inv'
  <2>1. Insert(s, p, spec) /\ half' = half
    BY <1>5 DEF AddChild, AddToNewPath
  <2>2. HalfOk
    BY <2>1 DEF HalfInv, HalfOk
  <2> QED
    BY <1>3, <2>1, <2>2
<1>6. ASSUME NEW p \in Pids, NEW op \in {"unwatch", "remove_child"}, RemoveChild(p, op)
      PROVE  Inv'
  <2>1. /\ children' = WithChild(0, p, "none") /\ restarting' = restarting
        /\ half' = half \cup {<<op, p, p, ops>>}
    BY <1>6 DEF RemoveChild
  <2>2. /\ WithChild(0, p, "none") \in [Sups -> [Pids -> Spec1]]
        /\ \A t \in Sups, q \in Pids :
             WithChild(0, p, "none")[t][q] = IF t = 0 /\ q = p THEN "none" ELSE children[t][q]
    BY <1>2 DEF WithChild, Types
  <2>3. HalfInv'
    BY <2>1 DEF HalfInv
  <2>4. ASSUME NEW m \in restarting PROVE
          \/ \E h \in half' : Removes(h, m)
          \/ /\ children[m[1]][m[2]] # "none" => children'[m[1]][m[2]] # "none"
             /\ \A h \in half : ~Removes(h, m)
    <3>1. m \in Sups \X Pids
      BY DEF Types
    <3>2. CASE m = <<0, p>>
      <4>1. <<op, p, p, ops>> \in half' /\ Removes(<<op, p, p, ops>>, m)
        BY <2>1, <3>2 DEF Removes
      <4> QED
        BY <4>1
    <3>3. CASE m # <<0, p>>
      <4>1. children'[m[1]][m[2]] = children[m[1]][m[2]]
        BY <2>1, <2>2, <3>1, <3>3
      <4> QED
        BY <2>1, <4>1
    <3> QED
      BY <3>2, <3>3
  <2> QED
    BY Zenon, <1>1, <2>1, <2>2, <2>3, <2>4, MapMoves
<1>7. CASE RemoveMark
  <2>1. PICK h \in half :
          /\ h[1] \in {"unwatch", "remove_child"}
          /\ restarting' = restarting \ {<<0, h[2]>>}
          /\ half' = (half \ {h}) \cup
                      IF h[1] = "unwatch" THEN {} ELSE {<<"cleanup", h[2], h[2], h[4]>>}
          /\ children' = children
    BY <1>7 DEF RemoveMark
  <2>2. HalfInv'
    BY <2>1 DEF HalfInv
  <2>3. ASSUME NEW m \in restarting' PROVE
          /\ \A g \in half : Removes(g, m) => g \in half'
          /\ children'[m[1]][m[2]] = children[m[1]][m[2]]
    BY <2>1, <2>3 DEF Removes
  <2>4. children' \in [Sups -> [Pids -> Spec1]]
    BY <2>1 DEF Types
  <2> QED
    BY <1>1, <2>1, <2>2, <2>3, <2>4, MapMoves
<1> QED
  BY <1>4, <1>5, <1>6, <1>7
-----------------------------------------------------------------------------
THEOREM Invariance == Spec => []Inv
<1>1. Inv /\ [Next]_vars => Inv'
  <2> SUFFICES ASSUME Inv, [Next]_vars PROVE Inv'
    OBVIOUS
  <2>1. CASE UNCHANGED vars
    <3>1. UNCHANGED <<children, restarting, call, tasks, half, phase>>
      BY <2>1 DEF vars, mapVars, envVars
    <3>2. PhaseOk /\ HalfOk
      BY <3>1 DEF Inv, Types, HalfInv, PhaseOk, HalfOk
    <3> QED
      BY <3>1, <3>2, Frame
  <2>2. ASSUME NEW p \in Pids, ActorEnds(p) \/ ExitStep(p) PROVE Inv'
    BY <2>2, PathKeeps, ReportKeeps DEF ExitStep
  <2>3. CASE Env
    BY <2>3, ReportKeeps, LinkCallKeeps, ChildCallKeeps DEF Env
  <2> QED
    BY <2>1, <2>2, <2>3, NotifyKeeps, TaskKeeps, RetainKeeps, LinkCallKeeps, ChildCallKeeps
    DEF Next
<1> QED
  BY InvInit, <1>1, PTL DEF Spec

(* No restarting mark outlives those who will take it back                 *)
(* (supervisor.rs:160), whatever actors end, factories fail and children   *)
(* are added and removed meanwhile: a notify_exit for a later exit of the  *)
(* pid is never ignored for a restart that nobody carries out.             *)
THEOREM MarksAreTakenBack == Spec => []NoLeakedMark
<1>1. Inv => NoLeakedMark
  BY DEF Inv, MarkInv, Covered, Covers, Replaces, Removes, NoLeakedMark
<1> QED
  BY Invariance, <1>1, PTL
============================================================================
