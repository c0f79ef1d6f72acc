----------------------- MODULE SupervisorCalmProofs ------------------------
(***************************************************************************)
(* Proofs about what supervision achieves as long as nobody calls from     *)
(* outside, for any number of actors and path supervisors and for any      *)
(* scenario: actors end, nodes are given up, factories fail, and           *)
(* supervision does the rest.                                              *)
(***************************************************************************)
EXTENDS SupervisorProofs

(* Without calls from outside, none is half done and every step is one of  *)
(* the runtime's own.                                                      *)
Alone == ops \in Nat /\ (ops = 0 => half = {})

Calm ==
  \/ UNCHANGED vars
  \/ \E p \in Pids : ActorEnds(p) \/ ExitStep(p) \/ MonitorDown(p)
  \/ \E c \in Callers : NotifyStep(c)
  \/ \E id \in DOMAIN tasks : TaskStep(id)
  \/ \E r \in cleaning : RetainPeer(r)

LEMMA CalmStep ==
  ASSUME Alone, [Next]_vars
  PROVE  Alone' /\ (ops' = 0 => ops = 0 /\ half = {} /\ scene' = scene /\ Calm)
<1>1. ASSUME Env, \A p \in Pids : ~MonitorDown(p) PROVE ops' = ops + 1
  <2>1. ASSUME NEW s \in Sups, NEW p \in Pids, NEW spec \in Spec0,
               AddChild(s, p, spec) \/ CheckFactory(s, p, spec) \/ AddToNewPath(s, p, spec)
        PROVE  ops' = ops + 1
    BY Zenon, <2>1 DEF AddChild, CheckFactory, AddToNewPath, Calls
  <2>2. ASSUME NEW p \in Pids, NEW op, RemoveChild(p, op) PROVE ops' = ops + 1
    BY Zenon, <2>2 DEF RemoveChild, Calls
  <2>3. ASSUME NEW p \in Pids, NEW q \in Pids, Stop(p) \/ Link(p, q) \/ Unlink(p, q)
        PROVE  ops' = ops + 1
    BY Zenon, <2>3 DEF Stop, Link, Unlink, Calls
  <2>4. ASSUME NEW s \in PathSups, CreatePath(s) \/ RemovePath(s) PROVE ops' = ops + 1
    BY Zenon, <2>4 DEF CreatePath, RemovePath, Calls
  <2> QED
    BY Zenon, <1>1, <2>1, <2>2, <2>3, <2>4 DEF Env
<1>2. ASSUME AddChecked \/ RemoveMark \/ OtherHalf \/ RemoveLinks PROVE ops' = ops /\ half # {}
  BY Zenon, <1>2 DEF AddChecked, RemoveMark, OtherHalf, RemoveLinks
<1>3. Calm => UNCHANGED envVars
  <2>1. ASSUME NEW p \in Pids, ActorEnds(p) \/ ExitStep(p) \/ MonitorDown(p)
        PROVE  UNCHANGED envVars
    BY Zenon, <2>1 DEF ActorEnds, ExitStep, Unmap, IteratePaths, TakeLinks, Iterated, Signal,
       VisitPath, Visit, MonitorDown
  <2>2. ASSUME NEW c \in Callers, NotifyStep(c) PROVE UNCHANGED envVars
    BY Zenon, <2>2 DEF NotifyStep, Debounce, Mark, Lookup, LookupAnd, Unmark, Collect, Collected,
       MarkNext, SpawnAll
  <2>3. ASSUME NEW id \in DOMAIN tasks, TaskStep(id) PROVE UNCHANGED envVars
    BY Zenon, <2>3 DEF TaskStep, FactoryOk, FactoryErr, InsertNew, RemoveOld, SetChild, DropLinks,
       Release
  <2>4. UNCHANGED vars => UNCHANGED envVars
    BY Zenon DEF vars
  <2> QED
    BY Zenon, <2>1, <2>2, <2>3, <2>4 DEF Calm, RetainPeer
<1>4. Calm \/ (Env /\ \A p \in Pids : ~MonitorDown(p))
           \/ AddChecked \/ RemoveMark \/ OtherHalf \/ RemoveLinks
  BY Zenon DEF Calm, Next
<1>5. UNCHANGED envVars => ops' = ops /\ half' = half /\ scene' = scene
  BY Zenon DEF envVars
<1>6. CASE Calm
  BY Zenon, <1>3, <1>5, <1>6 DEF Alone
<1>7. CASE ops' = ops + 1
  BY <1>7 DEF Alone
<1>8. CASE ops' = ops /\ half # {}
  BY Zenon, <1>8 DEF Alone
<1> QED
  BY Zenon, <1>1, <1>2, <1>4, <1>6, <1>7, <1>8
-----------------------------------------------------------------------------
(* What the steps of notify_exit and of the restart tasks do, entry by     *)
(* entry.                                                                  *)
CallTo(c, pc, all) ==
  /\ call'[c].pc = pc /\ call'[c].all = all
  /\ \A d \in Callers : d # c => call'[d] = call[d]

Spawns(c, new) ==
  /\ DOMAIN tasks' = DOMAIN tasks \cup {<<c[1], c[2], c[3], e[1]>> : e \in new}
  /\ \A id \in DOMAIN tasks : tasks'[id] = tasks[id]
  /\ \A id \in DOMAIN tasks' : id \notin DOMAIN tasks =>
       /\ <<id[1], id[2], id[3]>> = c
       /\ tasks'[id].pc = "factory" /\ tasks'[id].attempts = 0
       /\ <<id[4], tasks'[id].spec>> \in new

Keeps == UNCHANGED <<tasks, missed>>

DoesDebounce(c) ==
  /\ call[c].pc = "insert" /\ restarting' = restarting \cup {Marked(c)} /\ Keeps
  /\ CallTo(c, IF Marked(c) \in restarting THEN "done" ELSE "lookup", call[c].all)

DoesLookup(c, s) ==
  /\ call[c].pc = "lookup" /\ restarting' = restarting
  /\ \/ /\ s = "none" /\ CallTo(c, "unmark", call[c].all)
        /\ missed' = missed \cup {Marked(c)} /\ tasks' = tasks
     \/ s \in RestartAll /\ CallTo(c, "collect", call[c].all) /\ Keeps
     \/ /\ s \in Spec0 \ RestartAll /\ CallTo(c, "done", call[c].all)
        /\ Spawns(c, {<<c[3], s>>}) /\ missed' = missed

DoesUnmark(c) ==
  /\ call[c].pc = "unmark" /\ restarting' = restarting \ {Marked(c)} /\ Keeps
  /\ CallTo(c, "done", call[c].all)

DoesCollect(c) ==
  /\ call[c].pc = "collect" /\ restarting' = restarting /\ Keeps
  /\ CallTo(c, "iterate", Snapshot(c[2]))

DoesIterate(c) ==
  /\ call[c].pc = "iterate" /\ restarting' = restarting /\ Keeps
  /\ \E seen \in SUBSET (call[c].all \cup Snapshot(c[2])) :
       /\ Keys(call[c].all) \cap Keys(Snapshot(c[2])) \subseteq Keys(seen)
       /\ CallTo(c, "mark", seen)

DoesMark(c) ==
  /\ call[c].pc = "mark" /\ Keeps
  /\ \E p \in Keys(call[c].all) : restarting' = restarting \cup {<<c[2], p>>}
  /\ CallTo(c, "mark", call[c].all)

DoesSpawn(c) ==
  /\ call[c].pc = "mark" /\ restarting' = restarting /\ missed' = missed
  /\ Spawns(c, call[c].all) /\ CallTo(c, "done", {})

CallMove(c) ==
  \/ DoesDebounce(c) \/ DoesLookup(c, children[c[2]][c[3]]) \/ DoesUnmark(c) \/ DoesCollect(c)
  \/ DoesIterate(c) \/ DoesMark(c) \/ DoesSpawn(c)

LEMMA SpawnEffect ==
  ASSUME Inv, NEW c \in Callers, call[c].pc # "done",
         NEW new \in SUBSET (Pids \X Spec0), SpawnTasks(c, new)
  PROVE  Spawns(c, new)
<1> DEFINE N == {<<c[1], c[2], c[3], e[1]>> : e \in new}
<1>1. c = <<c[1], c[2], c[3]>>
  BY CallerForm
<1>2. /\ DOMAIN tasks' = DOMAIN tasks \cup N
      /\ \A id \in DOMAIN tasks : tasks'[id] = tasks[id]
  BY DEF SpawnTasks
<1>3. ASSUME NEW id \in DOMAIN tasks', id \notin DOMAIN tasks
      PROVE  /\ <<id[1], id[2], id[3]>> = c
             /\ tasks'[id].pc = "factory" /\ tasks'[id].attempts = 0
             /\ <<id[4], tasks'[id].spec>> \in new
  <2>1. PICK e \in new : id = <<c[1], c[2], c[3], e[1]>>
    BY <1>2, <1>3
  <2>2. <<id[1], id[2], id[3]>> = c /\ id[4] = e[1]
    BY <1>1, <2>1
  <2> DEFINE f == CHOOSE g \in new : g[1] = id[4]
  <2>3. tasks'[id] = NewTask(f[2])
    BY Zenon, <1>3 DEF SpawnTasks
  <2>4. f \in new /\ f[1] = id[4]
    BY <2>2
  <2>5. f = <<id[4], f[2]>>
    BY <2>4
  <2> HIDE DEF f
  <2>6. NewTask(f[2]).pc = "factory" /\ NewTask(f[2]).attempts = 0 /\ NewTask(f[2]).spec = f[2]
    BY DEF NewTask
  <2> QED
    BY Zenon, <2>2, <2>3, <2>4, <2>5, <2>6
<1> QED
  BY Zenon, <1>2, <1>3 DEF Spawns

LEMMA CallGoes ==
  ASSUME Inv, NEW c \in Callers, NEW pc, NEW all, NEW todo,
         call' = [call EXCEPT ![c] = [pc |-> pc, all |-> all, todo |-> todo]]
  PROVE  CallTo(c, pc, all)
BY DEF CallTo, Inv, Types

LEMMA CallEffect ==
  ASSUME Inv, NEW c \in Callers, NotifyStep(c)
  PROVE  /\ UNCHANGED <<phase, mailboxes, children, errors, links, cleaning>>
         /\ call[c].pc \notin {"off", "done"} /\ call'[c].pc # "off"
         /\ CallMove(c)
<1>1. UNCHANGED <<phase, mailboxes, children, errors, links, cleaning>>
  BY Zenon DEF NotifyStep, Debounce, Mark, Lookup, LookupAnd, Unmark, Collect, Collected,
       MarkNext, SpawnAll, mapVars, linkVars
<1>2. CASE Debounce(c)
  <2>1. DoesDebounce(c)
    BY Zenon, <1>2, CallGoes DEF Debounce, Mark, AtStep, CallAt, DoesDebounce, Keeps, histVars
  <2> QED
    BY <1>1, <2>1 DEF CallMove, DoesDebounce, CallTo
<1>3. CASE Lookup(c)
  <2> DEFINE s == children[c[2]][c[3]]
  <2>1. s \in Spec1 /\ c[3] \in Pids
    BY CallerForm DEF Inv, Types
  <2>2. call[c].pc = "lookup" /\ restarting' = restarting
    BY Zenon, <1>3 DEF Lookup, LookupAnd, AtStep, mapVars
  <2>3. ASSUME s \in Spec0 \ RestartAll PROVE DoesLookup(c, s)
    <3>1. s # "none" /\ s \notin RestartAll
      BY <2>3 DEF Spec0, Identity, RestartAll
    <3>2. CallTo(c, "done", call[c].all) /\ SpawnTasks(c, {<<c[3], s>>}) /\ missed' = missed
      BY Zenon, <1>3, <2>3, <3>1, CallGoes DEF Lookup, LookupAnd, CallAt
    <3>3. {<<c[3], s>>} \in SUBSET (Pids \X Spec0)
      BY <2>1, <2>3
    <3>4. Spawns(c, {<<c[3], s>>})
      BY <2>2, <3>2, <3>3, SpawnEffect
    <3> QED
      BY Zenon, <2>2, <2>3, <3>2, <3>4 DEF DoesLookup
  <2>4. ASSUME s \notin Spec0 \ RestartAll PROVE DoesLookup(c, s)
    <3>1. tasks' = tasks
      <4>1. SpawnTasks(c, {})
        BY Zenon, <1>3, <2>4 DEF Lookup, LookupAnd
      <4>2. tasks' = [id \in DOMAIN tasks |-> tasks[id]]
        BY <4>1 DEF SpawnTasks
      <4> QED
        BY <4>2 DEF Inv, Types
    <3>2. ASSUME s = "none" PROVE DoesLookup(c, s)
      BY Zenon, <1>3, <2>2, <3>1, <3>2, CallGoes DEF Lookup, LookupAnd, CallAt, DoesLookup
    <3>3. ASSUME s \in RestartAll PROVE DoesLookup(c, s)
      <4>1. s # "none"
        BY <3>3 DEF RestartAll
      <4> QED
        BY Zenon, <1>3, <2>2, <3>1, <3>3, <4>1, CallGoes
        DEF Lookup, LookupAnd, CallAt, DoesLookup, Keeps
    <3> QED
      BY <2>1, <2>4, <3>2, <3>3 DEF Spec1
  <2>5. DoesLookup(c, s)
    BY <2>3, <2>4
  <2>6. call'[c].pc # "off"
    BY <2>5 DEF DoesLookup, CallTo
  <2> QED
    BY <1>1, <2>2, <2>5, <2>6 DEF CallMove
<1>4. CASE Unmark(c)
  <2>1. DoesUnmark(c)
    BY Zenon, <1>4, CallGoes DEF Unmark, AtStep, CallAt, DoesUnmark, Keeps, histVars
  <2> QED
    BY <1>1, <2>1 DEF CallMove, DoesUnmark, CallTo
<1>5. CASE Collect(c)
  <2>1. DoesCollect(c)
    BY Zenon, <1>5, CallGoes DEF Collect, AtStep, DoesCollect, Keeps, histVars, mapVars
  <2> QED
    BY <1>1, <2>1 DEF CallMove, DoesCollect, CallTo
<1>6. CASE Collected(c)
  <2>1. DoesIterate(c)
    BY Zenon, <1>6, CallGoes DEF Collected, AtStep, DoesIterate, Keeps, histVars, mapVars
  <2> QED
    BY Zenon, <1>1, <2>1 DEF CallMove, DoesIterate, CallTo
<1>7. CASE MarkNext(c)
  <2>1. PICK p \in call[c].todo :
          /\ restarting' = restarting \cup {<<c[2], p>>}
          /\ call' = [call EXCEPT ![c] = [pc |-> "mark", all |-> call[c].all,
                                        todo |-> call[c].todo \ {p}]]
    BY Zenon, <1>7 DEF MarkNext
  <2>2. call[c].pc = "mark" /\ Keeps
    BY Zenon, <1>7 DEF MarkNext, AtStep, Keeps, histVars
  <2>3. p \in Keys(call[c].all)
    BY <2>2 DEF Inv, CallInv
  <2>4. DoesMark(c)
    BY Zenon, <2>1, <2>2, <2>3, CallGoes DEF DoesMark
  <2> QED
    BY Zenon, <1>1, <2>2, <2>4 DEF CallMove, DoesMark, CallTo
<1>8. CASE SpawnAll(c)
  <2>1. call[c].pc = "mark" /\ call[c].all \in SUBSET (Pids \X Spec0)
    BY <1>8 DEF SpawnAll, AtStep, Inv, Types
  <2>2. DoesSpawn(c)
    <3>1. Spawns(c, call[c].all)
      BY <1>8, <2>1, SpawnEffect DEF SpawnAll
    <3> QED
      BY Zenon, <1>8, <2>1, <3>1, CallGoes DEF SpawnAll, DoesSpawn, histVars, mapVars
  <2> QED
    BY Zenon, <1>1, <2>1, <2>2 DEF CallMove, DoesSpawn, CallTo
<1> QED
  BY Zenon, <1>2, <1>3, <1>4, <1>5, <1>6, <1>7, <1>8 DEF NotifyStep

TaskTo(id, pc, spec, new) ==
  /\ DOMAIN tasks' = DOMAIN tasks
  /\ tasks'[id].pc = pc /\ tasks'[id].spec = spec /\ tasks'[id].new = new
  /\ \A j \in DOMAIN tasks : j # id => tasks'[j] = tasks[j]

ChildTo(s, p, spec) ==
  \A t \in Sups, q \in Pids :
    children'[t][q] = IF t = s /\ q = p THEN spec ELSE children[t][q]

Still == UNCHANGED <<phase, mailboxes>>

Spawning(new) ==
  /\ new \notin Spawned /\ phase'[new] = "running" /\ mailboxes' = mailboxes \cup {new}
  /\ \A q \in Pids : q # new => phase'[q] = phase[q]

DoesFactory(id) ==
  /\ tasks[id].pc = "factory" /\ UNCHANGED <<children, restarting, errors>>
  /\ \E new \in Pids :
       /\ TaskTo(id, "insert", tasks[id].spec, new)
       /\ \/ tasks[id].spec \in Identity /\ new = id[4] /\ Still
          \/ tasks[id].spec \notin Identity /\ Spawning(new)

DoesFail(id) ==
  /\ tasks[id].pc = "factory" /\ tasks[id].spec \notin Identity
  /\ UNCHANGED <<children, restarting>> /\ Still /\ errors' = errors + 1
  /\ tasks'[id].attempts = tasks[id].attempts + 1
  /\ TaskTo(id, IF tasks[id].attempts + 1 >= MaxAttempts THEN "remove" ELSE "factory",
            tasks[id].spec, tasks[id].new)

DoesInsert(id) ==
  /\ tasks[id].pc = "insert" /\ UNCHANGED <<restarting, errors>> /\ Still
  /\ ChildTo(id[2], tasks[id].new, tasks[id].spec)
  /\ TaskTo(id, "remove", tasks[id].spec, tasks[id].new)

DoesRemove(id) ==
  /\ tasks[id].pc = "remove" /\ UNCHANGED <<restarting, errors>> /\ Still
  /\ ChildTo(id[2], id[4], "none")
  /\ TaskTo(id, "links", tasks[id].spec, tasks[id].new)

DoesDrop(id) ==
  /\ tasks[id].pc = "links" /\ UNCHANGED <<children, restarting, errors>> /\ Still
  /\ TaskTo(id, "release", tasks[id].spec, tasks[id].new)

DoesRelease(id) ==
  /\ tasks[id].pc = "release" /\ UNCHANGED <<children, errors>> /\ Still
  /\ restarting' = restarting \ {<<id[2], id[4]>>}
  /\ TaskTo(id, "end", "none", 0)

TaskMove(id) ==
  \/ DoesFactory(id) \/ DoesFail(id) \/ DoesInsert(id) \/ DoesRemove(id) \/ DoesDrop(id)
  \/ DoesRelease(id)

LEMMA TaskGoes ==
  ASSUME Inv, NEW id \in DOMAIN tasks, NEW pc, NEW spec, NEW attempts, NEW new,
         tasks' = [tasks EXCEPT ![id] = [pc |-> pc, spec |-> spec, attempts |-> attempts,
                                         new |-> new]]
  PROVE  TaskTo(id, pc, spec, new) /\ tasks'[id].attempts = attempts
BY DEF TaskTo, Inv, Types

LEMMA TaskEffect ==
  ASSUME Inv, NEW id \in DOMAIN tasks, TaskStep(id)
  PROVE  UNCHANGED <<call, missed>> /\ TaskMove(id)
<1>1. /\ id[2] \in Sups /\ id[4] \in Pids
      /\ tasks[id].pc = "insert" => tasks[id].new \in Pids
  BY Zenon DEF Inv, TaskInv, Tasks
<1>2. UNCHANGED <<call, missed>>
  BY Zenon DEF TaskStep, FactoryOk, FactoryErr, InsertNew, RemoveOld, SetChild, DropLinks, Release,
         histVars
<1>3. ASSUME FactoryOk(id) PROVE DoesFactory(id)
  <2>1. PICK new \in Pids :
          /\ tasks' = TaskAt(id, "insert", tasks[id].attempts + 1, new)
          /\ IF tasks[id].spec \in Identity
             THEN new = id[4] /\ UNCHANGED <<phase, mailboxes>>
             ELSE SpawnActor(new)
    BY Zenon, <1>3 DEF FactoryOk
  <2>2. SpawnActor(new) => Spawning(new)
    BY DEF SpawnActor, Spawning, Inv, Types
  <2>3. TaskTo(id, "insert", tasks[id].spec, new)
    BY Zenon, <2>1, TaskGoes DEF TaskAt
  <2>4. tasks[id].pc = "factory" /\ UNCHANGED <<children, restarting, errors>>
    BY Zenon, <1>3 DEF FactoryOk, At, mapVars
  <2> QED
    BY Zenon, <2>1, <2>2, <2>3, <2>4 DEF DoesFactory, Still
<1>4. ASSUME FactoryErr(id) PROVE DoesFail(id)
  <2> DEFINE pc == IF tasks[id].attempts + 1 >= MaxAttempts THEN "remove" ELSE "factory"
  <2>1. /\ tasks[id].pc = "factory" /\ tasks[id].spec \notin Identity
        /\ UNCHANGED <<children, restarting>> /\ Still /\ errors' = errors + 1
        /\ tasks' = TaskAt(id, pc, tasks[id].attempts + 1, tasks[id].new)
    BY Zenon, <1>4 DEF FactoryErr, At, mapVars, Still
  <2>2. TaskTo(id, pc, tasks[id].spec, tasks[id].new) /\ tasks'[id].attempts = tasks[id].attempts + 1
    BY Zenon, <2>1, TaskGoes DEF TaskAt
  <2> QED
    BY Zenon, <2>1, <2>2 DEF DoesFail
<1>5. ASSUME NEW p \in Pids, NEW spec, children' = WithChild(id[2], p, spec)
      PROVE  ChildTo(id[2], p, spec)
  <2>1. \A t \in Sups, q \in Pids :
          WithChild(id[2], p, spec)[t][q] = IF t = id[2] /\ q = p THEN spec ELSE children[t][q]
    BY <1>1 DEF WithChild, Inv, Types
  <2> QED
    BY Zenon, <1>5, <2>1 DEF ChildTo
<1>6. ASSUME InsertNew(id) PROVE DoesInsert(id)
  BY Zenon, <1>1, <1>5, <1>6, TaskGoes DEF InsertNew, SetChild, At, Goto, TaskAt, DoesInsert, Still
<1>7. ASSUME RemoveOld(id) PROVE DoesRemove(id)
  BY Zenon, <1>1, <1>5, <1>7, TaskGoes DEF RemoveOld, SetChild, At, Goto, TaskAt, DoesRemove, Still
<1>8. ASSUME DropLinks(id) PROVE DoesDrop(id)
  BY Zenon, <1>8, TaskGoes DEF DropLinks, At, Goto, TaskAt, DoesDrop, Still, mapVars
<1>9. ASSUME Release(id) PROVE DoesRelease(id)
  BY Zenon, <1>9, TaskGoes DEF Release, At, DoesRelease, Still
<1> QED
  BY Zenon, <1>2, <1>3, <1>4, <1>6, <1>7, <1>8, <1>9 DEF TaskStep, TaskMove
-----------------------------------------------------------------------------
(* The exit paths and the monitors: a call of notify_exit begins, or the   *)
(* maps and the calls are left alone.                                      *)
Begins(c) ==
  /\ call[c].pc = "off" /\ c[3] \in Spawned
  /\ ~(phase'[c[3]] = "running" /\ c[3] \in mailboxes')
  /\ \/ CallTo(c, "insert", call[c].all) /\ missed' = missed
     \/ CallTo(c, "done", call[c].all) /\ missed' = missed \cup {Marked(c)}

PathMove ==
  /\ UNCHANGED <<children, restarting, tasks, errors>>
  /\ mailboxes' \subseteq mailboxes
  /\ \A p \in Pids : phase'[p] = phase[p] \/ (p \in Spawned /\ phase'[p] \notin {"unborn", "running"})
  /\ \/ call' = call /\ missed \subseteq missed'
     \/ \E c \in Callers : Begins(c)

LEMMA RestEffect ==
  ASSUME UNCHANGED vars \/ \E r \in cleaning : RetainPeer(r)
  PROVE  PathMove
BY Zenon DEF vars, RetainPeer, mapVars, histVars, PathMove

LEMMA PathEffect ==
  ASSUME Inv, NEW p \in Pids,
         ActorEnds(p) \/ ExitStep(p) \/ MonitorDown(p)
  PROVE  PathMove
<1>1. UNCHANGED <<children, restarting, tasks, errors>>
  BY Zenon DEF ActorEnds, ExitStep, Unmap, IteratePaths, TakeLinks, Iterated, Signal, VisitPath,
       Visit, MonitorDown, mapVars
<1>2. mailboxes' = mailboxes \/ mailboxes' = mailboxes \ {p}
  BY Zenon DEF ActorEnds, ExitStep, Unmap, IteratePaths, TakeLinks, Iterated, Signal, VisitPath,
       Visit, MonitorDown
<1>3. ASSUME NEW q \in Pids
      PROVE  phase'[q] = phase[q] \/ (q \in Spawned /\ phase'[q] \notin {"unborn", "running"})
  <2>1. \/ phase' = phase
        \/ /\ phase[p] # "unborn"
           /\ \E to \in {"unmap", "notify", "paths", "signal", "dead"} :
                phase' = [phase EXCEPT ![p] = to]
    BY Zenon DEF ActorEnds, ExitStep, Unmap, IteratePaths, TakeLinks, Iterated, Signal, VisitPath,
         Visit, MonitorDown
  <2> QED
    BY <2>1 DEF Inv, Types, Spawned
<1>4. CASE Unmap(p)
  <2>1. <<"exit", 0, p>> \in Callers /\ call[<<"exit", 0, p>>].pc = "off"
    BY Zenon, <1>4, ExitCaller DEF Unmap, Inv, CallInv, Sups
  <2>2. CallTo(<<"exit", 0, p>>, "insert", call[<<"exit", 0, p>>].all) /\ missed' = missed
    BY Zenon, <1>4, <2>1, CallGoes DEF Unmap, CallAt, histVars
  <2>3. p \in Spawned /\ p \notin mailboxes'
    BY <1>4 DEF Unmap, Spawned
  <2>4. <<"exit", 0, p>>[3] = p
    OBVIOUS
  <2>5. Begins(<<"exit", 0, p>>)
    BY Zenon, <2>1, <2>2, <2>3, <2>4 DEF Begins
  <2> QED
    BY Zenon, <1>1, <1>2, <1>3, <2>1, <2>5 DEF PathMove
<1>5. CASE MonitorDown(p)
  <2>1. <<"monitor", 0, p>> \in Callers /\ call[<<"monitor", 0, p>>].pc = "off"
    BY Zenon, <1>5, MonitorCaller DEF MonitorDown
  <2>2. CallTo(<<"monitor", 0, p>>, "insert", call[<<"monitor", 0, p>>].all) /\ missed' = missed
    BY Zenon, <1>5, <2>1, CallGoes DEF MonitorDown, CallAt, histVars
  <2>3. p \in Spawned /\ p \notin mailboxes'
    BY <1>5 DEF MonitorDown
  <2>4. <<"monitor", 0, p>>[3] = p
    OBVIOUS
  <2>5. Begins(<<"monitor", 0, p>>)
    BY Zenon, <2>1, <2>2, <2>3, <2>4 DEF Begins
  <2> QED
    BY <1>1, <1>2, <1>3, <2>1, <2>5 DEF PathMove
<1>6. ASSUME NEW s \in PathSups, VisitPath(p, s) PROVE PathMove
  <2> DEFINE c == <<"exit", s, p>>
  <2>1. c \in Callers /\ c[3] = p /\ Marked(c) = <<s, p>>
    BY Zenon, ExitCaller DEF Sups, Marked
  <2>2. call[c].pc = "off" /\ phase[p] = "paths" /\ phase' = phase
    BY Zenon, <1>6 DEF VisitPath, Visit
  <2>3. p \in Spawned /\ phase'[p] # "running"
    BY <2>2 DEF Spawned
  <2>4. \/ CallTo(c, "insert", call[c].all) /\ missed' = missed
        \/ CallTo(c, "done", call[c].all) /\ missed' = missed \cup {<<s, p>>}
    BY Zenon, <1>6, <2>1, CallGoes DEF VisitPath, Visit, CallAt
  <2> HIDE DEF c
  <2>5. Begins(c)
    BY Zenon, <2>1, <2>2, <2>3, <2>4 DEF Begins
  <2> QED
    BY <1>1, <1>2, <1>3, <2>1, <2>5 DEF PathMove
<1>7. CASE ActorEnds(p) \/ IteratePaths(p) \/ TakeLinks(p) \/ Signal(p)
  <2>1. call' = call /\ missed \subseteq missed'
    BY Zenon, <1>7 DEF ActorEnds, IteratePaths, TakeLinks, Iterated, Signal, histVars
  <2> QED
    BY <1>1, <1>2, <1>3, <2>1 DEF PathMove
<1> QED
  BY Zenon, <1>4, <1>5, <1>6, <1>7 DEF ExitStep
-----------------------------------------------------------------------------
(* A pid has a home: it is registered, or a restart task is about to       *)
(* register it, or some task replaces or has replaced it.                  *)
Home(p) ==
  \/ \E s \in Sups : children[s][p] # "none"
  \/ \E id \in DOMAIN tasks : id[4] = p \/ (tasks[id].pc = "insert" /\ tasks[id].new = p)

Supervised(p) == p \in DOMAIN scene.children => \E s \in Sups : Initially(s, p) # "none"

UpInv ==
  /\ mailboxes \subseteq Spawned
  /\ \A c \in Callers : call[c].pc # "off" =>
       c[3] \in Spawned /\ ~(phase[c[3]] = "running" /\ c[3] \in mailboxes)

HomeInv == UpInv /\ \A p \in Spawned : Supervised(p) => Home(p)

LEMMA HomeInit == ASSUME Init, Inv PROVE HomeInv
<1>1. UpInv
  <2>1. mailboxes \subseteq Spawned
    <3>1. mailboxes = DOMAIN scene.children /\ DOMAIN scene.children \subseteq Pids
      BY SupervisorAssumption DEF Init, Pids
    <3> QED
      BY <3>1 DEF Init, Spawned
  <2>2. \A c \in Callers : call[c].pc = "off"
    BY DEF Init
  <2> QED
    BY Zenon, <2>1, <2>2 DEF UpInv
<1>2. ASSUME NEW p \in Spawned, Supervised(p) PROVE Home(p)
  <2>1. p \in DOMAIN scene.children
    BY DEF Init, Spawned
  <2>2. PICK s \in Sups : Initially(s, p) # "none"
    BY <1>2, <2>1 DEF Supervised
  <2>3. children[s][p] = Initially(s, p)
    BY DEF Init, Spawned
  <2> QED
    BY <2>2, <2>3 DEF Home
<1> QED
  BY <1>1, <1>2 DEF HomeInv

LEMMA HomeFrame ==
  ASSUME HomeInv, UpInv', scene' = scene, \A p \in Pids : Home(p) => Home(p)',
         \A p \in Pids : p \in Spawned' => p \in Spawned \/ Home(p)'
  PROVE  HomeInv'
<1>1. ASSUME NEW p \in Spawned', Supervised(p)' PROVE Home(p)'
  <2>1. p \in Pids /\ Supervised(p)
    BY <1>1 DEF Spawned, Supervised, Initially
  <2> QED
    BY <2>1 DEF HomeInv
<1> QED
  BY Zenon, <1>1 DEF HomeInv

LEMMA SpawnedStays ==
  ASSUME phase' = phase \/ PathMove
  PROVE  Spawned' = Spawned
BY DEF PathMove, Spawned

LEMMA HomePath ==
  ASSUME Inv, HomeInv, scene' = scene, PathMove
  PROVE  HomeInv'
<1>1. Spawned' = Spawned
  BY Zenon, SpawnedStays
<1>2. \A p \in Pids : Home(p) => Home(p)'
  BY Zenon DEF PathMove, Home
<1>3. ASSUME NEW c \in Callers, call'[c].pc # "off"
      PROVE  c[3] \in Spawned /\ ~(phase'[c[3]] = "running" /\ c[3] \in mailboxes')
  <2>1. CASE call[c].pc # "off"
    <3>1. c[3] \in Spawned /\ ~(phase[c[3]] = "running" /\ c[3] \in mailboxes) /\ c[3] \in Pids
      BY Zenon, <2>1, CallerForm DEF HomeInv, UpInv
    <3> QED
      BY <3>1 DEF PathMove
  <2>2. CASE call[c].pc = "off"
    BY Zenon, <1>3, <2>2 DEF PathMove, Begins, CallTo
  <2> QED
    BY <2>1, <2>2
<1>4. UpInv'
  BY Zenon, <1>1, <1>3 DEF UpInv, HomeInv, PathMove
<1> QED
  BY Zenon, <1>1, <1>2, <1>4, HomeFrame

LEMMA HomeCall ==
  ASSUME Inv, HomeInv, scene' = scene, NEW c \in Callers, NotifyStep(c)
  PROVE  HomeInv'
<1>1. /\ UNCHANGED <<phase, mailboxes, children>> /\ call[c].pc # "off" /\ CallMove(c)
      /\ Spawned' = Spawned
  BY Zenon, CallEffect, SpawnedStays
<1>2. /\ \A d \in Callers : d # c => call'[d] = call[d]
      /\ \A id \in DOMAIN tasks : id \in DOMAIN tasks' /\ tasks'[id] = tasks[id]
  BY Zenon, <1>1 DEF CallMove, DoesDebounce, DoesLookup, DoesUnmark, DoesCollect, DoesIterate,
     DoesMark, DoesSpawn, CallTo, Keeps, Spawns
<1>3. \A p \in Pids : Home(p) => Home(p)'
  BY Zenon, <1>1, <1>2 DEF Home
<1>4. UpInv'
  BY Zenon, <1>1, <1>2 DEF UpInv, HomeInv
<1> QED
  BY Zenon, <1>1, <1>3, <1>4, HomeFrame

LEMMA HomeTask ==
  ASSUME Inv, HomeInv, scene' = scene, NEW id \in DOMAIN tasks, TaskStep(id)
  PROVE  HomeInv'
<1>1. call' = call /\ TaskMove(id) /\ DOMAIN tasks' = DOMAIN tasks
  BY Zenon, TaskEffect DEF TaskMove, DoesFactory, DoesFail, DoesInsert, DoesRemove, DoesDrop,
     DoesRelease, TaskTo
<1>2. /\ tasks[id].pc = "insert" => tasks[id].new \in Pids /\ tasks[id].spec \in Spec0
      /\ id[2] \in Sups /\ "none" \notin Spec0
  BY Zenon DEF Inv, TaskInv, Tasks, Spec0, Identity, RestartAll
<1>3. ASSUME NEW p \in Pids, Home(p) PROVE Home(p)'
  <2>1. CASE \E j \in DOMAIN tasks : j[4] = p
    BY Zenon, <1>1, <2>1 DEF Home
  <2>2. CASE \A j \in DOMAIN tasks : j[4] # p
    <3>1. CASE \E s \in Sups : children[s][p] # "none"
      <4>1. CASE DoesInsert(id)
        <5>1. PICK s \in Sups : children[s][p] # "none"
          BY Zenon, <3>1
        <5>2. tasks[id].spec # "none" /\ ChildTo(id[2], tasks[id].new, tasks[id].spec)
          BY Zenon, <1>2, <4>1 DEF DoesInsert
        <5>3. children'[s][p] # "none"
          BY Zenon, <5>1, <5>2 DEF ChildTo
        <5> QED
          BY Zenon, <5>3 DEF Home
      <4>2. CASE DoesRemove(id)
        BY Zenon, <2>2, <3>1, <4>2 DEF Home, DoesRemove, ChildTo
      <4>3. CASE DoesFactory(id) \/ DoesFail(id) \/ DoesDrop(id) \/ DoesRelease(id)
        BY Zenon, <3>1, <4>3 DEF Home, DoesFactory, DoesFail, DoesDrop, DoesRelease
      <4> QED
        BY Zenon, <1>1, <4>1, <4>2, <4>3 DEF TaskMove
    <3>2. CASE \E j \in DOMAIN tasks : j # id /\ tasks[j].pc = "insert" /\ tasks[j].new = p
      BY Zenon, <1>1, <3>2 DEF Home, TaskMove, DoesFactory, DoesFail, DoesInsert, DoesRemove,
           DoesDrop, DoesRelease, TaskTo
    <3>3. CASE tasks[id].pc = "insert" /\ tasks[id].new = p
      <4>1. DoesInsert(id)
        BY Zenon, <1>1, <3>3 DEF TaskMove, DoesFactory, DoesFail, DoesRemove, DoesDrop, DoesRelease
      <4>2. children'[id[2]][p] # "none"
        BY <1>2, <3>3, <4>1 DEF DoesInsert, ChildTo
      <4> QED
        BY Zenon, <1>2, <4>2 DEF Home
    <3> QED
      BY Zenon, <1>3, <2>2, <3>1, <3>2, <3>3 DEF Home
  <2> QED
    BY <2>1, <2>2
<1>4. ASSUME Still PROVE Spawned' = Spawned /\ UpInv'
  BY Zenon, <1>1, <1>4, SpawnedStays DEF UpInv, HomeInv, Still
<1>5. ASSUME NEW new \in Pids, Spawning(new), TaskTo(id, "insert", tasks[id].spec, new)
      PROVE  HomeInv'
  <2>1. /\ \A q \in Pids : q # new => phase'[q] = phase[q]
        /\ Spawned' = Spawned \cup {new} /\ new \notin Spawned /\ mailboxes' = mailboxes \cup {new}
    BY <1>5 DEF Spawning, Spawned
  <2>2. Home(new)'
    BY Zenon, <1>5 DEF Home, TaskTo
  <2>3. \A c \in Callers : c[3] \in Pids
    BY CallerForm
  <2>4. UpInv'
    BY Zenon, <1>1, <2>1, <2>3 DEF UpInv, HomeInv
  <2> QED
    BY Zenon, <1>3, <2>1, <2>2, <2>4, HomeFrame
<1>6. CASE Still
  BY Zenon, <1>3, <1>4, <1>6, HomeFrame
<1> QED
  BY Zenon, <1>1, <1>5, <1>6 DEF TaskMove, DoesFactory, DoesFail, DoesInsert, DoesRemove, DoesDrop,
     DoesRelease
-----------------------------------------------------------------------------
(* The pids a supervisor knows or has known.  One that a factory has       *)
(* spawned is not among them until it is registered.                       *)
Known(p) ==
  \/ \E s \in Sups : children[s][p] # "none"
  \/ \E c \in Callers : p \in Keys(call[c].all)
  \/ \E id \in DOMAIN tasks : id[4] = p

Awaits(id, p) ==
  tasks[id].pc = "insert" /\ tasks[id].spec \notin Identity /\ tasks[id].new = p

FreshInv ==
  /\ \A p \in Pids : Known(p) => p \in Spawned
  /\ \A m \in restarting : m[2] \in Spawned
  /\ \A id \in DOMAIN tasks, p \in Pids : Awaits(id, p) =>
       /\ p \in Spawned /\ ~Known(p)
       /\ \A j \in DOMAIN tasks : Awaits(j, p) => j = id
  /\ \A id \in DOMAIN tasks :
       tasks[id].pc = "insert" /\ tasks[id].spec \in Identity => tasks[id].new = id[4]

LEMMA FreshInit == ASSUME Init PROVE FreshInv
<1>1. ASSUME NEW p \in Pids, Known(p) PROVE p \in Spawned
  <2>1. \A c \in Callers : p \notin Keys(call[c].all)
    BY DEF Init, Keys
  <2>2. DOMAIN tasks = {}
    BY DEF Init
  <2>3. PICK s \in Sups : Initially(s, p) # "none"
    BY Zenon, <1>1, <2>1, <2>2 DEF Init, Known
  <2>4. p \in DOMAIN scene.children
    BY Zenon, <2>3 DEF Initially
  <2> QED
    BY <2>4 DEF Init, Spawned
<1>2. restarting = {} /\ DOMAIN tasks = {}
  BY DEF Init
<1> QED
  BY <1>1, <1>2 DEF FreshInv

LEMMA FreshFrame ==
  ASSUME FreshInv, Spawned \subseteq Spawned', \A m \in restarting' : m[2] \in Spawned',
         \A p \in Pids : Known(p)' => Known(p),
         \A id \in DOMAIN tasks' : tasks'[id].pc = "insert" =>
            id \in DOMAIN tasks /\ tasks'[id] = tasks[id]
  PROVE  FreshInv'
<1>1. \A id \in DOMAIN tasks', p \in Pids : Awaits(id, p)' => id \in DOMAIN tasks /\ Awaits(id, p)
  BY Zenon DEF Awaits
<1>2. \A p \in Pids : Known(p)' => p \in Spawned'
  BY Zenon DEF FreshInv
<1>3. \A id \in DOMAIN tasks', p \in Pids : Awaits(id, p)' =>
       /\ p \in Spawned' /\ ~Known(p)'
       /\ \A j \in DOMAIN tasks' : Awaits(j, p)' => j = id
  BY Zenon, <1>1 DEF FreshInv
<1>4. \A id \in DOMAIN tasks' :
       tasks'[id].pc = "insert" /\ tasks'[id].spec \in Identity => tasks'[id].new = id[4]
  BY Zenon DEF FreshInv
<1> QED
  BY Zenon, <1>2, <1>3, <1>4 DEF FreshInv

LEMMA FreshPath ==
  ASSUME FreshInv, PathMove
  PROVE  FreshInv'
<1>1. Spawned' = Spawned
  BY Zenon, SpawnedStays
<1>2. \A c \in Callers : call'[c].all = call[c].all
  BY Zenon DEF PathMove, Begins, CallTo
<1>3. \A p \in Pids : Known(p)' => Known(p)
  BY Zenon, <1>2 DEF Known, PathMove, Keys
<1>4. /\ \A m \in restarting' : m[2] \in Spawned'
      /\ tasks' = tasks
  BY Zenon, <1>1 DEF PathMove, FreshInv
<1> QED
  BY Zenon, <1>1, <1>3, <1>4, FreshFrame

LEMMA FreshCall ==
  ASSUME Inv, HomeInv, FreshInv, NEW c \in Callers, NotifyStep(c)
  PROVE  FreshInv'
<1>1. /\ UNCHANGED <<phase, children>> /\ call[c].pc # "off" /\ CallMove(c)
      /\ Spawned' = Spawned
  BY Zenon, CallEffect, SpawnedStays
<1>2. c[2] \in Sups /\ c[3] \in Pids /\ c[3] \in Spawned /\ Marked(c)[2] = c[3]
  BY <1>1, CallerForm DEF HomeInv, UpInv, Marked
<1>3. \A m \in restarting' : m[2] \in Spawned'
  <2>1. \A p \in Keys(call[c].all) : p \in Pids /\ Known(p) /\ p \in Spawned
    BY DEF Known, FreshInv, Keys, Inv, Types
  <2>2. restarting' \subseteq restarting \cup {Marked(c)} \cup {<<c[2], p>> : p \in Keys(call[c].all)}
    BY Zenon, <1>1 DEF CallMove, DoesDebounce, DoesLookup, DoesUnmark, DoesCollect, DoesIterate,
       DoesMark, DoesSpawn
  <2>3. ASSUME NEW m \in restarting' PROVE m[2] \in Spawned
    <3>1. CASE m \in restarting
      BY Zenon, <3>1 DEF FreshInv
    <3>2. CASE m \in {<<c[2], p>> : p \in Keys(call[c].all)}
      BY <2>1, <3>2
    <3> QED
      BY Zenon, <1>2, <2>2, <3>1, <3>2
  <2> QED
    BY Zenon, <1>1, <2>3
<1>4. \A p \in Keys(Snapshot(c[2])) : Known(p)
  BY <1>2 DEF Keys, Snapshot, Registered, Known
<1>5. \A p \in Keys(call[c].all) : Known(p)
  BY Zenon DEF Known
<1>6. \A d \in Callers : \A p \in Keys(call'[d].all) : Known(p)
  <2>1. \A p \in Keys(call'[c].all) : Known(p)
    <3>1. \A all : all \subseteq call[c].all \cup Snapshot(c[2]) =>
            \A p \in Keys(all) : p \in Keys(call[c].all) \/ p \in Keys(Snapshot(c[2]))
      BY DEF Keys
    <3>2. call'[c].all \subseteq call[c].all \cup Snapshot(c[2])
      BY Zenon, <1>1 DEF CallMove, DoesDebounce, DoesLookup, DoesUnmark, DoesCollect, DoesIterate,
         DoesMark, DoesSpawn, CallTo
    <3> QED
      BY Zenon, <1>4, <1>5, <3>1, <3>2
  <2>2. \A d \in Callers : d # c => call'[d] = call[d]
    BY Zenon, <1>1 DEF CallMove, DoesDebounce, DoesLookup, DoesUnmark, DoesCollect, DoesIterate,
       DoesMark, DoesSpawn, CallTo
  <2> QED
    BY Zenon, <2>1, <2>2 DEF Known
<1>7. tasks' = tasks \/ (children[c[2]][c[3]] # "none" /\ Spawns(c, {<<c[3], children[c[2]][c[3]]>>}))
                     \/ Spawns(c, call[c].all)
  BY Zenon, <1>1 DEF CallMove, DoesDebounce, DoesLookup, DoesUnmark, DoesCollect, DoesIterate,
     DoesMark, DoesSpawn, Keeps, Spec0, Identity, RestartAll
<1>8. \A id \in DOMAIN tasks' : Known(id[4])
  <2>1. ASSUME NEW new, Spawns(c, new), \A e \in new : Known(e[1])
        PROVE  \A id \in DOMAIN tasks' : Known(id[4])
    <3>1. \A id \in DOMAIN tasks' : id \in DOMAIN tasks \/ \E e \in new : e[1] = id[4]
      BY <2>1 DEF Spawns
    <3> QED
      BY Zenon, <2>1, <3>1 DEF Known
  <2>2. \A e \in call[c].all : Known(e[1])
    BY Zenon, <1>5 DEF Keys
  <2>3. children[c[2]][c[3]] # "none" => Known(c[3])
    BY Zenon, <1>2 DEF Known
  <2>4. \A e \in {<<c[3], children[c[2]][c[3]]>>} : e[1] = c[3]
    OBVIOUS
  <2>5. \A id \in DOMAIN tasks : Known(id[4])
    BY Zenon DEF Known
  <2> QED
    BY Zenon, <1>7, <2>1, <2>2, <2>3, <2>4, <2>5
<1>9. \A p \in Pids : Known(p)' => Known(p)
  BY Zenon, <1>1, <1>6, <1>8 DEF Known
<1>10. \A id \in DOMAIN tasks' : tasks'[id].pc = "insert" =>
         id \in DOMAIN tasks /\ tasks'[id] = tasks[id]
  BY Zenon, <1>7 DEF Spawns
<1> QED
  BY Zenon, <1>1, <1>3, <1>9, <1>10, FreshFrame

LEMMA FreshTask ==
  ASSUME Inv, FreshInv, NEW id \in DOMAIN tasks, TaskStep(id)
  PROVE  FreshInv'
<1>1. call' = call /\ TaskMove(id)
  BY Zenon, TaskEffect
<1>2. \A m \in restarting' : m \in restarting
  BY Zenon, <1>1 DEF TaskMove, DoesFactory, DoesFail, DoesInsert, DoesRemove, DoesDrop, DoesRelease
<1>3. /\ DOMAIN tasks' = DOMAIN tasks
      /\ \A j \in DOMAIN tasks : j # id => tasks'[j] = tasks[j]
  BY Zenon, <1>1 DEF TaskMove, DoesFactory, DoesFail, DoesInsert, DoesRemove, DoesDrop, DoesRelease,
     TaskTo
<1>4. /\ tasks[id].pc = "insert" => tasks[id].new \in Pids
      /\ id[2] \in Sups /\ id[4] \in Pids
  BY Zenon DEF Inv, TaskInv, Tasks
<1>5. \A m \in restarting' : m[2] \in Spawned
  BY Zenon, <1>2 DEF FreshInv
<1>6. Still => Spawned' = Spawned
  BY Zenon, SpawnedStays DEF Still
<1>7. CASE DoesFail(id) \/ DoesRemove(id) \/ DoesDrop(id) \/ DoesRelease(id)
  <2>1. tasks'[id].pc # "insert" /\ Still
    BY Zenon, <1>7 DEF DoesFail, DoesRemove, DoesDrop, DoesRelease, TaskTo
  <2>2. \A s \in Sups, p \in Pids : children'[s][p] # "none" => children[s][p] # "none"
    BY Zenon, <1>7 DEF DoesFail, DoesRemove, DoesDrop, DoesRelease, ChildTo
  <2>3. \A p \in Pids : Known(p)' => Known(p)
    BY Zenon, <1>1, <1>3, <2>2 DEF Known
  <2> QED
    BY Zenon, <1>3, <1>5, <1>6, <2>1, <2>3, FreshFrame
<1>8. CASE DoesInsert(id)
  <2> DEFINE n == tasks[id].new
  <2>1. /\ tasks[id].pc = "insert" /\ n \in Pids /\ Still /\ ChildTo(id[2], n, tasks[id].spec)
        /\ tasks'[id].pc = "remove"
    BY Zenon, <1>4, <1>8 DEF DoesInsert, TaskTo
  <2>2. n \in Spawned /\ \A j \in DOMAIN tasks : j # id => ~Awaits(j, n)
    <3>1. CASE tasks[id].spec \in Identity
      <4>1. Known(n)
        BY Zenon, <2>1, <3>1 DEF FreshInv, Known
      <4> QED
        BY Zenon, <2>1, <4>1 DEF FreshInv
    <3>2. CASE tasks[id].spec \notin Identity
      <4>1. Awaits(id, n)
        BY Zenon, <2>1, <3>2 DEF Awaits
      <4> QED
        BY Zenon, <2>1, <4>1 DEF FreshInv
    <3> QED
      BY <3>1, <3>2
  <2> HIDE DEF n
  <2>3. \A s \in Sups, p \in Pids : p # n /\ children'[s][p] # "none" => children[s][p] # "none"
    BY <2>1 DEF ChildTo
  <2>4. \A p \in Pids : Known(p)' => Known(p) \/ p = n
    BY Zenon, <1>1, <1>3, <2>3 DEF Known
  <2>5. \A j \in DOMAIN tasks', p \in Pids :
          Awaits(j, p)' => j \in DOMAIN tasks /\ Awaits(j, p) /\ p # n
    <3>1. \A j \in DOMAIN tasks', p \in Pids : Awaits(j, p)' => j \in DOMAIN tasks /\ j # id
      BY <1>3, <2>1 DEF Awaits
    <3>2. \A j \in DOMAIN tasks, p \in Pids : j # id /\ Awaits(j, p)' => Awaits(j, p)
      BY Zenon, <1>3 DEF Awaits
    <3> QED
      BY Zenon, <2>2, <3>1, <3>2
  <2>6. \A p \in Pids : Known(p)' => p \in Spawned'
    <3>1. (\A p \in Pids : Known(p) => p \in Spawned) /\ Spawned' = Spawned
      BY Zenon, <1>6, <2>1 DEF FreshInv
    <3> QED
      BY <2>2, <2>4, <3>1
  <2>7. \A j \in DOMAIN tasks', p \in Pids : Awaits(j, p)' =>
       /\ p \in Spawned' /\ ~Known(p)'
       /\ \A k \in DOMAIN tasks' : Awaits(k, p)' => k = j
    BY Zenon, <1>6, <2>1, <2>4, <2>5 DEF FreshInv
  <2>8. \A j \in DOMAIN tasks' :
       tasks'[j].pc = "insert" /\ tasks'[j].spec \in Identity => tasks'[j].new = j[4]
    BY <1>3, <2>1 DEF FreshInv
  <2> QED
    BY Zenon, <1>5, <1>6, <2>1, <2>6, <2>7, <2>8 DEF FreshInv
<1>9. ASSUME NEW n \in Pids, TaskTo(id, "insert", tasks[id].spec, n), children' = children,
             \/ tasks[id].spec \in Identity /\ n = id[4] /\ Still
             \/ tasks[id].spec \notin Identity /\ Spawning(n)
      PROVE  FreshInv'
  <2>1. Spawned \subseteq Spawned' /\ (tasks[id].spec \notin Identity => n \in Spawned' \ Spawned)
    BY <1>6, <1>9 DEF Spawning, Spawned
  <2>2. \A p \in Pids : Known(p)' => Known(p)
    BY Zenon, <1>1, <1>3, <1>9 DEF Known
  <2>3. tasks[id].spec \notin Identity => ~Known(n)
    BY Zenon, <2>1 DEF FreshInv
  <2>4. \A j \in DOMAIN tasks', p \in Pids : Awaits(j, p)' =>
          \/ j \in DOMAIN tasks /\ j # id /\ Awaits(j, p)
          \/ j = id /\ p = n /\ tasks[id].spec \notin Identity
    <3> SUFFICES ASSUME NEW j \in DOMAIN tasks', NEW p \in Pids, Awaits(j, p)'
                 PROVE  \/ j \in DOMAIN tasks /\ j # id /\ Awaits(j, p)
                        \/ j = id /\ p = n /\ tasks[id].spec \notin Identity
      BY Zenon
    <3>1. CASE j = id
      BY Zenon, <1>3, <1>9, <3>1 DEF Awaits, TaskTo
    <3>2. CASE j # id
      BY Zenon, <1>3, <1>9, <3>2 DEF Awaits, TaskTo
    <3> QED
      BY Zenon, <3>1, <3>2
  <2>5. \A j \in DOMAIN tasks, p \in Pids : Awaits(j, p) => p \in Spawned
    BY Zenon DEF FreshInv
  <2>6. \A p \in Pids : Known(p)' => p \in Spawned'
    BY Zenon, <2>1, <2>2 DEF FreshInv
  <2>7. \A j \in DOMAIN tasks', p \in Pids : Awaits(j, p)' =>
       /\ p \in Spawned' /\ ~Known(p)'
       /\ \A k \in DOMAIN tasks' : Awaits(k, p)' => k = j
    <3>1. \A j \in DOMAIN tasks, p \in Pids : Awaits(j, p) =>
            ~Known(p) /\ \A k \in DOMAIN tasks : Awaits(k, p) => k = j
      BY Zenon DEF FreshInv
    <3> TAKE j \in DOMAIN tasks', p \in Pids
    <3> HAVE Awaits(j, p)'
    <3>2. CASE j \in DOMAIN tasks /\ j # id /\ Awaits(j, p)
      BY Zenon, <2>1, <2>2, <2>3, <2>4, <2>5, <3>1, <3>2
    <3>3. CASE j = id /\ p = n /\ tasks[id].spec \notin Identity
      BY Zenon, <2>1, <2>2, <2>3, <2>4, <2>5, <3>3
    <3> QED
      BY Zenon, <2>4, <3>2, <3>3
  <2>8. \A j \in DOMAIN tasks' :
       tasks'[j].pc = "insert" /\ tasks'[j].spec \in Identity => tasks'[j].new = j[4]
    <3>1. /\ DOMAIN tasks' = DOMAIN tasks /\ \A j \in DOMAIN tasks : j # id => tasks'[j] = tasks[j]
          /\ tasks'[id].spec \in Identity => tasks'[id].new = id[4]
      BY Zenon, <1>3, <1>9 DEF TaskTo
    <3> QED
      BY Zenon, <3>1 DEF FreshInv
  <2>9. \A m \in restarting' : m[2] \in Spawned'
    BY Zenon, <1>5, <2>1
  <2> QED
    BY Zenon, <2>6, <2>7, <2>8, <2>9 DEF FreshInv
<1> QED
  BY Zenon, <1>1, <1>7, <1>8, <1>9 DEF TaskMove, DoesFactory
-----------------------------------------------------------------------------
(* A pid whose exit was reported, and that is registered or about to be,   *)
(* will be removed by a call of notify_exit or by a restart task, unless   *)
(* it was registered too late for the report.                              *)
Reported(m) ==
  \/ m \in restarting
  \/ \E c \in Callers : c[2] = m[1] /\ c[3] = m[2] /\ call[c].pc \notin {"off", "insert"}

Alive(m) ==
  \/ children[m[1]][m[2]] # "none"
  \/ \E id \in DOMAIN tasks : id[2] = m[1] /\ tasks[id].pc = "insert" /\ tasks[id].new = m[2]

WillRemove(c, m) == Covers(c, m) /\ call[c].pc # "unmark"
WillReplace(id, m) ==
  id[2] = m[1] /\ id[4] = m[2] /\ tasks[id].pc \in {"factory", "insert", "remove"}
Doomed(m) ==
  (\E c \in Callers : WillRemove(c, m)) \/ \E id \in DOMAIN tasks : WillReplace(id, m)

DeadInv ==
  \A m \in Sups \X Pids : Reported(m) /\ Alive(m) => m \in missed \/ Doomed(m)

LEMMA DeadFrame ==
  ASSUME DeadInv, missed \subseteq missed', \A m \in Sups \X Pids : Alive(m)' => Alive(m),
         \A m \in Sups \X Pids : Reported(m)' => Reported(m) \/ m \in missed' \/ Doomed(m)',
         \A m \in Sups \X Pids : Doomed(m) /\ Alive(m)' => m \in missed' \/ Doomed(m)'
  PROVE  DeadInv'
BY Zenon DEF DeadInv

LEMMA DeadPath ==
  ASSUME Inv, DeadInv, PathMove
  PROVE  DeadInv'
<1>1. \A m \in Sups \X Pids : Alive(m)' => Alive(m)
  BY Zenon DEF PathMove, Alive
<1>2. \A c \in Callers : call'[c] = call[c] \/ Begins(c)
  BY Zenon DEF PathMove, Begins, CallTo
<1>3. ASSUME NEW m \in Sups \X Pids, Reported(m)' PROVE Reported(m) \/ m \in missed'
  <2>1. ASSUME NEW c \in Callers, Begins(c), c[2] = m[1], c[3] = m[2],
               call'[c].pc \notin {"off", "insert"}
        PROVE  m \in missed'
    <3>1. Marked(c) = m
      BY <2>1 DEF Marked
    <3> QED
      BY <2>1, <3>1 DEF Begins, CallTo
  <2> QED
    BY Zenon, <1>2, <1>3, <2>1 DEF Reported, PathMove
<1>4. ASSUME NEW m \in Sups \X Pids, Doomed(m) PROVE Doomed(m)'
  <2>1. \A c \in Callers : WillRemove(c, m) => call'[c] = call[c]
    BY <1>2 DEF WillRemove, Covers, Begins
  <2>2. \A c \in Callers : WillRemove(c, m) => WillRemove(c, m)'
    BY Zenon, <2>1 DEF WillRemove, Covers, PathMove, Keys
  <2>3. \A id \in DOMAIN tasks : WillReplace(id, m) => id \in DOMAIN tasks' /\ WillReplace(id, m)'
    BY Zenon DEF WillReplace, PathMove
  <2> QED
    BY Zenon, <1>4, <2>2, <2>3 DEF Doomed
<1>5. missed \subseteq missed'
  BY DEF PathMove, Begins
<1> QED
  BY Zenon, <1>1, <1>3, <1>4, <1>5, DeadFrame

LEMMA DeadCall ==
  ASSUME Inv, DeadInv, NEW c \in Callers, NotifyStep(c)
  PROVE  DeadInv'
<1>1. UNCHANGED children /\ CallMove(c)
  BY Zenon, CallEffect
<1>2. /\ \A d \in Callers : d # c => call'[d] = call[d]
      /\ \A id \in DOMAIN tasks : id \in DOMAIN tasks' /\ tasks'[id] = tasks[id]
      /\ missed \subseteq missed'
  BY Zenon, <1>1 DEF CallMove, DoesDebounce, DoesLookup, DoesUnmark, DoesCollect, DoesIterate,
     DoesMark, DoesSpawn, CallTo, Keeps, Spawns
<1>3. c = <<c[1], c[2], c[3]>> /\ c[2] \in Sups /\ c[3] \in Pids
  BY CallerForm
<1>4. \A m \in Sups \X Pids : m = Marked(c) <=> c[2] = m[1] /\ c[3] = m[2]
  BY <1>3 DEF Marked
<1>5. \A m \in Sups \X Pids : Alive(m)' => Alive(m)
  <2>1. \A id \in DOMAIN tasks' : tasks'[id].pc = "insert" => id \in DOMAIN tasks
    BY Zenon, <1>1 DEF CallMove, DoesDebounce, DoesLookup, DoesUnmark, DoesCollect, DoesIterate,
       DoesMark,
       DoesSpawn, Keeps, Spawns
  <2> QED
    BY Zenon, <1>1, <1>2, <2>1 DEF Alive
<1>6. ASSUME \A m \in Sups \X Pids : Reported(m)' => Reported(m) \/ WillRemove(c, m)',
             \A m \in Sups \X Pids : WillRemove(c, m) => m \in missed' \/ Doomed(m)'
      PROVE  DeadInv'
  <2>1. ASSUME NEW m \in Sups \X Pids, Doomed(m) PROVE m \in missed' \/ Doomed(m)'
    <3>1. \A d \in Callers : d # c /\ WillRemove(d, m) => WillRemove(d, m)'
      BY Zenon, <1>1, <1>2 DEF WillRemove, Covers, Keys
    <3>2. \A id \in DOMAIN tasks : WillReplace(id, m) => id \in DOMAIN tasks' /\ WillReplace(id, m)'
      BY Zenon, <1>2 DEF WillReplace
    <3> QED
      BY Zenon, <1>6, <2>1, <3>1, <3>2 DEF Doomed
  <2>2. \A m \in Sups \X Pids : WillRemove(c, m)' => Doomed(m)'
    BY Zenon DEF Doomed
  <2> QED
    BY Zenon, <1>2, <1>5, <1>6, <2>1, <2>2, DeadFrame
<1>7. ASSUME call[c].pc \notin {"off", "insert"}, restarting' \subseteq restarting
      PROVE  \A m \in Sups \X Pids : Reported(m)' => Reported(m)
  BY Zenon, <1>2, <1>7 DEF Reported
<1>8. ASSUME NEW new, Spawns(c, new), \A m \in Sups \X Pids : WillRemove(c, m) => m[2] \in Keys(new)
      PROVE  \A m \in Sups \X Pids : WillRemove(c, m) => Doomed(m)'
  <2>1. ASSUME NEW m \in Sups \X Pids, WillRemove(c, m) PROVE Doomed(m)'
    <3>1. PICK e \in new : e[1] = m[2]
      BY <1>8, <2>1 DEF Keys
    <3> DEFINE id == <<c[1], c[2], c[3], e[1]>>
    <3>2. id[2] = m[1] /\ id[4] = m[2] /\ <<id[1], id[2], id[3]>> = c
      BY <1>3, <2>1, <3>1 DEF WillRemove, Covers
    <3>3. id \in DOMAIN tasks'
      BY Zenon, <1>8 DEF Spawns
    <3> HIDE DEF id
    <3>4. id \notin DOMAIN tasks
      BY Zenon, <3>2, <1>1, <2>1 DEF Inv, TaskInv, WillRemove, Covers
    <3>5. tasks'[id].pc = "factory"
      BY Zenon, <1>8, <3>3, <3>4 DEF Spawns
    <3>6. WillReplace(id, m)'
      BY <3>2, <3>5 DEF WillReplace
    <3> QED
      BY Zenon, <3>3, <3>6 DEF Doomed
  <2> QED
    BY <2>1
<1>9. CASE DoesDebounce(c)
  <2>1. \A m \in Sups \X Pids : ~WillRemove(c, m)
    BY <1>9 DEF DoesDebounce, WillRemove, Covers
  <2>2. ASSUME NEW m \in Sups \X Pids, Reported(m)', ~Reported(m) PROVE WillRemove(c, m)'
    <3>1. m \notin restarting /\ (m \in restarting' \/ m = Marked(c))
      BY Zenon, <1>2, <1>4, <2>2 DEF Reported
    <3>2. m = Marked(c) /\ call'[c].pc = "lookup"
      BY Zenon, <1>9, <3>1 DEF DoesDebounce, CallTo
    <3> QED
      BY <1>4, <3>2 DEF WillRemove, Covers
  <2> QED
    BY Zenon, <1>6, <2>1, <2>2
<1>10. CASE DoesLookup(c, children[c[2]][c[3]])
  <2>1. call[c].pc = "lookup" /\ restarting' = restarting
    BY Zenon, <1>10 DEF DoesLookup
  <2>2. \A m \in Sups \X Pids : Reported(m)' => Reported(m)
    BY <1>7, <2>1
  <2>3. \A m \in Sups \X Pids : WillRemove(c, m) => m = Marked(c) /\ m[1] = c[2] /\ m[2] = c[3]
    BY <1>4, <2>1 DEF WillRemove, Covers
  <2>4. CASE missed' = missed \cup {Marked(c)}
    BY Zenon, <1>6, <2>2, <2>3, <2>4
  <2>5. CASE children[c[2]][c[3]] \in RestartAll /\ CallTo(c, "collect", call[c].all)
    <3>1. \A m \in Sups \X Pids : WillRemove(c, m) => WillRemove(c, m)'
      BY Zenon, <1>1, <2>3, <2>5 DEF WillRemove, Covers, CallTo, RestartAll
    <3> QED
      BY Zenon, <1>6, <2>2, <3>1 DEF Doomed
  <2>6. CASE Spawns(c, {<<c[3], children[c[2]][c[3]]>>})
    <3>1. c[3] \in Keys({<<c[3], children[c[2]][c[3]]>>})
      BY DEF Keys
    <3> QED
      BY Zenon, <1>6, <1>8, <2>2, <2>3, <2>6, <3>1
  <2> QED
    BY Zenon, <1>10, <2>4, <2>5, <2>6 DEF DoesLookup
<1>11. CASE DoesUnmark(c)
  <2>1. \A m \in Sups \X Pids : ~WillRemove(c, m)
    BY Zenon, <1>11 DEF DoesUnmark, WillRemove
  <2>2. \A m \in Sups \X Pids : Reported(m)' => Reported(m)
    BY <1>7, <1>11 DEF DoesUnmark
  <2> QED
    BY Zenon, <1>6, <2>1, <2>2
<1>12. ASSUME NEW all, NEW pc \in {"iterate", "mark"}, CallTo(c, pc, all), restarting' = restarting,
              call[c].pc \in {"collect", "iterate"},
              \A m \in Sups \X Pids : WillRemove(c, m) => m[2] \in Keys(all)
       PROVE  DeadInv'
  <2>1. \A m \in Sups \X Pids : WillRemove(c, m) => WillRemove(c, m)'
    BY Zenon, <1>1, <1>12 DEF WillRemove, Covers, CallTo
  <2>2. \A m \in Sups \X Pids : Reported(m)' => Reported(m)
    BY Zenon, <1>7, <1>12
  <2> QED
    BY Zenon, <1>6, <2>1, <2>2 DEF Doomed
<1>13. \A m \in Sups \X Pids : c[2] = m[1] /\ children[m[1]][m[2]] # "none" =>
         m[2] \in Keys(Snapshot(c[2]))
  <2>1. ASSUME NEW m \in Sups \X Pids, c[2] = m[1], children[m[1]][m[2]] # "none"
        PROVE  m[2] \in Keys(Snapshot(c[2]))
    <3>1. <<m[2], children[c[2]][m[2]]>> \in Snapshot(c[2])
      BY <2>1 DEF Snapshot, Registered
    <3> QED
      BY <3>1 DEF Keys
  <2> QED
    BY <2>1
<1>14. CASE DoesCollect(c)
  <2>1. \A m \in Sups \X Pids : WillRemove(c, m) => m[2] \in Keys(Snapshot(c[2]))
    BY <1>13, <1>14 DEF DoesCollect, WillRemove, Covers
  <2> QED
    BY <1>12, <1>14, <2>1 DEF DoesCollect
<1>15. CASE DoesIterate(c)
  <2>1. PICK seen \in SUBSET (call[c].all \cup Snapshot(c[2])) :
          /\ Keys(call[c].all) \cap Keys(Snapshot(c[2])) \subseteq Keys(seen)
          /\ CallTo(c, "mark", seen)
    BY Zenon, <1>15 DEF DoesIterate
  <2>2. call[c].pc = "iterate" /\ restarting' = restarting
    BY Zenon, <1>15 DEF DoesIterate
  <2>3. \A m \in Sups \X Pids : WillRemove(c, m) => m[2] \in Keys(seen)
    BY <1>13, <2>1, <2>2 DEF WillRemove, Covers
  <2> QED
    BY Zenon, <1>12, <2>1, <2>2, <2>3
<1>16. CASE DoesMark(c)
  <2>1. /\ call[c].pc = "mark" /\ call'[c].pc = "mark" /\ call'[c].all = call[c].all
        /\ \E p \in Keys(call[c].all) : restarting' = restarting \cup {<<c[2], p>>}
    BY Zenon, <1>16 DEF DoesMark, CallTo
  <2>2. \A m \in Sups \X Pids : WillRemove(c, m)' <=> c[2] = m[1] /\ m[2] \in Keys(call[c].all)
    BY <2>1 DEF WillRemove, Covers
  <2>3. \A m \in Sups \X Pids : WillRemove(c, m) => WillRemove(c, m)'
    BY Zenon, <2>1, <2>2 DEF WillRemove, Covers
  <2>4. \A m \in Sups \X Pids : m \in restarting' => m \in restarting \/ WillRemove(c, m)'
    BY <2>1, <2>2
  <2>5. \A m \in Sups \X Pids : Reported(m)' => Reported(m) \/ WillRemove(c, m)'
    <3>1. call[c].pc \notin {"off", "insert"}
      BY <2>1
    <3> QED
      BY Zenon, <1>2, <2>4, <3>1 DEF Reported
  <2> QED
    BY Zenon, <1>6, <2>3, <2>5 DEF Doomed
<1>17. CASE DoesSpawn(c)
  <2>1. call[c].pc = "mark" /\ restarting' = restarting /\ Spawns(c, call[c].all)
    BY Zenon, <1>17 DEF DoesSpawn
  <2>2. \A m \in Sups \X Pids : WillRemove(c, m) => m[2] \in Keys(call[c].all)
    BY <2>1 DEF WillRemove, Covers
  <2>3. \A m \in Sups \X Pids : Reported(m)' => Reported(m)
    BY <1>7, <2>1
  <2> QED
    BY Zenon, <1>6, <1>8, <2>1, <2>2, <2>3
<1> QED
  BY Zenon, <1>1, <1>9, <1>10, <1>11, <1>14, <1>15, <1>16, <1>17 DEF CallMove

LEMMA DeadTask ==
  ASSUME Inv, HomeInv, FreshInv, DeadInv, NEW id \in DOMAIN tasks, TaskStep(id)
  PROVE  DeadInv'
<1>1. call' = call /\ missed' = missed /\ TaskMove(id)
  BY Zenon, TaskEffect
<1>13. missed \subseteq missed'
  BY <1>1
<1>2. /\ DOMAIN tasks' = DOMAIN tasks
      /\ \A j \in DOMAIN tasks : j # id => tasks'[j] = tasks[j]
  BY Zenon, <1>1 DEF TaskMove, DoesFactory, DoesFail, DoesInsert, DoesRemove, DoesDrop, DoesRelease,
     TaskTo
<1>3. restarting' \subseteq restarting
  BY Zenon, <1>1 DEF TaskMove, DoesFactory, DoesFail, DoesInsert, DoesRemove, DoesDrop, DoesRelease
<1>4. /\ tasks[id].pc = "insert" => tasks[id].new \in Pids /\ tasks[id].spec \in Spec0
      /\ id[2] \in Sups /\ id[4] \in Pids /\ "none" \notin Spec0
  BY Zenon DEF Inv, TaskInv, Tasks, Spec0, Identity, RestartAll
<1>5. \A m \in Sups \X Pids : Reported(m)' => Reported(m)
  BY Zenon, <1>1, <1>3 DEF Reported
<1>6. ASSUME NEW m \in Sups \X Pids, Doomed(m),
             children[m[1]][m[2]] # "none" => children'[m[1]][m[2]] # "none",
             WillReplace(id, m) => tasks'[id].pc \in {"factory", "insert", "remove"}
      PROVE  Doomed(m)'
  <2>1. \A d \in Callers : WillRemove(d, m) => WillRemove(d, m)'
    BY Zenon, <1>1, <1>6 DEF WillRemove, Covers, Keys
  <2>2. \A j \in DOMAIN tasks : WillReplace(j, m) => j \in DOMAIN tasks' /\ WillReplace(j, m)'
    BY Zenon, <1>2, <1>6 DEF WillReplace
  <2> QED
    BY Zenon, <1>6, <2>1, <2>2 DEF Doomed
<1>7. ASSUME tasks[id].pc \in {"factory", "insert"}, tasks'[id].pc \in {"factory", "insert", "remove"},
             \A m \in Sups \X Pids : children[m[1]][m[2]] # "none" => children'[m[1]][m[2]] # "none"
      PROVE  \A m \in Sups \X Pids : Doomed(m) => Doomed(m)'
  BY Zenon, <1>6, <1>7
<1>8. CASE DoesFactory(id)
  <2>1. PICK n \in Pids :
          /\ TaskTo(id, "insert", tasks[id].spec, n)
          /\ \/ tasks[id].spec \in Identity /\ n = id[4]
             \/ n \notin Spawned
    BY Zenon, <1>8 DEF DoesFactory, Spawning
  <2>2. \A m \in Sups \X Pids : Doomed(m) => Doomed(m)'
    BY Zenon, <1>7, <1>8, <2>1 DEF DoesFactory, TaskTo
  <2>3. \A m \in Sups \X Pids : Alive(m)' => Alive(m) \/ (m[1] = id[2] /\ m[2] = n)
    <3>1. children' = children /\ tasks'[id].new = n
      BY Zenon, <1>8, <2>1 DEF DoesFactory, TaskTo
    <3> QED
      BY Zenon, <1>2, <3>1 DEF Alive
  <2>4. ASSUME NEW m \in Sups \X Pids, m[1] = id[2], m[2] = n, Reported(m) PROVE Doomed(m)'
    <3>1. n \in Spawned
      BY Zenon, <2>4 DEF Reported, FreshInv, HomeInv, UpInv
    <3>2. n = id[4] /\ tasks'[id].pc = "insert"
      BY Zenon, <2>1, <3>1 DEF TaskTo
    <3>3. WillReplace(id, m)'
      BY Zenon, <2>4, <3>2 DEF WillReplace
    <3> QED
      BY Zenon, <1>2, <3>3 DEF Doomed
  <2> QED
    BY Zenon, <1>1, <1>5, <2>2, <2>3, <2>4 DEF DeadInv
<1>9. CASE DoesFail(id)
  <2>1. tasks[id].pc = "factory" /\ tasks'[id].pc \in {"factory", "remove"} /\ children' = children
    BY Zenon, <1>9 DEF DoesFail, TaskTo
  <2>2. \A m \in Sups \X Pids : Doomed(m) => Doomed(m)'
    BY <1>7, <2>1
  <2>3. tasks'[id].pc # "insert"
    BY <2>1
  <2>4. \A m \in Sups \X Pids : Alive(m)' => Alive(m)
    BY <1>2, <2>1, <2>3 DEF Alive
  <2> QED
    BY Zenon, <1>5, <1>13, <2>2, <2>4, DeadFrame
<1>10. CASE DoesInsert(id)
  <2>1. /\ tasks[id].pc = "insert" /\ tasks'[id].pc = "remove"
        /\ ChildTo(id[2], tasks[id].new, tasks[id].spec)
    BY Zenon, <1>10 DEF DoesInsert, TaskTo
  <2>2. \A m \in Sups \X Pids :
          /\ children[m[1]][m[2]] # "none" => children'[m[1]][m[2]] # "none"
          /\ children'[m[1]][m[2]] # "none" =>
               children[m[1]][m[2]] # "none" \/ (id[2] = m[1] /\ tasks[id].new = m[2])
    BY <1>4, <2>1 DEF ChildTo
  <2>3. \A m \in Sups \X Pids : Doomed(m) => Doomed(m)'
    BY <1>7, <2>1, <2>2
  <2>4. tasks'[id].pc # "insert"
    BY <2>1
  <2>5. ASSUME NEW m \in Sups \X Pids, Alive(m)' PROVE Alive(m)
    <3>1. CASE children'[m[1]][m[2]] # "none"
      BY Zenon, <2>1, <2>2, <3>1 DEF Alive
    <3>2. CASE \E j \in DOMAIN tasks' :
                 j[2] = m[1] /\ tasks'[j].pc = "insert" /\ tasks'[j].new = m[2]
      BY Zenon, <1>2, <2>4, <3>2 DEF Alive
    <3> QED
      BY Zenon, <2>5, <3>1, <3>2 DEF Alive
  <2> QED
    BY Zenon, <1>5, <1>13, <2>3, <2>5, DeadFrame
<1>11. CASE DoesRemove(id)
  <2>1. tasks'[id].pc = "links" /\ ChildTo(id[2], id[4], "none")
    BY Zenon, <1>11 DEF DoesRemove, TaskTo
  <2>2. \A m \in Sups \X Pids :
          /\ children'[m[1]][m[2]] # "none" => children[m[1]][m[2]] # "none"
          /\ ~(id[2] = m[1] /\ id[4] = m[2]) => children'[m[1]][m[2]] = children[m[1]][m[2]]
          /\ id[2] = m[1] /\ id[4] = m[2] => children'[m[1]][m[2]] = "none"
    BY <2>1 DEF ChildTo
  <2>3. tasks'[id].pc # "insert"
    BY <2>1
  <2>4. \A m \in Sups \X Pids : Alive(m)' => Alive(m)
    BY Zenon, <1>2, <2>2, <2>3 DEF Alive
  <2>5. ASSUME NEW m \in Sups \X Pids, Alive(m)', Doomed(m) PROVE Doomed(m)'
    <3>1. CASE id[2] = m[1] /\ id[4] = m[2]
      <4>1. PICK j \in DOMAIN tasks : j # id /\ j[2] = m[1] /\ tasks[j].pc = "insert" /\ tasks[j].new = m[2]
        BY Zenon, <1>2, <2>2, <2>3, <2>5, <3>1 DEF Alive
      <4>2. Known(m[2])
        BY Zenon, <3>1 DEF Known
      <4>3. tasks[j].spec \in Identity
        <5>1. m[2] \in Pids /\ ~Awaits(j, m[2])
          BY Zenon, <1>4, <3>1, <4>2 DEF FreshInv
        <5> QED
          BY Zenon, <4>1, <5>1 DEF Awaits
      <4>4. j[4] = m[2]
        BY Zenon, <4>1, <4>3 DEF FreshInv
      <4>5. WillReplace(j, m)'
        BY <1>2, <4>1, <4>4 DEF WillReplace
      <4> QED
        BY Zenon, <1>2, <4>5 DEF Doomed
    <3>2. CASE ~(id[2] = m[1] /\ id[4] = m[2])
      BY Zenon, <1>6, <2>2, <2>5, <3>2 DEF WillReplace
    <3> QED
      BY <3>1, <3>2
  <2> QED
    BY Zenon, <1>5, <1>13, <2>4, <2>5, DeadFrame
<1>12. CASE DoesDrop(id) \/ DoesRelease(id)
  <2>1. /\ tasks[id].pc \notin {"factory", "insert", "remove"} /\ tasks'[id].pc # "insert"
        /\ children' = children
    BY <1>12 DEF DoesDrop, DoesRelease, TaskTo
  <2>2. \A m \in Sups \X Pids : Doomed(m) => Doomed(m)'
    BY Zenon, <1>6, <2>1 DEF WillReplace
  <2>3. \A m \in Sups \X Pids : Alive(m)' => Alive(m)
    BY Zenon, <1>2, <2>1 DEF Alive
  <2> QED
    BY Zenon, <1>5, <1>13, <2>2, <2>3, DeadFrame
<1> QED
  BY Zenon, <1>1, <1>8, <1>9, <1>10, <1>11, <1>12 DEF TaskMove
-----------------------------------------------------------------------------
(* An exit path that is past a supervisor has been through its             *)
(* notify_exit, unless it missed the supervisor.                           *)
PathInv ==
  \A p \in Pids :
    /\ phase[p] \in {"paths", "signal", "dead"} => call[<<"exit", 0, p>>].pc = "done"
    /\ phase[p] \in {"signal", "dead"} => \A s \in PathSups :
         call[<<"exit", s, p>>].pc = "done" \/ <<s, p>> \in missed

LEMMA PathFrame ==
  ASSUME PathInv, missed \subseteq missed', \A c \in Callers : call[c].pc = "done" => call'[c].pc = "done",
         \A p \in Pids : phase'[p] \in {"paths", "signal", "dead"} =>
           phase'[p] = phase[p] \/ phase[p] = "signal"
  PROVE  PathInv'
<1>1. ASSUME NEW p \in Pids PROVE <<"exit", 0, p>> \in Callers /\ \A s \in PathSups : <<"exit", s, p>> \in Callers
  BY ExitCaller DEF Sups
<1> QED
  BY Zenon, <1>1 DEF PathInv

LEMMA PathsPath ==
  ASSUME Inv, PathInv, NEW p \in Pids, ActorEnds(p) \/ ExitStep(p) \/ MonitorDown(p)
  PROVE  PathInv'
<1>1. PathMove
  BY Zenon, PathEffect
<1>2. missed \subseteq missed' /\ \A c \in Callers : call[c].pc = "done" => call'[c].pc = "done"
  BY <1>1 DEF PathMove, Begins, CallTo
<1>3. CASE phase' = phase \/ phase[p] = "signal"
            \/ \E to \in {"unmap", "notify"} : phase' = [phase EXCEPT ![p] = to]
  <2>1. CASE phase[p] = "signal"
    <3>1. phase' = phase \/ phase' = [phase EXCEPT ![p] = "dead"]
      BY Zenon, <2>1 DEF ActorEnds, ExitStep, Unmap, IteratePaths, TakeLinks, Iterated, Signal,
         VisitPath,
         Visit, MonitorDown
    <3>2. \A q \in Pids : phase'[q] \in {"paths", "signal", "dead"} =>
            phase'[q] = phase[q] \/ phase[q] = "signal"
      BY <2>1, <3>1 DEF Inv, Types
    <3> QED
      BY Zenon, <1>2, <3>2, PathFrame
  <2>2. CASE phase' = phase \/ \E to \in {"unmap", "notify"} : phase' = [phase EXCEPT ![p] = to]
    <3>1. \A q \in Pids : phase'[q] \in {"paths", "signal", "dead"} => phase'[q] = phase[q]
      BY <2>2 DEF Inv, Types
    <3> QED
      BY Zenon, <1>2, <3>1, PathFrame
  <2> QED
    BY <1>3, <2>1, <2>2
<1>4. CASE IteratePaths(p)
  <2>1. /\ phase' = [phase EXCEPT ![p] = "paths"] /\ call[<<"exit", 0, p>>].pc = "done"
        /\ call' = call /\ missed' = missed
    BY Zenon, <1>4 DEF IteratePaths, histVars
  <2> QED
    BY Zenon, <2>1 DEF PathInv, Inv, Types
<1>5. CASE TakeLinks(p)
  <2>1. /\ phase[p] = "paths" /\ phase' = [phase EXCEPT ![p] = "signal"] /\ call' = call
        /\ \A s \in PathSups : call[<<"exit", s, p>>].pc \in {"off", "done"}
        /\ missed' = missed \cup {<<s, p>> : s \in {t \in PathSups : call[<<"exit", t, p>>].pc = "off"}}
    BY Zenon, <1>5 DEF TakeLinks, Iterated, NotVisiting
  <2>2. \A s \in PathSups : call[<<"exit", s, p>>].pc = "done" \/ <<s, p>> \in missed'
    BY <2>1
  <2> QED
    BY Zenon, <1>2, <2>1, <2>2 DEF PathInv, Inv, Types
<1>6. CASE ActorEnds(p) \/ Unmap(p) \/ Signal(p) \/ MonitorDown(p) \/ \E s \in PathSups : VisitPath(p, s)
  BY Zenon, <1>3, <1>6 DEF ActorEnds, Unmap, Signal, VisitPath, Visit, MonitorDown
<1> QED
  BY Zenon, <1>4, <1>5, <1>6 DEF ExitStep

LEMMA PathsOther ==
  ASSUME Inv, PathInv,
         \/ UNCHANGED vars \/ \E r \in cleaning : RetainPeer(r)
         \/ \E c \in Callers : NotifyStep(c)
         \/ \E id \in DOMAIN tasks : TaskStep(id)
  PROVE  PathInv'
<1>1. CASE UNCHANGED vars \/ \E r \in cleaning : RetainPeer(r)
  <2>1. UNCHANGED <<phase, call, missed>>
    BY Zenon, <1>1 DEF vars, RetainPeer, histVars
  <2> QED
    BY Zenon, <2>1 DEF PathInv
<1>2. ASSUME NEW c \in Callers, NotifyStep(c) PROVE PathInv'
  <2>1. phase' = phase /\ call[c].pc # "done" /\ CallMove(c)
    BY Zenon, <1>2, CallEffect
  <2>2. missed \subseteq missed' /\ \A d \in Callers : d # c => call'[d] = call[d]
    BY Zenon, <2>1 DEF CallMove, DoesDebounce, DoesLookup, DoesUnmark, DoesCollect, DoesIterate,
       DoesMark, DoesSpawn, CallTo, Keeps
  <2>3. \A d \in Callers : call[d].pc = "done" => call'[d].pc = "done"
    BY Zenon, <2>1, <2>2
  <2> QED
    BY Zenon, <2>1, <2>2, <2>3, PathFrame
<1>3. ASSUME NEW id \in DOMAIN tasks, TaskStep(id) PROVE PathInv'
  <2>1. call' = call /\ missed' = missed /\ (phase' = phase \/ \E n \in Pids : Spawning(n))
    BY Zenon, <1>3, TaskEffect DEF TaskMove, DoesFactory, DoesFail, DoesInsert, DoesRemove,
       DoesDrop, DoesRelease, Still
  <2>2. \A q \in Pids : phase'[q] \in {"paths", "signal", "dead"} => phase'[q] = phase[q]
    BY <2>1 DEF Spawning
  <2>3. missed \subseteq missed'
    BY <2>1
  <2> QED
    BY Zenon, <2>1, <2>2, <2>3, PathFrame
<1> QED
  BY Zenon, <1>1, <1>2, <1>3
-----------------------------------------------------------------------------
(* Without RestartAll a mark belongs to one caller that looks the child up *)
(* or takes the mark back, or to one restart task.                         *)
Looks(c) == call[c].pc \in {"lookup", "unmark"}

NoWave ==
  /\ \A s \in Sups, p \in Pids : children[s][p] \notin RestartAll
  /\ \A c \in Callers : call[c].pc \notin {"collect", "iterate", "mark"}
  /\ \A id \in DOMAIN tasks : id[3] = id[4] /\ tasks[id].spec \notin RestartAll

LookInv ==
  \A c \in Callers : Looks(c) =>
    /\ Marked(c) \in restarting
    /\ \A d \in Callers : Looks(d) /\ Marked(d) = Marked(c) => d = c

SingleInv ==
  \A id \in DOMAIN tasks :
    /\ tasks[id].pc # "end" =>
         /\ <<id[2], id[4]>> \in restarting
         /\ \A c \in Callers : Looks(c) => Marked(c) # <<id[2], id[4]>>
    /\ tasks[id].pc \in {"links", "release", "end"} => children[id[2]][id[4]] = "none"
    /\ \A j \in DOMAIN tasks : j[2] = id[2] /\ j[4] = id[4] => j = id

OneInv == NoWave /\ LookInv /\ SingleInv

NoAll == \A s \in Sups, p \in Pids : Initially(s, p) \notin RestartAll

LEMMA OneInit == ASSUME Init, NoAll PROVE OneInv
<1>1. DOMAIN tasks = {} /\ \A c \in Callers : call[c].pc = "off"
  BY DEF Init
<1>2. \A s \in Sups, p \in Pids : children[s][p] = Initially(s, p)
  BY DEF Init
<1> QED
  BY <1>1, <1>2 DEF NoAll, OneInv, NoWave, LookInv, SingleInv, Looks

LEMMA OnePath ==
  ASSUME OneInv, PathMove
  PROVE  OneInv'
<1>1. UNCHANGED <<children, restarting, tasks>>
  BY Zenon DEF PathMove
<1>2. \A c \in Callers : call'[c] = call[c] \/ (~Looks(c) /\ call'[c].pc \in {"insert", "done"})
  BY DEF PathMove, Begins, CallTo, Looks
<1>3. \A c \in Callers : Looks(c)' <=> Looks(c)
  BY <1>2 DEF Looks
<1>4. NoWave'
  BY <1>1, <1>2 DEF OneInv, NoWave
<1>5. LookInv' /\ SingleInv'
  BY Zenon, <1>1, <1>3 DEF OneInv, LookInv, SingleInv, Marked
<1> QED
  BY <1>4, <1>5 DEF OneInv

LEMMA OneCall ==
  ASSUME Inv, OneInv, NEW c \in Callers, NotifyStep(c)
  PROVE  OneInv'
<1> DEFINE M == Marked(c)
           s == children[c[2]][c[3]]
<1>1. UNCHANGED children /\ CallMove(c) /\ s \notin RestartAll /\ call[c].pc \notin {"collect", "iterate", "mark"}
  BY CallEffect, CallerForm DEF OneInv, NoWave
<1>2. DoesDebounce(c) \/ DoesLookup(c, s) \/ DoesUnmark(c)
  BY Zenon, <1>1 DEF CallMove, DoesCollect, DoesIterate, DoesMark, DoesSpawn
<1>3. \A d \in Callers : d # c => call'[d] = call[d]
  BY Zenon, <1>2 DEF DoesDebounce, DoesLookup, DoesUnmark, CallTo
<1>4. \A d \in Callers : d # c => (Looks(d)' <=> Looks(d))
  BY Zenon, <1>3 DEF Looks
<1>5. call'[c].pc \in {"done", "lookup", "unmark"}
  BY Zenon, <1>1, <1>2 DEF DoesDebounce, DoesLookup, DoesUnmark, CallTo
<1>6. tasks' = tasks => NoWave'
  BY <1>1, <1>3, <1>5 DEF OneInv, NoWave
<1>7. CASE DoesDebounce(c)
  <2>1. ~Looks(c) /\ restarting' = restarting \cup {M} /\ tasks' = tasks
    BY <1>7 DEF DoesDebounce, Looks, Keeps
  <2>2. CASE M \in restarting
    <3>1. restarting' = restarting /\ ~Looks(c)'
      BY <1>7, <2>1, <2>2 DEF DoesDebounce, CallTo, Looks
    <3>2. \A d \in Callers : Looks(d)' <=> Looks(d)
      BY Zenon, <1>4, <2>1, <3>1
    <3>3. LookInv' /\ SingleInv'
      BY Zenon, <1>1, <2>1, <3>1, <3>2 DEF OneInv, LookInv, SingleInv, Marked
    <3> QED
      BY Zenon, <1>6, <2>1, <3>3 DEF OneInv
  <2>3. CASE M \notin restarting
    <3>1. \A d \in Callers : d # c /\ Looks(d) => Marked(d) \in restarting /\ Marked(d) # M
      BY Zenon, <2>3 DEF OneInv, LookInv
    <3>2. \A id \in DOMAIN tasks : tasks[id].pc # "end" => M # <<id[2], id[4]>>
      BY Zenon, <2>3 DEF OneInv, SingleInv
    <3> HIDE DEF M
    <3>3. LookInv'
      <4>1. ASSUME NEW d \in Callers, Looks(d)' PROVE Marked(d) \in restarting'
        BY <1>4, <2>1, <3>1, <4>1 DEF M
      <4>2. ASSUME NEW d \in Callers, NEW e \in Callers, Looks(d)', Looks(e)', Marked(d) = Marked(e)
            PROVE  d = e
        BY Zenon, <1>4, <3>1, <4>2 DEF M, OneInv, LookInv
      <4> QED
        BY Zenon, <4>1, <4>2 DEF LookInv, Marked
    <3>4. \A id \in DOMAIN tasks : tasks[id].pc # "end" =>
         /\ <<id[2], id[4]>> \in restarting'
         /\ \A d \in Callers : Looks(d)' => Marked(d) # <<id[2], id[4]>>
      <4>1. \A id \in DOMAIN tasks : tasks[id].pc # "end" => <<id[2], id[4]>> \in restarting'
        BY <2>1 DEF OneInv, SingleInv
      <4> QED
        BY Zenon, <1>4, <3>2, <4>1 DEF OneInv, SingleInv, M
    <3>5. SingleInv'
      BY Zenon, <1>1, <2>1, <3>4 DEF OneInv, SingleInv, Marked
    <3> QED
      BY Zenon, <1>6, <2>1, <3>3, <3>5 DEF OneInv
  <2> QED
    BY <2>2, <2>3
<1>8. CASE DoesUnmark(c)
  <2>1. Looks(c) /\ ~Looks(c)' /\ restarting' = restarting \ {M} /\ tasks' = tasks
    BY <1>8 DEF DoesUnmark, Looks, Keeps, CallTo
  <2>2. \A d \in Callers : d # c /\ Looks(d) => Marked(d) # M
    BY Zenon, <2>1 DEF OneInv, LookInv
  <2>3. \A id \in DOMAIN tasks : tasks[id].pc # "end" => M # <<id[2], id[4]>>
    BY Zenon, <2>1 DEF OneInv, SingleInv
  <2> HIDE DEF M
  <2>4. LookInv'
    <3>1. \A d \in Callers : Looks(d)' => Looks(d) /\ Marked(d) # M
      BY Zenon, <1>4, <2>1, <2>2
    <3>2. \A d \in Callers : Looks(d)' => Marked(d) \in restarting'
      BY <2>1, <3>1 DEF OneInv, LookInv
    <3> QED
      BY Zenon, <3>1, <3>2 DEF OneInv, LookInv, Marked
  <2>5. \A id \in DOMAIN tasks : tasks[id].pc # "end" => <<id[2], id[4]>> \in restarting'
    BY <2>1, <2>3 DEF OneInv, SingleInv
  <2>6. SingleInv'
    BY Zenon, <1>1, <1>4, <2>1, <2>5 DEF OneInv, SingleInv, Marked
  <2> QED
    BY Zenon, <1>6, <2>1, <2>4, <2>6 DEF OneInv
<1>9. CASE DoesLookup(c, s)
  <2>1. Looks(c) /\ restarting' = restarting
    BY <1>9 DEF DoesLookup, Looks
  <2>2. \A d \in Callers : Looks(d)' => Looks(d)
    BY Zenon, <1>4, <2>1
  <2>3. LookInv'
    BY Zenon, <2>1, <2>2 DEF OneInv, LookInv, Marked
  <2>4. CASE tasks' = tasks
    <3>1. SingleInv'
      BY Zenon, <1>1, <2>1, <2>2, <2>4 DEF OneInv, SingleInv, Marked
    <3> QED
      BY Zenon, <1>6, <2>3, <2>4, <3>1 DEF OneInv
  <2>5. CASE s # "none" /\ Spawns(c, {<<c[3], s>>}) /\ CallTo(c, "done", call[c].all)
    <3>1. ~Looks(c)' /\ c[2] \in Sups /\ c[3] \in Pids /\ M = <<c[2], c[3]>>
      BY <2>5, CallerForm DEF Looks, CallTo, Marked
    <3>2. ASSUME NEW id \in DOMAIN tasks', id \notin DOMAIN tasks
          PROVE  /\ id = <<c[1], c[2], c[3], c[3]>> /\ id[2] = c[2] /\ id[3] = c[3]
                 /\ id[4] = c[3] /\ tasks'[id].pc = "factory" /\ tasks'[id].spec = s
      <4>1. id \in {<<c[1], c[2], c[3], e[1]>> : e \in {<<c[3], s>>}}
        BY Zenon, <2>5, <3>2 DEF Spawns
      <4>2. id = <<c[1], c[2], c[3], c[3]>>
        BY <4>1
      <4>3. tasks'[id].pc = "factory" /\ <<id[4], tasks'[id].spec>> \in {<<c[3], s>>}
        BY Zenon, <2>5, <3>2 DEF Spawns
      <4> QED
        BY <4>2, <4>3
    <3>3. \A id \in DOMAIN tasks : id \in DOMAIN tasks' /\ tasks'[id] = tasks[id]
      BY Zenon, <2>5 DEF Spawns
    <3>4. \A j \in DOMAIN tasks : ~(j[2] = c[2] /\ j[4] = c[3])
      <4>1. \A j \in DOMAIN tasks : <<j[2], j[4]>> = M =>
              tasks[j].pc = "end" /\ children[j[2]][j[4]] = "none"
        BY <2>1 DEF OneInv, SingleInv
      <4> QED
        BY Zenon, <2>5, <3>1, <4>1
    <3>5. NoWave'
      BY <1>1, <1>3, <1>5, <3>2, <3>3 DEF OneInv, NoWave
    <3> HIDE DEF s
    <3>6. ASSUME NEW id \in DOMAIN tasks', id \notin DOMAIN tasks
          PROVE  /\ tasks'[id].pc = "factory" /\ <<id[2], id[4]>> \in restarting'
                 /\ \A d \in Callers : Looks(d)' => Marked(d) # <<id[2], id[4]>>
                 /\ \A j \in DOMAIN tasks' : j[2] = id[2] /\ j[4] = id[4] => j = id
      <4>1. <<id[2], id[4]>> = M /\ tasks'[id].pc = "factory" /\ id[2] = c[2] /\ id[4] = c[3]
        BY Zenon, <3>1, <3>2, <3>6
      <4>2. M \in restarting /\ \A d \in Callers : Looks(d) /\ Marked(d) = M => d = c
        BY Zenon, <2>1 DEF OneInv, LookInv
      <4>3. \A j \in DOMAIN tasks' : j[2] = id[2] /\ j[4] = id[4] => j = id
        BY Zenon, <3>2, <3>4, <3>6, <4>1
      <4> HIDE DEF M
      <4> QED
        BY Zenon, <2>1, <2>2, <3>1, <4>1, <4>2, <4>3
    <3>7. ASSUME NEW id \in DOMAIN tasks
          PROVE  /\ tasks'[id].pc # "end" =>
                      /\ <<id[2], id[4]>> \in restarting'
                      /\ \A d \in Callers : Looks(d)' => Marked(d) # <<id[2], id[4]>>
                 /\ tasks'[id].pc \in {"links", "release", "end"} => children'[id[2]][id[4]] = "none"
                 /\ \A j \in DOMAIN tasks' : j[2] = id[2] /\ j[4] = id[4] => j = id
      <4>1. \A j \in DOMAIN tasks' : j[2] = id[2] /\ j[4] = id[4] => j \in DOMAIN tasks
        BY Zenon, <3>2, <3>4
      <4> QED
        BY Zenon, <1>1, <2>1, <2>2, <3>3, <4>1 DEF OneInv, SingleInv
    <3>8. SingleInv'
      <4>1. \A id \in DOMAIN tasks' : id \notin DOMAIN tasks =>
              tasks'[id].pc \notin {"links", "release", "end"}
        BY Zenon, <3>6
      <4> QED
        BY Zenon, <3>6, <3>7, <4>1 DEF SingleInv, Marked
    <3> QED
      BY Zenon, <2>3, <3>5, <3>8 DEF OneInv
  <2>6. s \in Spec0 => s # "none"
    BY DEF Spec0, Identity, RestartAll
  <2> QED
    BY Zenon, <1>1, <1>9, <2>4, <2>5, <2>6 DEF DoesLookup, Keeps
<1> QED
  BY <1>2, <1>7, <1>8, <1>9

LEMMA OneTask ==
  ASSUME Inv, FreshInv, OneInv, NEW id \in DOMAIN tasks, TaskStep(id)
  PROVE  OneInv'
<1>1. call' = call /\ TaskMove(id)
  BY Zenon, TaskEffect
<1>2. /\ DOMAIN tasks' = DOMAIN tasks
      /\ \A j \in DOMAIN tasks : j # id => tasks'[j] = tasks[j]
  BY Zenon, <1>1 DEF TaskMove, DoesFactory, DoesFail, DoesInsert, DoesRemove, DoesDrop, DoesRelease,
     TaskTo
<1>3. tasks'[id].spec \in {tasks[id].spec, "none"} /\ tasks[id].pc # "end"
  BY Zenon, <1>1 DEF TaskMove, DoesFactory, DoesFail, DoesInsert, DoesRemove, DoesDrop,
     DoesRelease, TaskTo
<1>4. \A c \in Callers : Looks(c)' <=> Looks(c)
  BY Zenon, <1>1 DEF Looks
<1>5. /\ id[2] \in Sups /\ id[4] \in Pids /\ tasks[id].pc = "insert" => tasks[id].new \in Pids
      /\ \A j \in DOMAIN tasks : j[2] \in Sups /\ j[4] \in Pids
  BY Zenon DEF Inv, TaskInv, Tasks
<1>6. ASSUME \A s \in Sups, p \in Pids : children'[s][p] \notin RestartAll PROVE NoWave'
  <2>1. tasks'[id].spec \notin RestartAll
    BY <1>3 DEF OneInv, NoWave, RestartAll
  <2> QED
    BY Zenon, <1>1, <1>2, <1>6, <2>1 DEF OneInv, NoWave
<1>7. restarting' = restarting => LookInv'
  BY Zenon, <1>4 DEF OneInv, LookInv, Marked
<1>8. ASSUME restarting' = restarting,
             \A j \in DOMAIN tasks : tasks'[j].pc \in {"links", "release", "end"} =>
               children'[j[2]][j[4]] = "none",
             tasks'[id].pc # "end"
      PROVE  SingleInv'
  BY Zenon, <1>2, <1>3, <1>4, <1>8 DEF OneInv, SingleInv, Marked
<1>9. CASE DoesFactory(id) \/ DoesFail(id) \/ DoesDrop(id)
  <2>1. /\ restarting' = restarting /\ children' = children /\ tasks'[id].pc # "end"
        /\ tasks'[id].pc \in {"links", "release", "end"} => tasks[id].pc = "links"
    BY Zenon, <1>9 DEF DoesFactory, DoesFail, DoesDrop, TaskTo
  <2>2. \A j \in DOMAIN tasks : tasks'[j].pc \in {"links", "release", "end"} =>
          children'[j[2]][j[4]] = "none"
    BY Zenon, <1>2, <2>1 DEF OneInv, SingleInv
  <2>3. NoWave'
    BY Zenon, <1>6, <2>1 DEF OneInv, NoWave
  <2> QED
    BY Zenon, <1>7, <1>8, <2>1, <2>2, <2>3 DEF OneInv
<1>10. CASE DoesInsert(id)
  <2> DEFINE n == tasks[id].new
  <2>1. /\ restarting' = restarting /\ tasks'[id].pc = "remove" /\ tasks[id].pc = "insert" /\ n \in Pids
        /\ ChildTo(id[2], n, tasks[id].spec)
    BY Zenon, <1>5, <1>10 DEF DoesInsert, TaskTo
  <2>2. ASSUME NEW j \in DOMAIN tasks, j # id PROVE ~(j[2] = id[2] /\ j[4] = n)
    <3>1. CASE tasks[id].spec \in Identity
      <4>1. n = id[4]
        BY Zenon, <2>1, <3>1 DEF FreshInv
      <4> QED
        BY Zenon, <2>2, <4>1 DEF OneInv, SingleInv
    <3>2. CASE tasks[id].spec \notin Identity
      <4>1. Awaits(id, n)
        BY Zenon, <2>1, <3>2 DEF Awaits
      <4>2. ~Known(n)
        BY Zenon, <2>1, <4>1 DEF FreshInv
      <4> QED
        BY Zenon, <4>2 DEF Known
    <3> QED
      BY <3>1, <3>2
  <2> HIDE DEF n
  <2>3. \A j \in DOMAIN tasks : tasks'[j].pc \in {"links", "release", "end"} =>
          children'[j[2]][j[4]] = "none"
    <3>1. ASSUME NEW j \in DOMAIN tasks, tasks'[j].pc \in {"links", "release", "end"}
          PROVE  children'[j[2]][j[4]] = "none"
      <4>1. j # id /\ tasks'[j] = tasks[j]
        BY <1>2, <2>1, <3>1
      <4>2. children[j[2]][j[4]] = "none"
        BY Zenon, <3>1, <4>1 DEF OneInv, SingleInv
      <4> QED
        BY <1>5, <2>1, <2>2, <4>1, <4>2 DEF ChildTo
    <3> QED
      BY <3>1
  <2>4. NoWave'
    <3>1. \A s \in Sups, p \in Pids : children'[s][p] \notin RestartAll
      BY <2>1 DEF ChildTo, OneInv, NoWave
    <3> QED
      BY <1>6, <3>1
  <2>5. SingleInv'
    BY Zenon, <1>8, <2>1, <2>3
  <2> QED
    BY Zenon, <1>7, <2>1, <2>4, <2>5 DEF OneInv
<1>11. CASE DoesRemove(id)
  <2>1. restarting' = restarting /\ tasks'[id].pc = "links" /\ ChildTo(id[2], id[4], "none")
    BY Zenon, <1>11 DEF DoesRemove, TaskTo
  <2>2. \A j \in DOMAIN tasks : tasks'[j].pc \in {"links", "release", "end"} =>
          children'[j[2]][j[4]] = "none"
    <3>1. ASSUME NEW j \in DOMAIN tasks, tasks'[j].pc \in {"links", "release", "end"}, j # id
          PROVE children[j[2]][j[4]] = "none"
      BY Zenon, <1>2, <3>1 DEF OneInv, SingleInv
    <3> QED
      BY <1>5, <2>1, <3>1 DEF ChildTo
  <2>3. NoWave'
    <3>1. \A s \in Sups, p \in Pids : children'[s][p] \notin RestartAll
      BY <2>1 DEF ChildTo, OneInv, NoWave, RestartAll
    <3> QED
      BY <1>6, <3>1
  <2>4. SingleInv'
    BY <1>8, <2>1, <2>2
  <2> QED
    BY Zenon, <1>7, <2>1, <2>3, <2>4 DEF OneInv
<1>12. CASE DoesRelease(id)
  <2> DEFINE m == <<id[2], id[4]>>
  <2>1. /\ restarting' = restarting \ {m} /\ children' = children /\ tasks'[id].pc = "end"
        /\ tasks[id].pc = "release"
    BY Zenon, <1>12 DEF DoesRelease, TaskTo
  <2>2. /\ \A c \in Callers : Looks(c) => Marked(c) # m
        /\ \A j \in DOMAIN tasks : j # id => <<j[2], j[4]>> # m
        /\ children[id[2]][id[4]] = "none"
    BY Zenon, <1>3, <2>1 DEF OneInv, SingleInv
  <2> HIDE DEF m
  <2>3. LookInv'
    <3>1. \A c \in Callers : Looks(c)' => Marked(c) \in restarting'
      BY Zenon, <1>4, <2>1, <2>2 DEF OneInv, LookInv
    <3> QED
      BY Zenon, <1>4, <3>1 DEF OneInv, LookInv, Marked
  <2>4. \A j \in DOMAIN tasks : tasks'[j].pc # "end" => j # id /\ <<j[2], j[4]>> \in restarting'
    BY <1>2, <2>1, <2>2 DEF OneInv, SingleInv
  <2>5. \A j \in DOMAIN tasks : tasks'[j].pc \in {"links", "release", "end"} =>
          children'[j[2]][j[4]] = "none"
    BY Zenon, <1>2, <2>1, <2>2 DEF OneInv, SingleInv
  <2>6. SingleInv'
    BY Zenon, <1>2, <1>4, <2>4, <2>5 DEF OneInv, SingleInv, Marked
  <2>7. NoWave'
    BY <1>6, <2>1 DEF OneInv, NoWave
  <2> QED
    BY Zenon, <2>3, <2>6, <2>7 DEF OneInv
<1> QED
  BY Zenon, <1>1, <1>9, <1>10, <1>11, <1>12 DEF TaskMove
-----------------------------------------------------------------------------
(* A child with a factory is replaced by tasks that spawn: the kind of a   *)
(* child does not change under a task.                                     *)
Spawnable(s, p) ==
  /\ \A id \in DOMAIN tasks : id[2] = s /\ id[4] = p => tasks[id].spec \notin Identity
  /\ \A c \in Callers, spec \in Identity : c[2] = s => <<p, spec>> \notin call[c].all

KindInv ==
  \A s \in Sups, p \in Pids : children[s][p] \in Identity \cup {"none"} \/ Spawnable(s, p)

LEMMA KindInit == ASSUME Init PROVE KindInv
<1>1. DOMAIN tasks = {} /\ \A c \in Callers : call[c].all = {}
  BY DEF Init
<1> QED
  BY <1>1 DEF KindInv, Spawnable

LEMMA KindPath ==
  ASSUME KindInv, PathMove
  PROVE  KindInv'
<1>1. \A c \in Callers : call'[c].all = call[c].all
  BY Zenon DEF PathMove, Begins, CallTo
<1> QED
  BY Zenon, <1>1 DEF KindInv, Spawnable, PathMove

LEMMA KindCall ==
  ASSUME Inv, KindInv, NEW c \in Callers, NotifyStep(c)
  PROVE  KindInv'
<1> DEFINE s == children[c[2]][c[3]]
<1>1. children' = children /\ CallMove(c)
  BY Zenon, CallEffect
<1>2. /\ \A d \in Callers : d # c => call'[d] = call[d]
      /\ call'[c].all \subseteq call[c].all \cup Snapshot(c[2])
      /\ tasks' = tasks \/ Spawns(c, {<<c[3], s>>}) \/ Spawns(c, call[c].all)
  BY Zenon, <1>1 DEF CallMove, DoesDebounce, DoesLookup, DoesUnmark, DoesCollect, DoesIterate,
     DoesMark, DoesSpawn, CallTo, Keeps
<1>3. ASSUME NEW t \in Sups, NEW p \in Pids, children[t][p] \notin Identity \cup {"none"}
      PROVE  Spawnable(t, p)'
  <2>1. Spawnable(t, p)
    BY Zenon, <1>3 DEF KindInv
  <2>2. c[2] = t => \A spec \in Identity : <<p, spec>> \notin Snapshot(c[2])
    BY <1>3 DEF Snapshot, Registered
  <2>3. \A d \in Callers, spec \in Identity : d[2] = t => <<p, spec>> \notin call'[d].all
    BY Zenon, <1>2, <2>1, <2>2 DEF Spawnable
  <2>4. ASSUME NEW id \in DOMAIN tasks', id[2] = t, id[4] = p PROVE tasks'[id].spec \notin Identity
    <3>1. CASE id \in DOMAIN tasks
      BY Zenon, <1>2, <2>1, <2>4, <3>1 DEF Spawnable, Spawns
    <3>2. CASE id \notin DOMAIN tasks
      <4>1. /\ <<id[1], id[2], id[3]>> = c
            /\ <<id[4], tasks'[id].spec>> \in {<<c[3], s>>} \/ <<id[4], tasks'[id].spec>> \in call[c].all
        BY Zenon, <1>2, <2>4, <3>2 DEF Spawns
      <4>2. c[2] = t
        BY <2>4, <4>1
      <4>3. CASE <<id[4], tasks'[id].spec>> \in {<<c[3], s>>}
        <5>1. c[3] = p /\ tasks'[id].spec = children[t][p]
          BY <2>4, <4>2, <4>3
        <5> QED
          BY <1>3, <5>1
      <4>4. CASE <<p, tasks'[id].spec>> \in call[c].all
        BY Zenon, <2>1, <4>2, <4>4 DEF Spawnable
      <4> QED
        BY <2>4, <4>1, <4>3, <4>4
    <3> QED
      BY Zenon, <3>1, <3>2
  <2> QED
    BY Zenon, <2>3, <2>4 DEF Spawnable
<1> QED
  BY Zenon, <1>1, <1>3 DEF KindInv

LEMMA KindTask ==
  ASSUME Inv, FreshInv, KindInv, NEW id \in DOMAIN tasks, TaskStep(id)
  PROVE  KindInv'
<1>1. call' = call /\ TaskMove(id)
  BY Zenon, TaskEffect
<1>2. /\ DOMAIN tasks' = DOMAIN tasks
      /\ \A j \in DOMAIN tasks : j # id => tasks'[j] = tasks[j]
  BY Zenon, <1>1 DEF TaskMove, DoesFactory, DoesFail, DoesInsert, DoesRemove, DoesDrop, DoesRelease,
     TaskTo
<1>3. tasks'[id].spec = tasks[id].spec \/ tasks'[id].spec = "none"
  BY Zenon, <1>1 DEF TaskMove, DoesFactory, DoesFail, DoesInsert, DoesRemove, DoesDrop,
     DoesRelease, TaskTo
<1>4. \A j \in DOMAIN tasks : tasks[j].spec \notin Identity => tasks'[j].spec \notin Identity
  BY <1>2, <1>3 DEF Identity
<1>5. \A t \in Sups, p \in Pids : Spawnable(t, p) => Spawnable(t, p)'
  BY Zenon, <1>1, <1>2, <1>4 DEF Spawnable
<1>6. CASE DoesInsert(id)
  <2> DEFINE n == tasks[id].new
  <2>1. tasks[id].pc = "insert" /\ n \in Pids /\ ChildTo(id[2], n, tasks[id].spec)
    BY Zenon, <1>6 DEF DoesInsert, Inv, TaskInv
  <2>2. ASSUME tasks[id].spec \notin Identity PROVE Spawnable(id[2], n)
    <3>1. Awaits(id, n)
      BY Zenon, <2>1, <2>2 DEF Awaits
    <3>2. ~Known(n)
      BY Zenon, <2>1, <3>1 DEF FreshInv
    <3> HIDE DEF n
    <3>3. \A c \in Callers : n \notin Keys(call[c].all)
      BY Zenon, <3>2 DEF Known
    <3>4. \A c \in Callers, spec \in Identity : <<n, spec>> \notin call[c].all
      BY <3>3 DEF Keys
    <3> QED
      BY Zenon, <3>2, <3>4 DEF Known, Spawnable
  <2> HIDE DEF n
  <2>3. ASSUME NEW t \in Sups, NEW p \in Pids
        PROVE  children'[t][p] \in Identity \cup {"none"} \/ Spawnable(t, p)'
    <3>1. CASE t = id[2] /\ p = n
      <4>1. children'[t][p] = tasks[id].spec
        BY <2>1, <3>1 DEF ChildTo
      <4> QED
        BY <1>5, <2>2, <3>1, <4>1
    <3>2. CASE ~(t = id[2] /\ p = n)
      <4>1. children'[t][p] = children[t][p]
        BY <2>1, <3>2 DEF ChildTo
      <4> QED
        BY Zenon, <1>5, <4>1 DEF KindInv
    <3> QED
      BY <3>1, <3>2
  <2> QED
    BY Zenon, <2>3 DEF KindInv
<1>7. CASE ~DoesInsert(id)
  <2>1. \A t \in Sups, p \in Pids : children'[t][p] = children[t][p] \/ children'[t][p] = "none"
    BY <1>1, <1>7 DEF TaskMove, DoesFactory, DoesFail, DoesRemove, DoesDrop, DoesRelease, ChildTo
  <2>2. \A t \in Sups, p \in Pids :
          children[t][p] \in Identity \cup {"none"} => children'[t][p] \in Identity \cup {"none"}
    BY <2>1
  <2> QED
    BY Zenon, <1>5, <2>2 DEF KindInv
<1> QED
  BY <1>6, <1>7
-----------------------------------------------------------------------------
(* A supervisor's children with a factory, less those about to be removed, *)
(* are as many as at first but for those dropped, and a drop has three     *)
(* errors; the errors of a task that has not given up are kept in store.   *)
(* What a step does to the four sets that are counted:                     *)
Leaving(task) == task.pc = "remove" /\ task.spec \notin Identity
Trying(task, n) == task.pc = "factory" /\ task.spec \notin Identity /\ task.attempts >= n

Factories(s) == {p \in Pids : children[s][p] \notin Identity \cup {"none"}}
Starting(s) == {p \in Pids : Initially(s, p) \notin Identity \cup {"none"}}
Removing(s) == {id \in DOMAIN tasks : id[2] = s /\ Leaving(tasks[id])}
Tried(s, n) == {id \in DOMAIN tasks : id[2] = s /\ Trying(tasks[id], n)}

TryInv ==
  /\ errors \in Nat
  /\ \A id \in DOMAIN tasks : tasks[id].pc = "factory" => tasks[id].attempts < MaxAttempts

Gains(S, T) == \E x : x \notin S /\ T = S \cup {x}
Loses(S, T) == \E x : x \in S /\ T = S \ {x}

Balanced(f, f2, r, r2, a, a2, b, b2, e, e2) ==
  \/ f2 = f /\ r2 = r /\ a2 \subseteq a /\ b2 \subseteq b /\ (e2 = e \/ e2 = e + 1)
  \/ f2 = f /\ r2 = r /\ Gains(a, a2) /\ b2 = b /\ e2 = e + 1
  \/ f2 = f /\ r2 = r /\ a2 = a /\ Gains(b, b2) /\ e2 = e + 1
  \/ f2 = f /\ Gains(r, r2) /\ Loses(a, a2) /\ Loses(b, b2) /\ e2 = e + 1
  \/ Gains(f, f2) /\ Gains(r, r2) /\ a2 = a /\ b2 = b /\ e2 = e
  \/ (f2 = f \/ Loses(f, f2)) /\ Loses(r, r2) /\ a2 = a /\ b2 = b /\ e2 = e

Moves(s) == Balanced(Factories(s), Factories(s)', Removing(s), Removing(s)', Tried(s, 1),
                     Tried(s, 1)', Tried(s, 2), Tried(s, 2)', errors, errors')

LEMMA Unmoved ==
  ASSUME NEW s, Factories(s)' = Factories(s), Removing(s)' = Removing(s),
         Tried(s, 1)' \subseteq Tried(s, 1), Tried(s, 2)' \subseteq Tried(s, 2),
         errors' = errors \/ errors' = errors + 1
  PROVE  Moves(s)
BY Zenon DEF Moves, Balanced

(* Two sets that differ in one element at most. *)
SameBut(S, T, x) == \A y : y # x => (y \in T <=> y \in S)

LEMMA OneOff ==
  ASSUME NEW S, NEW T, NEW x, SameBut(S, T, x)
  PROVE  /\ (x \in T <=> x \in S) => T = S
         /\ x \notin S /\ x \in T => Gains(S, T)
         /\ x \in S /\ x \notin T => Loses(S, T)
<1>1. ASSUME x \in T <=> x \in S PROVE T = S
  <2>1. ASSUME NEW y PROVE y \in T <=> y \in S
    BY Zenon, <1>1 DEF SameBut
  <2> QED
    BY Zenon, <2>1
<1>2. x \notin S /\ x \in T => T = S \cup {x}
  BY Zenon DEF SameBut
<1>3. x \in S /\ x \notin T => T = S \ {x}
  BY Zenon DEF SameBut
<1> QED
  BY Zenon, <1>1, <1>2, <1>3 DEF Gains, Loses

(* A step of one task changes the sets of its supervisor by that task. *)
TaskShift(id) ==
  /\ (Leaving(tasks'[id]) <=> Leaving(tasks[id])) => Removing(id[2])' = Removing(id[2])
  /\ ~Leaving(tasks[id]) /\ Leaving(tasks'[id]) => Gains(Removing(id[2]), Removing(id[2])')
  /\ Leaving(tasks[id]) /\ ~Leaving(tasks'[id]) => Loses(Removing(id[2]), Removing(id[2])')
  /\ \A n \in {1, 2} :
       /\ (Trying(tasks'[id], n) <=> Trying(tasks[id], n)) => Tried(id[2], n)' = Tried(id[2], n)
       /\ ~Trying(tasks[id], n) /\ Trying(tasks'[id], n) => Gains(Tried(id[2], n), Tried(id[2], n)')
       /\ Trying(tasks[id], n) /\ ~Trying(tasks'[id], n) => Loses(Tried(id[2], n), Tried(id[2], n)')

LEMMA TaskSets ==
  ASSUME NEW id \in DOMAIN tasks, DOMAIN tasks' = DOMAIN tasks,
         \A j \in DOMAIN tasks : j # id => tasks'[j] = tasks[j]
  PROVE  TaskShift(id)
<1> DEFINE R == Removing(id[2])
           Q(n) == Tried(id[2], n)
<1>1. /\ SameBut(R, R', id)
      /\ id \in R <=> Leaving(tasks[id])
      /\ id \in R' <=> Leaving(tasks'[id])
  BY Zenon DEF SameBut, Removing
<1>2. ASSUME NEW n
      PROVE  /\ SameBut(Q(n), Q(n)', id)
             /\ id \in Q(n) <=> Trying(tasks[id], n)
             /\ id \in Q(n)' <=> Trying(tasks'[id], n)
  BY Zenon DEF SameBut, Tried
<1> HIDE DEF R, Q
<1>3. /\ (id \in R' <=> id \in R) => R' = R
      /\ id \notin R /\ id \in R' => Gains(R, R')
      /\ id \in R /\ id \notin R' => Loses(R, R')
  BY <1>1, OneOff
<1>4. ASSUME NEW n
      PROVE  /\ (id \in Q(n)' <=> id \in Q(n)) => Q(n)' = Q(n)
             /\ id \notin Q(n) /\ id \in Q(n)' => Gains(Q(n), Q(n)')
             /\ id \in Q(n) /\ id \notin Q(n)' => Loses(Q(n), Q(n)')
  BY <1>2, OneOff
<1>5. ASSUME NEW n
      PROVE  /\ (Trying(tasks'[id], n) <=> Trying(tasks[id], n)) => Q(n)' = Q(n)
             /\ ~Trying(tasks[id], n) /\ Trying(tasks'[id], n) => Gains(Q(n), Q(n)')
             /\ Trying(tasks[id], n) /\ ~Trying(tasks'[id], n) => Loses(Q(n), Q(n)')
  BY Zenon, <1>2, <1>4
<1> QED
  BY Zenon, <1>1, <1>3, <1>5 DEF TaskShift, R, Q

LEMMA MovePath ==
  ASSUME TryInv, PathMove
  PROVE  TryInv' /\ \A s \in Sups : Moves(s)
<1>1. children' = children /\ tasks' = tasks /\ errors' = errors
  BY Zenon DEF PathMove
<1>2. ASSUME NEW s
      PROVE  /\ Factories(s)' = Factories(s) /\ Removing(s)' = Removing(s)
             /\ Tried(s, 1)' = Tried(s, 1) /\ Tried(s, 2)' = Tried(s, 2)
  BY <1>1 DEF Factories, Removing, Tried
<1>3. \A s \in Sups : Moves(s)
  BY Zenon, <1>1, <1>2, Unmoved
<1> QED
  BY Zenon, <1>1, <1>3 DEF TryInv

LEMMA MoveCall ==
  ASSUME Inv, TryInv, NEW c \in Callers, NotifyStep(c)
  PROVE  TryInv' /\ \A s \in Sups : Moves(s)
<1>1. children' = children /\ errors' = errors
  BY Zenon, CallEffect
<1>2. /\ \A id \in DOMAIN tasks : id \in DOMAIN tasks' /\ tasks'[id] = tasks[id]
      /\ \A id \in DOMAIN tasks' :
           id \notin DOMAIN tasks => tasks'[id].pc = "factory" /\ tasks'[id].attempts = 0
  <2>1. tasks' = tasks \/ \E new : Spawns(c, new)
    BY Zenon, CallEffect DEF CallMove, DoesDebounce, DoesLookup, DoesUnmark, DoesCollect,
       DoesIterate, DoesMark, DoesSpawn, Keeps
  <2> QED
    BY Zenon, <2>1 DEF Spawns
<1>3. ASSUME NEW s
      PROVE  /\ Factories(s)' = Factories(s) /\ Removing(s)' = Removing(s)
             /\ Tried(s, 1)' \subseteq Tried(s, 1) /\ Tried(s, 2)' \subseteq Tried(s, 2)
  <2>1. Factories(s)' = Factories(s)
    BY <1>1 DEF Factories
  <2>2. \A id \in DOMAIN tasks' : id \notin DOMAIN tasks =>
          ~Leaving(tasks'[id]) /\ ~Trying(tasks'[id], 1) /\ ~Trying(tasks'[id], 2)
    BY <1>2 DEF Leaving, Trying
  <2>3. \A id : id \in Removing(s)' <=> id \in Removing(s)
    BY Zenon, <1>2, <2>2 DEF Removing
  <2>4. Tried(s, 1)' \subseteq Tried(s, 1) /\ Tried(s, 2)' \subseteq Tried(s, 2)
    BY Zenon, <1>2, <2>2 DEF Tried
  <2> QED
    BY Zenon, <2>1, <2>3, <2>4
<1>4. \A id \in DOMAIN tasks' : tasks'[id].pc = "factory" => tasks'[id].attempts < MaxAttempts
  BY <1>2 DEF TryInv, MaxAttempts
<1>5. \A s \in Sups : Moves(s)
  BY Zenon, <1>1, <1>3, Unmoved
<1> QED
  BY Zenon, <1>1, <1>4, <1>5 DEF TryInv

LEMMA MoveFail ==
  ASSUME Inv, TryInv, NEW id \in DOMAIN tasks, DoesFail(id)
  PROVE  Moves(id[2]) /\ (tasks'[id].pc = "factory" => tasks'[id].attempts < MaxAttempts)
<1> DEFINE s == id[2]
           a == tasks[id].attempts
<1>1. /\ tasks[id].pc = "factory" /\ tasks[id].spec \notin Identity /\ tasks'[id].attempts = a + 1
      /\ tasks'[id].pc = IF a + 1 >= MaxAttempts THEN "remove" ELSE "factory"
      /\ tasks'[id].spec = tasks[id].spec /\ DOMAIN tasks' = DOMAIN tasks
      /\ \A j \in DOMAIN tasks : j # id => tasks'[j] = tasks[j]
      /\ children' = children /\ errors' = errors + 1
  BY Zenon DEF DoesFail, TaskTo
<1>2. a \in Nat /\ a < MaxAttempts
  BY <1>1 DEF TryInv, Inv, Types, TaskRecord
<1>3. a \in {0, 1, 2}
  BY <1>2 DEF MaxAttempts
<1>4. Factories(s)' = Factories(s)
  BY Zenon, <1>1 DEF Factories
<1>5. TaskShift(id) /\ ~Leaving(tasks[id])
  BY Zenon, <1>1, TaskSets DEF Leaving
<1>6. CASE a = 0
  <2>1. /\ ~Leaving(tasks'[id]) /\ tasks'[id].attempts < MaxAttempts
        /\ ~Trying(tasks[id], 1) /\ Trying(tasks'[id], 1)
        /\ ~Trying(tasks[id], 2) /\ ~Trying(tasks'[id], 2)
    BY <1>1, <1>6 DEF Leaving, Trying, MaxAttempts
  <2>2. Removing(s)' = Removing(s) /\ Gains(Tried(s, 1), Tried(s, 1)') /\ Tried(s, 2)' = Tried(s, 2)
    BY Zenon, <1>5, <2>1 DEF TaskShift
  <2> QED
    BY Zenon, <1>1, <1>4, <2>1, <2>2 DEF Moves, Balanced
<1>7. CASE a = 1
  <2>1. /\ ~Leaving(tasks'[id]) /\ tasks'[id].attempts < MaxAttempts
        /\ Trying(tasks[id], 1) /\ Trying(tasks'[id], 1)
        /\ ~Trying(tasks[id], 2) /\ Trying(tasks'[id], 2)
    BY <1>1, <1>7 DEF Leaving, Trying, MaxAttempts
  <2>2. Removing(s)' = Removing(s) /\ Tried(s, 1)' = Tried(s, 1) /\ Gains(Tried(s, 2), Tried(s, 2)')
    BY Zenon, <1>5, <2>1 DEF TaskShift
  <2> QED
    BY Zenon, <1>1, <1>4, <2>1, <2>2 DEF Moves, Balanced
<1>8. CASE a = 2
  <2>1. /\ tasks'[id].pc = "remove" /\ Leaving(tasks'[id])
        /\ Trying(tasks[id], 1) /\ ~Trying(tasks'[id], 1)
        /\ Trying(tasks[id], 2) /\ ~Trying(tasks'[id], 2)
    BY <1>1, <1>8 DEF Leaving, Trying, MaxAttempts
  <2>2. /\ Gains(Removing(s), Removing(s)')
        /\ Loses(Tried(s, 1), Tried(s, 1)') /\ Loses(Tried(s, 2), Tried(s, 2)')
    BY Zenon, <1>5, <2>1 DEF TaskShift
  <2> QED
    BY Zenon, <1>1, <1>4, <2>1, <2>2 DEF Moves, Balanced
<1> QED
  BY Zenon, <1>3, <1>6, <1>7, <1>8

LEMMA MoveInsert ==
  ASSUME Inv, FreshInv, KindInv, NEW id \in DOMAIN tasks, DoesInsert(id)
  PROVE  Moves(id[2])
<1> DEFINE s == id[2]
           n == tasks[id].new
<1>1. /\ tasks[id].pc = "insert" /\ tasks'[id].pc = "remove"
      /\ tasks'[id].spec = tasks[id].spec /\ DOMAIN tasks' = DOMAIN tasks
      /\ \A j \in DOMAIN tasks : j # id => tasks'[j] = tasks[j]
      /\ ChildTo(s, n, tasks[id].spec) /\ errors' = errors
  BY Zenon DEF DoesInsert, TaskTo
<1>2. n \in Pids /\ tasks[id].spec \in Spec0 /\ id[4] \in Pids /\ s \in Sups
  BY Zenon, <1>1 DEF Inv, TaskInv, Tasks
<1>3. \A q \in Pids : children'[s][q] = IF q = n THEN tasks[id].spec ELSE children[s][q]
  BY Zenon, <1>1, <1>2 DEF ChildTo
<1>4. \A k : ~Trying(tasks[id], k) /\ ~Trying(tasks'[id], k)
  BY Zenon, <1>1 DEF Trying
<1>5. TaskShift(id)
  BY Zenon, <1>1, TaskSets
<1>6. Tried(s, 1)' = Tried(s, 1) /\ Tried(s, 2)' = Tried(s, 2)
  BY Zenon, <1>4, <1>5 DEF TaskShift
<1>7. CASE tasks[id].spec \in Identity
  <2>1. n = id[4]
    BY Zenon, <1>1, <1>7 DEF FreshInv
  <2>2. children[s][n] \in Identity \cup {"none"}
    BY Zenon, <1>2, <1>7, <2>1 DEF KindInv, Spawnable
  <2> HIDE DEF n
  <2>3. Factories(s)' = Factories(s)
    BY <1>3, <1>7, <2>2 DEF Factories
  <2>4. Removing(s)' = Removing(s)
    BY Zenon, <1>1, <1>5, <1>7 DEF TaskShift, Leaving
  <2> QED
    BY Zenon, <1>1, <1>6, <2>3, <2>4, Unmoved
<1>8. CASE tasks[id].spec \notin Identity
  <2>1. children[s][n] = "none"
    <3>1. Awaits(id, n)
      BY Zenon, <1>1, <1>8 DEF Awaits
    <3> QED
      BY Zenon, <1>2, <3>1 DEF FreshInv, Known
  <2> HIDE DEF n
  <2>2. n \notin Factories(s) /\ Factories(s)' = Factories(s) \cup {n}
    BY <1>2, <1>3, <1>8, <2>1 DEF Factories, Spec0, Identity, RestartAll
  <2>3. Gains(Factories(s), Factories(s)')
    BY Zenon, <2>2 DEF Gains
  <2>4. Gains(Removing(s), Removing(s)')
    BY Zenon, <1>1, <1>5, <1>8 DEF TaskShift, Leaving
  <2> QED
    BY Zenon, <1>1, <1>6, <2>3, <2>4 DEF Moves, Balanced
<1> QED
  BY <1>7, <1>8

LEMMA MoveRemove ==
  ASSUME Inv, KindInv, NEW id \in DOMAIN tasks, DoesRemove(id)
  PROVE  Moves(id[2])
<1> DEFINE s == id[2]
<1>1. /\ tasks[id].pc = "remove" /\ tasks'[id].pc = "links"
      /\ tasks'[id].spec = tasks[id].spec /\ DOMAIN tasks' = DOMAIN tasks
      /\ \A j \in DOMAIN tasks : j # id => tasks'[j] = tasks[j]
      /\ ChildTo(s, id[4], "none") /\ errors' = errors
  BY Zenon DEF DoesRemove, TaskTo
<1>2. id[4] \in Pids /\ s \in Sups
  BY Zenon, <1>1 DEF Inv, TaskInv, Tasks
<1>3. \A q \in Pids : children'[s][q] = IF q = id[4] THEN "none" ELSE children[s][q]
  BY Zenon, <1>1, <1>2 DEF ChildTo
<1>4. \A k : ~Trying(tasks[id], k) /\ ~Trying(tasks'[id], k)
  BY Zenon, <1>1 DEF Trying
<1>5. TaskShift(id)
  BY Zenon, <1>1, TaskSets
<1>6. Tried(s, 1)' = Tried(s, 1) /\ Tried(s, 2)' = Tried(s, 2)
  BY Zenon, <1>4, <1>5 DEF TaskShift
<1>7. CASE tasks[id].spec \in Identity
  <2>1. children[s][id[4]] \in Identity \cup {"none"}
    BY Zenon, <1>2, <1>7 DEF KindInv, Spawnable
  <2>2. Factories(s)' = Factories(s)
    BY <1>3, <1>7, <2>1 DEF Factories
  <2>3. Removing(s)' = Removing(s)
    BY Zenon, <1>1, <1>5, <1>7 DEF TaskShift, Leaving
  <2> QED
    BY Zenon, <1>1, <1>6, <2>2, <2>3, Unmoved
<1>8. CASE tasks[id].spec \notin Identity
  <2>1. Factories(s)' = Factories(s) \ {id[4]}
    BY <1>3 DEF Factories
  <2>2. Factories(s)' = Factories(s) \/ Loses(Factories(s), Factories(s)')
    BY <2>1 DEF Loses
  <2>3. Loses(Removing(s), Removing(s)')
    BY Zenon, <1>1, <1>5, <1>8 DEF TaskShift, Leaving
  <2> QED
    BY Zenon, <1>1, <1>6, <2>2, <2>3 DEF Moves, Balanced
<1> QED
  BY <1>7, <1>8

LEMMA MoveTask ==
  ASSUME Inv, FreshInv, KindInv, TryInv, NEW id \in DOMAIN tasks, TaskStep(id)
  PROVE  TryInv' /\ \A s \in Sups : Moves(s)
<1>1. /\ TaskMove(id) /\ errors \in Nat
      /\ errors' = errors \/ errors' = errors + 1
      /\ DOMAIN tasks' = DOMAIN tasks
      /\ \A j \in DOMAIN tasks : j # id => tasks'[j] = tasks[j]
  BY Zenon, TaskEffect DEF TryInv, TaskMove, DoesFactory, DoesFail, DoesInsert, DoesRemove,
     DoesDrop, DoesRelease, TaskTo
<1>2. TaskShift(id)
  BY Zenon, <1>1, TaskSets
<1>3. ASSUME NEW s \in Sups, s # id[2] PROVE Moves(s)
  <2>1. \A q \in Pids : children'[s][q] = children[s][q]
    BY <1>1, <1>3 DEF TaskMove, DoesFactory, DoesFail, DoesInsert, DoesRemove, DoesDrop,
       DoesRelease, ChildTo
  <2>2. Factories(s)' = Factories(s)
    BY <2>1 DEF Factories
  <2>3. Removing(s)' = Removing(s) /\ Tried(s, 1)' = Tried(s, 1) /\ Tried(s, 2)' = Tried(s, 2)
    BY Zenon, <1>1, <1>3 DEF Removing, Tried
  <2> QED
    BY Zenon, <1>1, <2>2, <2>3, Unmoved
<1>4. /\ tasks'[id].pc = "factory" => tasks'[id].attempts < MaxAttempts
      /\ Moves(id[2])
  <2>1. CASE DoesFactory(id) \/ DoesDrop(id) \/ DoesRelease(id)
    <3>1. /\ children' = children /\ tasks[id].pc # "remove"
          /\ tasks'[id].pc \in {"insert", "release", "end"}
      BY <2>1 DEF DoesFactory, DoesDrop, DoesRelease, TaskTo
    <3>2. Factories(id[2])' = Factories(id[2])
      BY <3>1 DEF Factories
    <3>3. Removing(id[2])' = Removing(id[2])
      BY Zenon, <1>2, <3>1 DEF TaskShift, Leaving
    <3>4. ~Trying(tasks'[id], 1) /\ ~Trying(tasks'[id], 2)
      BY Zenon, <3>1 DEF Trying
    <3>5. Tried(id[2], 1)' \subseteq Tried(id[2], 1) /\ Tried(id[2], 2)' \subseteq Tried(id[2], 2)
      BY Zenon, <1>2, <3>4 DEF TaskShift, Loses
    <3> QED
      BY Zenon, <1>1, <3>1, <3>2, <3>3, <3>5, Unmoved
  <2>2. DoesInsert(id) \/ DoesRemove(id) => tasks'[id].pc # "factory"
    BY DEF DoesInsert, DoesRemove, TaskTo
  <2> QED
    BY Zenon, <1>1, <2>1, <2>2, MoveFail, MoveInsert, MoveRemove DEF TaskMove
<1>5. errors' \in Nat
  BY <1>1
<1> QED
  BY Zenon, <1>1, <1>3, <1>4, <1>5 DEF TryInv
-----------------------------------------------------------------------------
LEMMA DeadInit == ASSUME Init PROVE DeadInv
<1>1. restarting = {} /\ \A c \in Callers : call[c].pc = "off"
  BY DEF Init
<1> QED
  BY <1>1 DEF DeadInv, Reported

LEMMA PathInit == ASSUME Init PROVE PathInv
<1>1. \A p \in Pids : phase[p] \in {"running", "unborn"}
  BY DEF Init
<1> QED
  BY <1>1 DEF PathInv

LEMMA TryInit == ASSUME Init PROVE TryInv
<1>1. errors = 0 /\ DOMAIN tasks = {}
  BY DEF Init
<1> QED
  BY <1>1 DEF TryInv

(* All of it together, as long as nobody has called from outside. *)
SettledInv ==
  /\ HomeInv /\ FreshInv /\ DeadInv /\ PathInv /\ KindInv /\ TryInv
  /\ NoAll => OneInv
CalmInv == Alone /\ (ops = 0 => SettledInv)

LEMMA CalmInit ==
  ASSUME Init, Inv
  PROVE  CalmInv
<1>1. Alone
  BY DEF Init, Alone
<1> QED
  BY Zenon, <1>1, HomeInit, FreshInit, DeadInit, PathInit, KindInit, TryInit, OneInit
  DEF CalmInv, SettledInv

LEMMA CalmNext ==
  ASSUME Inv, Inv', CalmInv, [Next]_vars
  PROVE  CalmInv'
<1>1. Alone' /\ (ops' = 0 => ops = 0 /\ half = {} /\ scene' = scene /\ Calm)
  BY Zenon, CalmStep DEF CalmInv
<1>2. SUFFICES ASSUME ops' = 0 PROVE SettledInv'
  BY Zenon, <1>1 DEF CalmInv
<1>3. scene' = scene /\ Calm /\ SettledInv
  BY Zenon, <1>1, <1>2 DEF CalmInv
<1>4. NoAll' = NoAll
  BY <1>3 DEF NoAll, Initially
<1>5. ASSUME PathMove
      PROVE  HomeInv' /\ FreshInv' /\ DeadInv' /\ KindInv' /\ TryInv' /\ (NoAll => OneInv')
  BY Zenon, <1>3, <1>5, HomePath, FreshPath, DeadPath, KindPath, MovePath, OnePath DEF SettledInv
<1>6. CASE UNCHANGED vars \/ \E r \in cleaning : RetainPeer(r)
  <2>1. PathInv'
    BY Zenon, <1>3, <1>6, PathsOther DEF SettledInv
  <2> QED
    BY Zenon, <1>4, <1>5, <1>6, <2>1, RestEffect DEF SettledInv
<1>7. ASSUME NEW p \in Pids, ActorEnds(p) \/ ExitStep(p) \/ MonitorDown(p) PROVE SettledInv'
  <2>1. PathInv'
    BY Zenon, <1>3, <1>7, PathsPath DEF SettledInv
  <2> QED
    BY Zenon, <1>4, <1>5, <1>7, <2>1, PathEffect DEF SettledInv
<1>8. ASSUME NEW c \in Callers, NotifyStep(c) PROVE SettledInv'
  <2>1. PathInv'
    BY Zenon, <1>3, <1>8, PathsOther DEF SettledInv
  <2> QED
    BY Zenon, <1>3, <1>4, <1>8, <2>1, HomeCall, FreshCall, DeadCall, KindCall, MoveCall, OneCall
    DEF SettledInv
<1>9. ASSUME NEW id \in DOMAIN tasks, TaskStep(id) PROVE SettledInv'
  <2>1. PathInv'
    BY Zenon, <1>3, <1>9, PathsOther DEF SettledInv
  <2> QED
    BY Zenon, <1>3, <1>4, <1>9, <2>1, HomeTask, FreshTask, DeadTask, KindTask, MoveTask, OneTask
    DEF SettledInv
<1> QED
  BY Zenon, <1>3, <1>6, <1>7, <1>8, <1>9 DEF Calm

THEOREM CalmInvariance == Spec => [](Inv /\ CalmInv)
<1>1. Init /\ Inv => CalmInv
  BY Zenon, CalmInit
<1>2. Inv /\ Inv' /\ CalmInv /\ [Next]_vars => CalmInv'
  BY Zenon, CalmNext
<1> QED
  BY Invariance, <1>1, <1>2, PTL DEF Spec

(* A pid whose exit is reported twice, by the task that wrapped the actor  *)
(* and by a remote monitor, gets one restart task from each supervisor, in *)
(* whatever order the two calls of notify_exit and the task itself step:   *)
(* the insert into restarting (supervisor.rs:160) lets one call pass, and  *)
(* the task has removed the child when it takes the mark back.             *)
THEOREM RestartsAreDebounced == Spec => []RestartOneDebounced
<1>1. Inv /\ CalmInv => RestartOneDebounced
  BY Zenon DEF CalmInv, SettledInv, OneInv, SingleInv, NoAll, RestartOneDebounced,
     AtMostOneRestart, Restarts
<1> QED
  BY CalmInvariance, <1>1, PTL

(* When everything has settled no supervisor has a dead child, except one  *)
(* registered too late for notify_exit to find: the marks and the spawned  *)
(* tasks between them never lose an exit, and the exit path has been to    *)
(* every path supervisor it could still find (lib.rs:442).                 *)
THEOREM DeadAreRemoved == Spec => []NoDeadChild
<1>1. Inv /\ CalmInv => NoDeadChild
  <2> SUFFICES ASSUME Inv, CalmInv, ops = 0, Quiet, NEW m \in DeadChildren
               PROVE  m \in missed
    BY Zenon DEF NoDeadChild
  <2>1. /\ m \in Sups \X Pids /\ m = <<m[1], m[2]>> /\ m[1] \in Sups /\ m[2] \in Pids
        /\ children[m[1]][m[2]] # "none" /\ phase[m[2]] = "dead"
    BY DEF DeadChildren
  <2>2. Alive(m) /\ ~Doomed(m)
    <3>1. \A c \in Callers : ~WillRemove(c, m)
      BY DEF Quiet, WillRemove, Covers
    <3>2. \A id \in DOMAIN tasks : ~WillReplace(id, m)
      BY DEF Quiet, WillReplace
    <3> QED
      BY Zenon, <2>1, <3>1, <3>2 DEF Alive, Doomed
  <2>3. call[<<"exit", m[1], m[2]>>].pc = "done" \/ <<m[1], m[2]>> \in missed
    BY Zenon, <2>1 DEF CalmInv, SettledInv, PathInv, Sups
  <2>4. ASSUME call[<<"exit", m[1], m[2]>>].pc = "done" PROVE Reported(m)
    <3> DEFINE c == <<"exit", m[1], m[2]>>
    <3>1. c \in Callers /\ c[2] = m[1] /\ c[3] = m[2]
      BY <2>1, ExitCaller
    <3> QED
      BY <2>4, <3>1 DEF Reported
  <2> QED
    BY Zenon, <2>1, <2>2, <2>3, <2>4 DEF CalmInv, SettledInv, DeadInv
<1> QED
  BY CalmInvariance, <1>1, PTL

(* Supervision leaves no running actor behind: when everything has settled *)
(* every one that a supervisor started with or its factories have spawned  *)
(* is registered, unless a RestartAll wave replaced it while it ran.  A    *)
(* new actor is unregistered only between the factory's return and the     *)
(* insert of the same task (supervisor.rs:213).                            *)
THEOREM RunningAreSupervised == Spec => []RunningIsSupervised
<1>1. Inv /\ CalmInv => RunningIsSupervised
  <2> SUFFICES ASSUME Inv, CalmInv, ops = 0, Quiet, NEW p \in mailboxes, phase[p] = "running",
                      p \in DOMAIN scene.children => \E s \in Sups : Initially(s, p) # "none",
                      \A s \in Sups : p \notin Registered(s)
               PROVE  \E id \in DOMAIN tasks : id[4] = p /\ id[3] # p
    BY Zenon DEF RunningIsSupervised
  <2>1. HomeInv
    BY Zenon DEF CalmInv, SettledInv
  <2>2. p \in Spawned /\ p \in Pids
    BY <2>1 DEF HomeInv, UpInv, Spawned
  <2>3. Home(p)
    BY Zenon, <2>1, <2>2 DEF HomeInv, Supervised
  <2>4. PICK id \in DOMAIN tasks : id[4] = p
    BY <2>2, <2>3 DEF Home, Registered, Quiet
  <2>5. id \in Tasks /\ <<id[1], id[2], id[3]>> \in Callers
        /\ call[<<id[1], id[2], id[3]>>].pc = "done"
    BY Zenon DEF Inv, TaskInv
  <2>6. <<id[1], id[2], id[3]>>[3] = id[3]
    OBVIOUS
  <2>7. id[3] # p
    BY <2>1, <2>5, <2>6 DEF HomeInv, UpInv
  <2> QED
    BY <2>4, <2>7
<1> QED
  BY CalmInvariance, <1>1, PTL
-----------------------------------------------------------------------------
(* The count itself.  A task that has failed once is in the first set of   *)
(* Tried and one that has failed twice in both, so that the two count the  *)
(* errors that have not led to a drop yet.                                 *)
INSTANCE FiniteSetTheorems

Enough(s) ==
  3 * Cardinality(Factories(s)) + errors >=
    3 * Cardinality(Starting(s)) + 3 * Cardinality(Removing(s))
      + Cardinality(Tried(s, 1)) + Cardinality(Tried(s, 2))

LEMMA TasksFinite == IsFiniteSet(Tasks)
<1> DEFINE A == ({"exit", "monitor"} \X Sups) \X (Pids \X Pids)
           B == {<<x[1][1], x[1][2], x[2][1], x[2][2]>> : x \in A}
<1>1. IsFiniteSet(Pids) /\ IsFiniteSet(PathSups)
  BY FS_Interval, SupervisorAssumption DEF Pids, PathSups
<1>2. IsFiniteSet({"exit"}) /\ IsFiniteSet({"monitor"}) /\ IsFiniteSet({0})
  BY FS_Singleton
<1>3. IsFiniteSet({"exit"} \cup {"monitor"}) /\ IsFiniteSet({0} \cup PathSups)
  BY Zenon, <1>1, <1>2, FS_Union
<1>4. {"exit", "monitor"} = {"exit"} \cup {"monitor"}
  OBVIOUS
<1>5. IsFiniteSet({"exit", "monitor"} \X Sups) /\ IsFiniteSet(Pids \X Pids)
  BY <1>1, <1>3, <1>4, FS_Product DEF Sups
<1>6. IsFiniteSet(A)
  BY <1>5, FS_Product
<1>7. IsFiniteSet(B)
  <2> DEFINE f == [x \in A |-> <<x[1][1], x[1][2], x[2][1], x[2][2]>>]
  <2>1. f \in [A -> B] /\ \A y \in B : \E x \in A : f[x] = y
    BY Zenon
  <2>2. f \in Surjection(A, B)
    BY Zenon, <2>1 DEF Surjection
  <2> HIDE DEF f, A, B
  <2> QED
    BY <1>6, <2>2, FS_Surjection
<1>8. Tasks \subseteq B
  <2> SUFFICES ASSUME NEW t \in Tasks PROVE t \in B
    OBVIOUS
  <2>1. t = <<t[1], t[2], t[3], t[4]>> /\ <<<<t[1], t[2]>>, <<t[3], t[4]>>>> \in A
    BY DEF Tasks
  <2> QED
    BY <2>1
<1> QED
  BY <1>7, <1>8, FS_Subset

LEMMA Counts ==
  ASSUME NEW S, NEW T, IsFiniteSet(S)
  PROVE  /\ Cardinality(S) \in Nat
         /\ \A x : x \in S => Cardinality(S \ {x}) = Cardinality(S) - 1
         /\ \A x : x \notin S => Cardinality(S \cup {x}) = Cardinality(S) + 1
         /\ T \subseteq S => Cardinality(T) <= Cardinality(S)
BY FS_CardinalityType, FS_AddElement, FS_RemoveElement, FS_Subset

Finite(s) ==
  /\ IsFiniteSet(Factories(s)) /\ IsFiniteSet(Starting(s)) /\ IsFiniteSet(Removing(s))
  /\ IsFiniteSet(Tried(s, 1)) /\ IsFiniteSet(Tried(s, 2))

LEMMA AllFinite ==
  ASSUME Inv, NEW s
  PROVE  Finite(s)
<1>1. IsFiniteSet(Pids) /\ IsFiniteSet(DOMAIN tasks)
  <2>1. IsFiniteSet(Pids)
    BY FS_Interval, SupervisorAssumption DEF Pids
  <2>2. DOMAIN tasks \subseteq Tasks
    BY Zenon DEF Inv, TaskInv
  <2> QED
    BY <2>1, <2>2, TasksFinite, FS_Subset
<1>2. /\ Factories(s) \subseteq Pids /\ Starting(s) \subseteq Pids /\ Removing(s) \subseteq DOMAIN tasks
      /\ Tried(s, 1) \subseteq DOMAIN tasks /\ Tried(s, 2) \subseteq DOMAIN tasks
  BY DEF Factories, Starting, Removing, Tried
<1> QED
  BY <1>1, <1>2, FS_Subset DEF Finite

SupsFinite == \A s \in Sups : Finite(s)

LEMMA FiniteNow == Inv => SupsFinite
BY Zenon, AllFinite DEF SupsFinite

LEMMA FiniteNext == Inv' => SupsFinite'
BY FiniteNow, PTL

LEMMA EnoughInit ==
  ASSUME Init, Inv
  PROVE  \A s \in Sups : Enough(s)
<1>1. errors = 0 /\ DOMAIN tasks = {}
  BY DEF Init
<1>2. ASSUME NEW s \in Sups PROVE Enough(s)
  <2>1. Factories(s) = Starting(s)
    <3>1. \A p \in Pids : children[s][p] = Initially(s, p)
      BY <1>2 DEF Init
    <3> QED
      BY <3>1 DEF Factories, Starting
  <2>2. Removing(s) = {} /\ Tried(s, 1) = {} /\ Tried(s, 2) = {}
    BY <1>1 DEF Removing, Tried
  <2>3. Cardinality({}) = 0
    BY FS_EmptySet
  <2>4. Cardinality(Starting(s)) \in Nat
    BY Zenon, AllFinite, Counts DEF Finite
  <2>5. /\ Cardinality(Factories(s)) = Cardinality(Starting(s)) /\ Cardinality(Removing(s)) = 0
        /\ Cardinality(Tried(s, 1)) = 0 /\ Cardinality(Tried(s, 2)) = 0
    BY Zenon, <2>1, <2>2, <2>3
  <2> QED
    BY <1>1, <2>4, <2>5 DEF Enough
<1> QED
  BY <1>2

(* A step that is balanced takes nothing from a supervisor. *)
LEMMA BalancedStays ==
  ASSUME NEW f, NEW f2, NEW r, NEW r2, NEW a, NEW a2, NEW b, NEW b2, NEW e \in Nat, NEW e2,
         NEW t \in Nat, IsFiniteSet(f), IsFiniteSet(r), IsFiniteSet(a), IsFiniteSet(b),
         Balanced(f, f2, r, r2, a, a2, b, b2, e, e2),
         3 * Cardinality(f) + e >=
           3 * t + 3 * Cardinality(r) + Cardinality(a) + Cardinality(b)
  PROVE  3 * Cardinality(f2) + e2 >=
           3 * t + 3 * Cardinality(r2) + Cardinality(a2) + Cardinality(b2)
<1>1. /\ Cardinality(f) \in Nat /\ Cardinality(r) \in Nat /\ Cardinality(a) \in Nat
      /\ Cardinality(b) \in Nat
  BY Counts
<1>2. ASSUME NEW S, NEW T, IsFiniteSet(S)
      PROVE  /\ Gains(S, T) => Cardinality(T) = Cardinality(S) + 1
             /\ Loses(S, T) => Cardinality(T) = Cardinality(S) - 1
             /\ T \subseteq S => Cardinality(T) \in Nat /\ Cardinality(T) <= Cardinality(S)
  <2>1. T \subseteq S => IsFiniteSet(T)
    BY <1>2, FS_Subset
  <2> QED
    BY Zenon, <1>2, <2>1, Counts DEF Gains, Loses
<1>3. CASE f2 = f /\ r2 = r /\ a2 \subseteq a /\ b2 \subseteq b /\ (e2 = e \/ e2 = e + 1)
  <2>1. /\ Cardinality(a2) \in Nat /\ Cardinality(a2) <= Cardinality(a)
        /\ Cardinality(b2) \in Nat /\ Cardinality(b2) <= Cardinality(b)
    BY Zenon, <1>2, <1>3
  <2> QED
    BY <1>1, <1>3, <2>1
<1>4. CASE f2 = f /\ r2 = r /\ Gains(a, a2) /\ b2 = b /\ e2 = e + 1
  <2>1. Cardinality(a2) = Cardinality(a) + 1
    BY Zenon, <1>2, <1>4
  <2> QED
    BY <1>1, <1>4, <2>1
<1>5. CASE f2 = f /\ r2 = r /\ a2 = a /\ Gains(b, b2) /\ e2 = e + 1
  <2>1. Cardinality(b2) = Cardinality(b) + 1
    BY Zenon, <1>2, <1>5
  <2> QED
    BY <1>1, <1>5, <2>1
<1>6. CASE f2 = f /\ Gains(r, r2) /\ Loses(a, a2) /\ Loses(b, b2) /\ e2 = e + 1
  <2>1. /\ Cardinality(r2) = Cardinality(r) + 1 /\ Cardinality(a2) = Cardinality(a) - 1
        /\ Cardinality(b2) = Cardinality(b) - 1
    BY Zenon, <1>2, <1>6
  <2> QED
    BY <1>1, <1>6, <2>1
<1>7. CASE Gains(f, f2) /\ Gains(r, r2) /\ a2 = a /\ b2 = b /\ e2 = e
  <2>1. Cardinality(f2) = Cardinality(f) + 1 /\ Cardinality(r2) = Cardinality(r) + 1
    BY Zenon, <1>2, <1>7
  <2> QED
    BY <1>1, <1>7, <2>1
<1>8. CASE (f2 = f \/ Loses(f, f2)) /\ Loses(r, r2) /\ a2 = a /\ b2 = b /\ e2 = e
  <2>1. /\ Cardinality(r2) = Cardinality(r) - 1
        /\ Cardinality(f2) = Cardinality(f) \/ Cardinality(f2) = Cardinality(f) - 1
    BY Zenon, <1>2, <1>8
  <2> QED
    BY <1>1, <1>8, <2>1
<1> QED
  BY Zenon, <1>3, <1>4, <1>5, <1>6, <1>7, <1>8 DEF Balanced

LEMMA EnoughNext ==
  ASSUME Inv, CalmInv, [Next]_vars, ops' = 0, NEW s \in Sups, Enough(s)
  PROVE  Enough(s)'
<1>1. scene' = scene /\ Calm /\ FreshInv /\ KindInv /\ TryInv
  BY Zenon, CalmStep DEF CalmInv, SettledInv
<1>2. Moves(s)
  BY Zenon, <1>1, RestEffect, PathEffect, MovePath, MoveCall, MoveTask DEF Calm
<1>3. Starting(s)' = Starting(s)
  BY <1>1 DEF Starting, Initially
<1>4. errors \in Nat /\ Cardinality(Starting(s)) \in Nat /\ Finite(s)
  BY Zenon, <1>1, AllFinite, Counts DEF Finite, TryInv
<1> QED
  BY Zenon, <1>2, <1>3, <1>4, BalancedStays DEF Moves, Finite, Enough

(* No interleaving of restart tasks, of RestartAll waves or not, loses a   *)
(* supervised child: the replacement is inserted before the old pid is     *)
(* removed, and a child that is dropped for good has max_attempts errors   *)
(* of its own in Supervisor.errors (supervisor.rs:230).                    *)
THEOREM ChildrenAreKept == Spec => []ChildrenNeverLost
<1>1. ASSUME NEW f \in Nat, NEW e \in Nat, NEW t \in Nat, NEW r \in Nat, NEW a \in Nat,
             NEW b \in Nat, 3 * f + e >= 3 * t + 3 * r + a + b
      PROVE  f + e \div 3 >= t
  BY <1>1
<1> DEFINE I == ops = 0 => \A s \in Sups : Enough(s)
<1>2. Inv /\ CalmInv /\ I => ChildrenNeverLost
  <2> SUFFICES ASSUME Inv, TryInv, NEW s \in Sups, Enough(s)
               PROVE  Cardinality(Factories(s)) + errors \div MaxAttempts
                        >= Cardinality(Starting(s))
    BY Zenon DEF ChildrenNeverLost, Factories, Starting, CalmInv, SettledInv
  <2>1. /\ Cardinality(Factories(s)) \in Nat /\ Cardinality(Starting(s)) \in Nat
        /\ Cardinality(Removing(s)) \in Nat /\ Cardinality(Tried(s, 1)) \in Nat
        /\ Cardinality(Tried(s, 2)) \in Nat
    BY Zenon, AllFinite, Counts DEF Finite
  <2> QED
    BY <1>1, <2>1 DEF Enough, MaxAttempts, TryInv
<1>3. Init /\ Inv => I
  BY Zenon, EnoughInit
<1>4. Inv /\ CalmInv /\ I /\ [Next]_vars => I'
  <2>1. CalmInv /\ [Next]_vars /\ ops' = 0 => ops = 0
    BY Zenon, CalmStep DEF CalmInv
  <2> QED
    BY Zenon, <2>1, EnoughNext
<1> HIDE DEF I
<1> QED
  BY CalmInvariance, <1>2, <1>3, <1>4, PTL DEF Spec
=============================================================================
