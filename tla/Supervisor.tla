----------------------------- MODULE Supervisor -----------------------------
(***************************************************************************)
(* Actor exit and supervision: the task that wraps every actor             *)
(* (Runtime::spawn_actor and its three variants, src/lib.rs), the global   *)
(* Supervisor and those of Runtime.path_supervisors with their restart     *)
(* tasks and links (src/supervisor.rs), and the callers that race with     *)
(* them: link, unlink, stop, supervise, watch, the calls that create and   *)
(* remove path supervisors, and the remote monitor, which stops a pid and  *)
(* reports its exit.                                                       *)
(*                                                                         *)
(* children, links and restarting are concurrent maps without a common     *)
(* lock, so a step is one operation on one of them, and iterating over one *)
(* is not atomic.  A pid is used once (Pid shows when that is so).  The    *)
(* registered spec of a child is its strategy; a "watch" spec has the      *)
(* factory that returns the pid it was given, any other factory spawns an  *)
(* actor or fails.  Supervisor 0 is the global one, the others stand for   *)
(* one Supervisor object of a path each, so that a path that is removed    *)
(* and created again has another.  Only the global one has links, since    *)
(* Runtime::link writes only there; a missing list is an empty one.        *)
(***************************************************************************)
EXTENDS Integers, Sequences, FiniteSets

CONSTANTS MaxPid,        \* bound of the model: actors ever spawned
          MaxPath,       \* bound of the model: path supervisors ever created
          Scenarios      \* what a behaviour may start from, and its bounds

Pids == 1 .. MaxPid
PathSups == 1 .. MaxPath
Sups == {0} \cup PathSups
Identity == {"watch", "watch_all"}
RestartAll == {"all", "watch_all"}
Spec0 == {"one"} \cup Identity \cup RestartAll
Spec1 == Spec0 \cup {"none"}
Op == {"add", "checked", "unwatch", "remove_child", "link", "unlink", "stop", "create",
       "add_new", "remove"}
MaxAttempts == 3

(* A scenario: the specs of the actors that run initially, for the global  *)
(* supervisor and for the path supervisors that exist, the links between   *)
(* them, the pids a remote monitor watches, the calls that may be made,    *)
(* and the bounds on pids, calls, actors that end and factory failures.    *)
ASSUME SupervisorAssumption ==
  /\ MaxPid \in Nat /\ MaxPath \in Nat
  /\ \A s \in Scenarios :
       /\ Len(s.children) \in 1 .. MaxPid /\ s.children \in Seq(Spec1)
       /\ Len(s.paths) \in 0 .. MaxPath
       /\ \A i \in 1 .. Len(s.paths) : s.paths[i] \in [DOMAIN s.children -> Spec1]
       /\ s.links \subseteq {l \in Pids \X Pids : l[1] < l[2] /\ l[2] <= Len(s.children)}
       /\ s.monitored \subseteq Pids /\ s.ops \subseteq Op
       /\ s.maxPid \in 1 .. MaxPid
       /\ {s.maxOps, s.maxEnds, s.maxErrors} \subseteq Nat

(* Calls of notify_exit: <<by the exit path or by a monitor, on which      *)
(* supervisor, pid>>.  A restart task is named by the call that spawned it *)
(* and by the pid it replaces.                                             *)
Callers == {"exit"} \X Sups \X Pids \cup {"monitor"} \X {0} \X Pids
Tasks == {"exit", "monitor"} \X Sups \X Pids \X Pids

VARIABLES
  scene,       \* the scenario of this behaviour
  phase,       \* where each actor and its wrapping task are
  mailboxes,   \* pids with an entry in Runtime.mailboxes
  visit,       \* path supervisors an exit path's iteration cannot miss
  peers,       \* linked_pids' result in each wrapping task
  inbox,       \* Exit messages delivered to each mailbox
  mount,       \* "in" for the members of Runtime.path_supervisors
  children,    \* Supervisor.children
  restarting,  \* Supervisor.restarting, with the supervisor
  errors,      \* length of Supervisor.errors, over all supervisors
  links,       \* Supervisor.links of the global one
  cleaning,    \* peers' lists still to be cleaned: <<by whom, pid, peer>>
  call,        \* the notify_exit of each caller
  tasks,       \* the restart tasks
  half,        \* the calls from outside that are between two map operations
  ops,         \* calls from outside so far
  owed,        \* history: the actors an ended one was Linked with
  missed       \* history: registered only after the exit had been reported

wrapVars == <<visit, peers, inbox>>
linkVars == <<links, cleaning>>
mapVars == <<children, restarting>>
envVars == <<scene, mount, half, ops>>
histVars == <<owed, missed>>
vars == <<phase, mailboxes, wrapVars, mapVars, errors, linkVars, call, tasks, envVars,
          histVars>>

Elems(s) == {s[i] : i \in 1 .. Len(s)}

(* call with the caller c at another step, tasks with id at another step,  *)
(* and children with another spec for p at the supervisor s.               *)
CallAt(c, pc) == [call EXCEPT ![c] = [pc |-> pc, all |-> call[c].all, todo |-> call[c].todo]]
TaskAt(id, pc, attempts, new) ==
  [tasks EXCEPT ![id] = [pc |-> pc, spec |-> tasks[id].spec, attempts |-> attempts,
                         new |-> new]]
WithChild(s, p, spec) == [children EXCEPT ![s] = [children[s] EXCEPT ![p] = spec]]

Spawned == {p \in Pids : phase[p] # "unborn"}
Ended == {p \in Pids : phase[p] \notin {"unborn", "running"}}
Mounted == {s \in PathSups : mount[s] = "in"}
Registered(s) == {p \in Pids : children[s][p] # "none"}
Initially(s, p) ==
  IF p \notin DOMAIN scene.children THEN "none"
  ELSE IF s = 0 THEN scene.children[p]
  ELSE IF s <= Len(scene.paths) THEN scene.paths[s][p] ELSE "none"

(* The actor a factory or a caller spawns next: running, with a mailbox. *)
SpawnActor(new) ==
  /\ new <= scene.maxPid
  /\ new \notin Spawned /\ \A p \in Pids : p < new => p \in Spawned
  /\ phase' = [phase EXCEPT ![new] = "running"]
  /\ mailboxes' = mailboxes \cup {new}

(* links.remove(&pid): the lists of those it named are cleaned next, one   *)
(* at a time, by whoever took it.                                          *)
RemoveList(by, pid) ==
  /\ links' = [links EXCEPT ![pid] = << >>]
  /\ cleaning' = cleaning \cup {<<by, pid, q>> : q \in Elems(links[pid])}

Cleaned(by) == \A r \in cleaning : r[1] # by

(* mutant: the peer's list is left as it is *)
RetainAll(r) ==
  /\ cleaning' = cleaning \ {r}
  /\ UNCHANGED <<links, phase, mailboxes, wrapVars, mapVars, errors, call, tasks, envVars,
                 histVars>>

(* entry.retain(|p| p != pid) on the list of one peer *)
RetainPeer(r) ==
  /\ links' = [links EXCEPT ![r[3]] = SelectSeq(@, LAMBDA q : q # r[2])]
  /\ cleaning' = cleaning \ {r}
  /\ UNCHANGED <<phase, mailboxes, wrapVars, mapVars, errors, call, tasks, envVars, histVars>>

Init ==
  /\ scene \in Scenarios
  /\ phase = [p \in Pids |-> IF p \in DOMAIN scene.children THEN "running" ELSE "unborn"]
  /\ mailboxes = DOMAIN scene.children
  /\ visit = [p \in Pids |-> {}]
  /\ peers = [p \in Pids |-> << >>] /\ inbox = [p \in Pids |-> << >>]
  /\ mount = [s \in PathSups |-> IF s <= Len(scene.paths) THEN "in" ELSE "new"]
  /\ children = [s \in Sups |-> [p \in Pids |-> Initially(s, p)]]
  /\ restarting = {} /\ errors = 0
  /\ links = [p \in Pids |->
                LET ls == {q \in Pids : <<p, q>> \in scene.links \/ <<q, p>> \in scene.links}
                IN  CHOOSE s \in [1 .. Cardinality(ls) -> ls] : Elems(s) = ls]
  /\ cleaning = {}
  /\ call = [c \in Callers |-> [pc |-> "off", all |-> {}, todo |-> {}]]
  /\ tasks = << >>
  /\ half = {} /\ ops = 0
  /\ owed = [p \in Pids |-> {}] /\ missed = {}
-----------------------------------------------------------------------------
(* The task that wraps an actor *)

(* Linked both ways, and no call is taking the link back. *)
Linked(p, q) ==
  /\ q \in Elems(links[p]) /\ p \in Elems(links[q])
  /\ \A r \in cleaning : {r[2], r[3]} # {p, q}
  /\ \A h \in half : h[1] = "unlink" => {h[2], h[3]} # {p, q}

(* The handler's future ends: it returns or panics, on its own or because  *)
(* its mailbox was closed.                                                 *)
ActorEnds(p) ==
  /\ phase[p] = "running" /\ Cardinality(Ended) < scene.maxEnds
  /\ phase' = [phase EXCEPT ![p] = "unmap"]
  /\ owed' = [owed EXCEPT ![p] = {q \in Pids : Linked(p, q)}]
  /\ UNCHANGED <<mailboxes, wrapVars, mapVars, errors, linkVars, call, tasks, envVars, missed>>

(* mailboxes.remove(&pid); notify_exit is called on the global supervisor. *)
Unmap(p) ==
  /\ phase[p] = "unmap"
  /\ phase' = [phase EXCEPT ![p] = "notify"]
  /\ mailboxes' = mailboxes \ {p}
  /\ call' = CallAt(<<"exit", 0, p>>, "insert")
  /\ UNCHANGED <<wrapVars, mapVars, errors, linkVars, tasks, envVars, histVars>>

(* Then path_supervisors.iter(): it meets every supervisor that is there   *)
(* from now until it gets to it.                                           *)
IteratePaths(p) ==
  /\ phase[p] = "notify" /\ call[<<"exit", 0, p>>].pc = "done"
  /\ phase' = [phase EXCEPT ![p] = "paths"]
  /\ visit' = [visit EXCEPT ![p] = Mounted]
  /\ UNCHANGED <<mailboxes, peers, inbox, mapVars, errors, linkVars, call, tasks, envVars,
                 histVars>>

NotVisiting(p) == \A s \in PathSups : call[<<"exit", s, p>>].pc \in {"off", "done"}
Visit(p, s, pc) ==
  /\ phase[p] = "paths" /\ NotVisiting(p)
  /\ s \in Mounted /\ call[<<"exit", s, p>>].pc = "off"
  /\ call' = CallAt(<<"exit", s, p>>, pc)
  /\ UNCHANGED <<phase, mailboxes, wrapVars, mapVars, errors, linkVars, tasks, envVars, owed>>

(* mutant: nobody but the global supervisor is told *)
VisitNobody(p, s) == Visit(p, s, "done") /\ UNCHANGED missed

(* notify_exit of the next one, if it contains_child. *)
VisitPath(p, s) ==
  \/ children[s][p] # "none" /\ Visit(p, s, "insert") /\ UNCHANGED missed
  \/ children[s][p] = "none" /\ Visit(p, s, "done") /\ missed' = missed \cup {<<s, p>>}

Iterated(p) ==
  /\ phase[p] = "paths" /\ NotVisiting(p)
  /\ \A s \in visit[p] \cap Mounted : call[<<"exit", s, p>>].pc = "done"
  /\ phase' = [phase EXCEPT ![p] = "signal"]
  /\ missed' = missed \cup {<<s, p>> : s \in {t \in PathSups : call[<<"exit", t, p>>].pc = "off"}}
  /\ UNCHANGED <<mailboxes, visit, inbox, mapVars, errors, call, tasks, envVars, owed>>

(* mutant: the list is dropped instead of returned *)
TakeNoLinks(p) ==
  /\ Iterated(p)
  /\ RemoveList(<<"path", 0, p, p>>, p)
  /\ UNCHANGED peers

(* After the last one the pid is deallocated (see Pid) and linked_pids     *)
(* removes the list.                                                       *)
TakeLinks(p) ==
  /\ Iterated(p)
  /\ RemoveList(<<"path", 0, p, p>>, p)
  /\ peers' = [peers EXCEPT ![p] = links[p]]

(* mutant: waits for the peer's mailbox *)
SignalAwaits(p) ==
  /\ phase[p] = "signal" /\ Cleaned(<<"path", 0, p, p>>)
  /\ \/ /\ peers[p] = << >>
        /\ phase' = [phase EXCEPT ![p] = "dead"]
        /\ UNCHANGED <<peers, inbox>>
     \/ /\ peers[p] # << >> /\ Head(peers[p]) \in mailboxes
        /\ peers' = [peers EXCEPT ![p] = Tail(@)]
        /\ inbox' = [inbox EXCEPT ![Head(peers[p])] = Append(@, p)]
        /\ UNCHANGED phase
  /\ UNCHANGED <<mailboxes, visit, mapVars, errors, linkVars, call, tasks, envVars, histVars>>

(* Exit is sent to the next linked pid that still has a mailbox. *)
Signal(p) ==
  /\ phase[p] = "signal" /\ Cleaned(<<"path", 0, p, p>>)
  /\ IF peers[p] = << >>
     THEN /\ phase' = [phase EXCEPT ![p] = "dead"]
          /\ UNCHANGED <<peers, inbox>>
     ELSE /\ peers' = [peers EXCEPT ![p] = Tail(@)]
          /\ inbox' = IF Head(peers[p]) \in mailboxes
                      THEN [inbox EXCEPT ![Head(peers[p])] = Append(@, p)]
                      ELSE inbox
          /\ UNCHANGED phase
  /\ UNCHANGED <<mailboxes, visit, mapVars, errors, linkVars, call, tasks, envVars, histVars>>

ExitStep(p) ==
  \/ Unmap(p) \/ IteratePaths(p) \/ TakeLinks(p) \/ Signal(p)
  \/ \E s \in PathSups : VisitPath(p, s)
-----------------------------------------------------------------------------
(* Supervisor::notify_exit *)

AtStep(c, pc) == call[c].pc = pc
Marked(c) == <<c[2], c[3]>>
Mark(c, next) ==
  /\ AtStep(c, "insert")
  /\ call' = CallAt(c, next)
  /\ restarting' = restarting \cup {Marked(c)}
  /\ UNCHANGED <<phase, mailboxes, wrapVars, children, errors, linkVars, tasks, envVars,
                 histVars>>

(* mutant: no early return *)
NoDebounce(c) == Mark(c, "lookup")

(* The debounce: restarting.insert. *)
Debounce(c) == Mark(c, IF Marked(c) \in restarting THEN "done" ELSE "lookup")

NewTask(s) == [pc |-> "factory", spec |-> s, attempts |-> 0, new |-> 0]

(* The tasks that a call spawns, for the children in new. *)
SpawnTasks(c, new) ==
  tasks' = [id \in DOMAIN tasks \cup {<<c[1], c[2], c[3], m[1]>> : m \in new} |->
              IF id \in DOMAIN tasks THEN tasks[id]
              ELSE NewTask((CHOOSE m \in new : m[1] = id[4])[2])]

LookupAnd(c, none) ==
  LET s == children[c[2]][c[3]]
      next == IF s = "none" THEN none ELSE IF s \in RestartAll THEN "collect" ELSE "done"
  IN  /\ AtStep(c, "lookup")
      /\ call' = CallAt(c, next)
      /\ SpawnTasks(c, IF s \in Spec0 \ RestartAll THEN {<<c[3], s>>} ELSE {})
      /\ missed' = IF s = "none" THEN missed \cup {Marked(c)} ELSE missed
      /\ UNCHANGED <<phase, mailboxes, wrapVars, mapVars, errors, linkVars, envVars, owed>>

(* mutant: without an entry it returns at once *)
LookupKeepsMark(c) == LookupAnd(c, "done")

(* children.get: without an entry the mark is taken back; RestartOne       *)
(* spawns its task.                                                        *)
Lookup(c) == LookupAnd(c, "unmark")

Unmark(c) ==
  /\ AtStep(c, "unmark")
  /\ call' = CallAt(c, "done")
  /\ restarting' = restarting \ {Marked(c)}
  /\ UNCHANGED <<phase, mailboxes, wrapVars, children, errors, linkVars, tasks, envVars,
                 histVars>>

Keys(S) == {m[1] : m \in S}
Snapshot(s) == {<<p, children[s][p]>> : p \in Registered(s)}

(* RestartAll: the iteration over children begins ... *)
Collect(c) ==
  /\ AtStep(c, "collect")
  /\ call' = [call EXCEPT ![c] = [pc |-> "iterate", all |-> Snapshot(c[2]), todo |-> {}]]
  /\ UNCHANGED <<phase, mailboxes, wrapVars, mapVars, errors, linkVars, tasks, envVars,
                 histVars>>

(* ... and ends: it has met, once each, the pids that were there all along *)
(* and any of those that came or went meanwhile ...                        *)
Collected(c) ==
  LET before == call[c].all
      after == Snapshot(c[2])
  IN  /\ AtStep(c, "iterate")
      /\ \E seen \in SUBSET (before \cup after) :
           /\ Keys(before) \cap Keys(after) \subseteq Keys(seen)
           /\ Cardinality(Keys(seen)) = Cardinality(seen)
           /\ call' = [call EXCEPT ![c] = [pc |-> "mark", all |-> seen, todo |-> Keys(seen)]]
      /\ UNCHANGED <<phase, mailboxes, wrapVars, mapVars, errors, linkVars, tasks, envVars,
                     histVars>>

(* ... then its members are marked one by one ... *)
MarkNext(c) ==
  /\ AtStep(c, "mark")
  /\ \E p \in call[c].todo :
       /\ restarting' = restarting \cup {<<c[2], p>>}
       /\ call' = [call EXCEPT ![c] = [pc |-> "mark", all |-> call[c].all,
                                      todo |-> call[c].todo \ {p}]]
  /\ UNCHANGED <<phase, mailboxes, wrapVars, children, errors, linkVars, tasks, envVars,
                 histVars>>

(* ... and one task is spawned for each. *)
SpawnAll(c) ==
  /\ AtStep(c, "mark") /\ call[c].todo = {}
  /\ call' = [call EXCEPT ![c] = [pc |-> "done", all |-> {}, todo |-> {}]]
  /\ SpawnTasks(c, call[c].all)
  /\ UNCHANGED <<phase, mailboxes, wrapVars, mapVars, errors, linkVars, envVars, histVars>>

NotifyStep(c) ==
  \/ Debounce(c) \/ Lookup(c) \/ Unmark(c)
  \/ Collect(c) \/ Collected(c) \/ MarkNext(c) \/ SpawnAll(c)
-----------------------------------------------------------------------------
(* A restart task: id[2] is its supervisor, id[4] the pid it replaces. *)

At(id, pc) == tasks[id].pc = pc
Goto(id, pc) == tasks' = TaskAt(id, pc, tasks[id].attempts, tasks[id].new)

(* The factory succeeds: the actor it spawned runs from now on. *)
FactoryOk(id) ==
  /\ At(id, "factory")
  /\ \E new \in Pids :
       /\ IF tasks[id].spec \in Identity
          THEN new = id[4] /\ UNCHANGED <<phase, mailboxes>>
          ELSE SpawnActor(new)
       /\ tasks' = TaskAt(id, "insert", tasks[id].attempts + 1, new)
  /\ UNCHANGED <<wrapVars, mapVars, errors, linkVars, call, envVars, histVars>>

(* It fails: the error is recorded; after the third failure the child is   *)
(* dropped, before that the task sleeps and tries again.                   *)
FactoryErr(id) ==
  /\ At(id, "factory") /\ tasks[id].spec \notin Identity
  /\ errors < scene.maxErrors
  /\ errors' = errors + 1
  /\ LET n == tasks[id].attempts + 1
     IN  tasks' = TaskAt(id, IF n >= MaxAttempts THEN "remove" ELSE "factory", n, tasks[id].new)
  /\ UNCHANGED <<phase, mailboxes, wrapVars, mapVars, linkVars, call, envVars, histVars>>

SetChild(id, p, s, next) ==
  /\ children' = WithChild(id[2], p, s)
  /\ Goto(id, next)
  /\ UNCHANGED <<phase, mailboxes, wrapVars, restarting, errors, linkVars, call, envVars,
                 histVars>>

(* mutant: the replacement is not registered *)
InsertNothing(id) == At(id, "insert") /\ SetChild(id, tasks[id].new, "none", "remove")

InsertNew(id) == At(id, "insert") /\ SetChild(id, tasks[id].new, tasks[id].spec, "remove")

RemoveOld(id) == At(id, "remove") /\ SetChild(id, id[4], "none", "links")

(* links.remove(&orig_pid), and the lists of those it named. *)
DropLinks(id) ==
  /\ At(id, "links")
  /\ Goto(id, "release")
  /\ IF id[2] = 0 THEN RemoveList(id, id[4]) ELSE UNCHANGED linkVars
  /\ UNCHANGED <<phase, mailboxes, wrapVars, mapVars, errors, call, envVars, histVars>>

Release(id) ==
  /\ At(id, "release") /\ Cleaned(id)
  /\ restarting' = restarting \ {<<id[2], id[4]>>}
  /\ tasks' = [tasks EXCEPT ![id] = [pc |-> "end", spec |-> "none", attempts |-> 0, new |-> 0]]
  /\ UNCHANGED <<phase, mailboxes, wrapVars, children, errors, linkVars, call, envVars,
                 histVars>>

TaskStep(id) ==
  \/ FactoryOk(id) \/ FactoryErr(id) \/ InsertNew(id) \/ RemoveOld(id)
  \/ DropLinks(id) \/ Release(id)
-----------------------------------------------------------------------------
(* Calls from outside *)

Calls(op) == op \in scene.ops /\ ops < scene.maxOps /\ ops' = ops + 1

Insert(s, p, spec) ==
  /\ children' = WithChild(s, p, spec)
  /\ missed' = IF phase[p] = "running" THEN missed ELSE missed \cup {<<s, p>>}
  /\ UNCHANGED <<wrapVars, restarting, errors, linkVars, call, tasks, scene, owed>>

(* add_child and watch, on the global supervisor or on one of a path:      *)
(* supervise, path_supervise_with_factory, and path_supervisor_watch,      *)
(* which takes the global one when the path has none.                      *)
AddChild(s, p, spec) ==
  /\ Calls("add") /\ p \in Spawned /\ s \in Mounted \cup {0}
  /\ Insert(s, p, spec)
  /\ UNCHANGED <<phase, mailboxes, mount, half>>

(* The Python variants of supervise first call the factory; the actor it   *)
(* spawned is not used.                                                    *)
CheckFactory(s, p, spec) ==
  /\ Calls("checked") /\ p \in Spawned /\ s \in Mounted \cup {0} /\ spec \notin Identity
  /\ \E new \in Pids : SpawnActor(new)
  /\ half' = half \cup {<<"checked", s, p, spec, ops>>}
  /\ UNCHANGED <<wrapVars, mapVars, errors, linkVars, call, tasks, scene, mount, histVars>>

AddChecked ==
  \E h \in half :
    /\ h[1] = "checked"
    /\ Insert(h[2], h[3], h[4])
    /\ half' = half \ {h}
    /\ UNCHANGED <<phase, mailboxes, mount, ops>>

Fresh(s) == s \in PathSups /\ mount[s] = "new" /\ \A t \in 1 .. (s - 1) : mount[t] # "new"

(* create_path_supervisor on a path without one. *)
CreatePath(s) ==
  /\ Calls("create") /\ Fresh(s)
  /\ mount' = [mount EXCEPT ![s] = "in"]
  /\ UNCHANGED <<phase, mailboxes, wrapVars, mapVars, errors, linkVars, call, tasks, scene,
                 half, histVars>>

(* path_supervise_with_factory creates the supervisor it misses, and adds  *)
(* the child before anybody else can see it.                               *)
AddToNewPath(s, p, spec) ==
  /\ Calls("add_new") /\ p \in Spawned /\ Fresh(s) /\ spec \notin Identity
  /\ mount' = [mount EXCEPT ![s] = "in"]
  /\ Insert(s, p, spec)
  /\ UNCHANGED <<phase, mailboxes, half>>

(* remove_path_supervisor waits for an exit path that is at this entry;    *)
(* restart tasks of the removed supervisor go on.                          *)
RemovePath(s) ==
  /\ Calls("remove") /\ s \in Mounted
  /\ \A p \in Pids : call[<<"exit", s, p>>].pc \in {"off", "done"}
  /\ mount' = [mount EXCEPT ![s] = "out"]
  /\ UNCHANGED <<phase, mailboxes, wrapVars, mapVars, errors, linkVars, call, tasks, scene,
                 half, histVars>>

(* unwatch and remove_child begin by removing the entry ... *)
RemoveChild(p, op) ==
  /\ Calls(op) /\ p \in Spawned
  /\ children' = WithChild(0, p, "none")
  /\ half' = half \cup {<<op, p, p, ops>>}
  /\ UNCHANGED <<phase, mailboxes, wrapVars, restarting, errors, linkVars, call, tasks, scene,
                 mount, histVars>>

(* ... then take the mark back; remove_child goes on to the links. *)
RemoveMark ==
  \E h \in half :
    /\ h[1] \in {"unwatch", "remove_child"}
    /\ restarting' = restarting \ {<<0, h[2]>>}
    /\ half' = (half \ {h}) \cup
                 IF h[1] = "unwatch" THEN {} ELSE {<<"cleanup", h[2], h[2], h[4]>>}
    /\ UNCHANGED <<phase, mailboxes, wrapVars, children, errors, linkVars, call, tasks, scene,
                   mount, ops, histVars>>

(* link pushes onto one list, then onto the other; neither pid is checked. *)
Link(a, b) ==
  /\ Calls("link") /\ a # b /\ {a, b} \subseteq Spawned
  /\ links' = [links EXCEPT ![a] = Append(@, b)]
  /\ half' = half \cup {<<"link", a, b, ops>>}
  /\ UNCHANGED <<phase, mailboxes, wrapVars, mapVars, errors, cleaning, call, tasks, scene,
                 mount, histVars>>

(* unlink retains in one list, then in the other, linked or not. *)
Unlink(a, b) ==
  /\ Calls("unlink") /\ a # b /\ {a, b} \subseteq Spawned
  /\ links' = [links EXCEPT ![a] = SelectSeq(@, LAMBDA q : q # b)]
  /\ half' = half \cup {<<"unlink", a, b, ops>>}
  /\ owed' = [owed EXCEPT ![a] = @ \ {b}, ![b] = @ \ {a}]
  /\ UNCHANGED <<phase, mailboxes, wrapVars, mapVars, errors, cleaning, call, tasks, scene,
                 mount, missed>>

(* The second map operation of link and unlink. *)
OtherHalf ==
  \E h \in half :
    /\ \/ /\ h[1] = "link"
          /\ links' = [links EXCEPT ![h[3]] = Append(@, h[2])]
       \/ /\ h[1] = "unlink"
          /\ links' = [links EXCEPT ![h[3]] = SelectSeq(@, LAMBDA q : q # h[2])]
    /\ half' = half \ {h}
    /\ UNCHANGED <<phase, mailboxes, wrapVars, mapVars, errors, cleaning, call, tasks, scene,
                   mount, ops, histVars>>

(* cleanup_links_internal, the last call of remove_child. *)
RemoveLinks ==
  \E h \in half :
    /\ h[1] = "cleanup"
    /\ RemoveList(<<"call", 0, h[2], h[2]>>, h[2])
    /\ owed' = [q \in Pids |-> IF q = h[2] THEN {} ELSE owed[q] \ {h[2]}]
    /\ half' = half \ {h}
    /\ UNCHANGED <<phase, mailboxes, wrapVars, mapVars, errors, call, tasks, scene, mount, ops,
                   missed>>

(* stop drops the mailbox; the actor's loop ends by itself. *)
Stop(p) ==
  /\ Calls("stop") /\ p \in mailboxes
  /\ mailboxes' = mailboxes \ {p}
  /\ UNCHANGED <<phase, wrapVars, mapVars, errors, linkVars, call, tasks, scene, mount, half,
                 histVars>>

(* monitor_remote gives the node up: stop(pid), then notify_exit(pid). *)
MonitorDown(p) ==
  /\ p \in scene.monitored /\ p \in Spawned /\ call[<<"monitor", 0, p>>].pc = "off"
  /\ mailboxes' = mailboxes \ {p}
  /\ call' = CallAt(<<"monitor", 0, p>>, "insert")
  /\ UNCHANGED <<phase, wrapVars, mapVars, errors, linkVars, tasks, envVars, histVars>>

Env ==
  \/ \E p \in Pids :
       \/ \E s \in Sups, spec \in Spec0 :
            AddChild(s, p, spec) \/ CheckFactory(s, p, spec) \/ AddToNewPath(s, p, spec)
       \/ \E op \in {"unwatch", "remove_child"} : RemoveChild(p, op)
       \/ Stop(p) \/ MonitorDown(p)
       \/ \E q \in Pids : Link(p, q) \/ Unlink(p, q)
  \/ \E s \in PathSups : CreatePath(s) \/ RemovePath(s)

Next ==
  \/ \E p \in Pids : ActorEnds(p) \/ ExitStep(p)
  \/ \E c \in Callers : NotifyStep(c)
  \/ \E id \in DOMAIN tasks : TaskStep(id)
  \/ \E r \in cleaning : RetainPeer(r)
  \/ AddChecked \/ RemoveMark \/ OtherHalf \/ RemoveLinks
  \/ Env

Spec == Init /\ [][Next]_vars

(* The runtime's worker threads run every task that can take a step; when  *)
(* an actor ends and what the environment calls is left open.              *)
Fairness ==
  /\ \A p \in Pids : WF_vars(ExitStep(p))
  /\ \A c \in Callers : WF_vars(NotifyStep(c))
  /\ \A id \in Tasks : WF_vars(id \in DOMAIN tasks /\ TaskStep(id))
  /\ WF_vars(\E r \in cleaning : RetainPeer(r))

FairSpec == Spec /\ Fairness
-----------------------------------------------------------------------------
(* Properties *)

(* No exit path, notify_exit, restart task or link call is under way. *)
Quiet ==
  /\ \A p \in Pids : phase[p] \in {"unborn", "running", "dead"}
  /\ \A c \in Callers : call[c].pc \in {"off", "done"}
  /\ \A id \in DOMAIN tasks : tasks[id].pc = "end"
  /\ half = {} /\ cleaning = {}

(* A restarting mark always has somebody who will take it back: the        *)
(* notify_exit that set it, a restart task of that pid or the call that is *)
(* removing the child.  A mark left behind would make notify_exit ignore   *)
(* every later exit of the pid.                                            *)
NoLeakedMark ==
  \A m \in restarting :
    \/ \E c \in Callers :
         /\ c[2] = m[1] /\ c[3] = m[2]
         /\ call[c].pc \in {"lookup", "unmark", "collect", "iterate", "mark"}
    \/ \E c \in Callers :
         c[2] = m[1] /\ call[c].pc = "mark" /\ m[2] \in Keys(call[c].all)
    \/ \E id \in DOMAIN tasks : id[2] = m[1] /\ id[4] = m[2] /\ tasks[id].pc # "end"
    \/ \E h \in half : h[1] \in {"unwatch", "remove_child"} /\ <<0, h[2]>> = m

Restarts(s, p) == {id \in DOMAIN tasks : id[2] = s /\ id[4] = p}

(* A supervisor restarts a pid at most once, however many exit signals     *)
(* arrive for it and whatever group it belongs to: what the marks of a     *)
(* RestartAll wave are there for (supervisor.rs:190).                      *)
AtMostOneRestart == \A s \in Sups, p \in Pids : \A i, j \in Restarts(s, p) : i = j

(* Without RestartAll children, and as long as nobody registers a pid      *)
(* again, a supervisor restarts a pid at most once, though its exit is     *)
(* reported by its own exit path and by a remote monitor: the debounce in  *)
(* notify_exit.                                                            *)
RestartOneDebounced ==
  ops = 0 /\ (\A s \in Sups, p \in Pids : Initially(s, p) \notin RestartAll)
    => AtMostOneRestart

(* Until children are removed or added from outside, no supervisor loses a *)
(* child with a factory except by a permanent drop, and each drop has its  *)
(* max_attempts recorded errors: the replacement is inserted before the    *)
(* old pid is removed, by whichever tasks are running.                     *)
ChildrenNeverLost ==
  ops = 0 =>
    \A s \in Sups :
      Cardinality({p \in Pids : children[s][p] \notin Identity \cup {"none"}})
        + errors \div MaxAttempts
      >= Cardinality({p \in Pids : Initially(s, p) \notin Identity \cup {"none"}})

DeadChildren ==
  {m \in Sups \X Pids : children[m[1]][m[2]] # "none" /\ phase[m[2]] = "dead"}

(* When everything has settled, and nobody registered a child meanwhile,   *)
(* no dead actor is registered with any supervisor, except one that its    *)
(* restart task inserted after notify_exit had looked for it, and those of *)
(* a path supervisor that had been removed when they ended.                *)
NoDeadChild == Quiet /\ ops = 0 => DeadChildren \subseteq missed

(* Supervision leaves no actor behind: when everything has settled, an     *)
(* actor that a supervisor started with or has spawned, and that still     *)
(* runs and has its mailbox, is registered, unless a RestartAll wave       *)
(* replaced it as the live sibling of the actor that ended: nothing stops  *)
(* such a sibling (supervisor.rs:197).                                     *)
RunningIsSupervised ==
  Quiet /\ ops = 0 =>
    \A p \in mailboxes :
      /\ phase[p] = "running"
      /\ p \in DOMAIN scene.children => \E s \in Sups : Initially(s, p) # "none"
      => \/ \E s \in Sups : p \in Registered(s)
         \/ \E id \in DOMAIN tasks : id[4] = p /\ id[3] # p

Told(p, q) ==
  phase[p] = "dead" /\ q \in owed[p] /\ q \in mailboxes => p \in Elems(inbox[q])

(* Every actor linked to one that ended, and still in the mailbox table,   *)
(* has been sent its Exit by the time the exit path is over.               *)
LinkedAreTold == \A p, q \in Pids : Told(p, q)

(* The same between two actors neither of which the global supervisor      *)
(* started a restart task for: linked_pids in the exit path is then the    *)
(* only taker of their lists, and it takes each before it signals.  A      *)
(* path supervisor that restarts them does not get in the way.             *)
UnsupervisedLinkedAreTold ==
  \A p, q \in Pids : Restarts(0, p) = {} /\ Restarts(0, q) = {} => Told(p, q)

(* When everything has settled, and no link was made from outside          *)
(* meanwhile, links are mutual and between running actors: whoever took a  *)
(* dead actor's list also cleaned its peers'.                              *)
LinksSettle ==
  Quiet /\ ops = 0 =>
    \A a, b \in Pids :
      b \in Elems(links[a]) =>
        /\ a \in Elems(links[b])
        /\ phase[a] = "running" /\ phase[b] = "running"

(* Supervision comes to rest: the task that wraps an actor runs to its     *)
(* end, through notify_exit of every supervisor, linked_pids and the Exit  *)
(* messages, whatever its peers do and whichever path supervisors come and *)
(* go (lib.rs:439); all restarting marks are taken back                    *)
(* (supervisor.rs:160); and dead actors have left their supervisors,       *)
(* except for those NoDeadChild excepts.                                   *)
SupervisionSettles ==
  []<>(/\ \A p \in Ended : phase[p] = "dead"
       /\ restarting = {}
       /\ DeadChildren \subseteq missed)
=============================================================================
