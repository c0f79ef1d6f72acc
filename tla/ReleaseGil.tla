----------------------------- MODULE ReleaseGil -----------------------------
(***************************************************************************)
(* Push actors written in Python (spawn_py_handler, src/py.rs): how an     *)
(* actor spawned with release_gil gets a thread of its own or shares the   *)
(* pool, how its loop hands messages and hot swaps over, and how they are  *)
(* executed under the interpreter's lock (GIL) and the read-write lock of  *)
(* the actor's behaviour.                                                  *)
(*                                                                         *)
(* The messages of an actor are numbered in the order its loop takes them, *)
(* hot swaps first (see Mailbox); a behaviour is the number of the swap    *)
(* that installed it, 0 at first.  A callback may let go of the GIL and    *)
(* come back once, as a blocking call inside it does.                      *)
(***************************************************************************)
EXTENDS Integers, Sequences, FiniteSets

CONSTANTS Actors,      \* calls of spawn_py_handler
          MaxThreads,  \* release_gil_max_threads
          PoolSize,    \* gil_pool_size
          Strict,      \* release_gil_strict
          MaxUser,     \* bound of the model: user messages in all
          MaxSwap      \* bound of the model: hot swaps in all

ASSUME ReleaseGilAssumption ==
  /\ IsFiniteSet(Actors) /\ MaxThreads \in Nat /\ PoolSize \in Nat
  /\ Strict \in BOOLEAN /\ MaxUser \in Nat /\ MaxSwap \in Nat

Workers == {"worker"} \X (1 .. PoolSize)
Executors == ({"thread", "loop"} \X Actors) \cup Workers
Thread(a) == <<"thread", a>>
Loop(a) == <<"loop", a>>
Caller(a) == <<"caller", a>>   \* of spawn_py_handler

VARIABLES
  count,     \* RELEASE_GIL_THREADS
  actor,     \* the step of each spawn_py_handler, then the kind of the actor
  thread,    \* the dedicated thread of each actor
  pool,      \* GIL_WORKER_POOL: whether it exists, and its queue
  open,      \* actors whose mailbox is open
  mail,      \* user messages and hot swaps waiting in each mailbox
  loop,      \* the message loop of each actor
  chan,      \* the channel to each dedicated thread
  exec,      \* what each executor does
  gil,       \* who holds the GIL
  readers,   \* who holds the behaviour's lock for reading
  behavior,  \* the behaviour of each actor
  python,    \* Py_IsInitialized
  sent,      \* how many messages of each kind have been sent
  taken,     \* history: the messages each loop has taken, in order
  ran        \* history: callbacks finished, with the behaviour that ran

spawnVars == <<count, actor, thread, pool>>
mailVars == <<open, mail, loop, sent>>
runVars == <<gil, readers, behavior, ran>>
vars == <<spawnVars, mailVars, chan, exec, runVars, python, taken>>

Free == <<"nobody", 0>>
Resting == [pc |-> "idle"]
Work(a, n, kind) == [a |-> a, n |-> n, kind |-> kind]

Init ==
  /\ count = 0 /\ actor = [a \in Actors |-> "off"] /\ thread = [a \in Actors |-> "none"]
  /\ pool = [ready |-> FALSE, queue |-> << >>]
  /\ open = {} /\ mail = [a \in Actors |-> [user |-> 0, swap |-> 0]]
  /\ loop = [a \in Actors |-> "none"] /\ sent = [user |-> 0, swap |-> 0]
  /\ chan = [a \in Actors |-> << >>]
  /\ exec = [e \in Executors |-> Resting]
  /\ gil = Free /\ readers = [a \in Actors |-> {}] /\ behavior = [a \in Actors |-> 0]
  /\ python = TRUE
  /\ taken = [a \in Actors |-> << >>] /\ ran = [a \in Actors |-> << >>]
-----------------------------------------------------------------------------
(* spawn_py_handler.  A method called from Python runs with the GIL from    *)
(* beginning to end, but a dedicated thread ends without it.               *)

Step(a, from, to) == actor[a] = from /\ actor' = [actor EXCEPT ![a] = to]
EnterCall(a) == python /\ gil = Free /\ gil' = Caller(a)
ExitCall(a) == gil = Caller(a) /\ gil' = Free

(* spawn_handler_with_budget: the actor runs, and the method returns. *)
Started(a) ==
  /\ open' = open \cup {a} /\ loop' = [loop EXCEPT ![a] = "on"]
  /\ UNCHANGED <<mail, sent, chan, exec, readers, behavior, ran, python, taken>>

NotStarted == UNCHANGED <<pool, mailVars, chan, exec, readers, behavior, ran, python, taken>>

(* release_gil is false. *)
SpawnInline(a) ==
  /\ Step(a, "off", "inline") /\ python /\ gil = Free /\ Started(a)
  /\ UNCHANGED <<count, thread, pool, gil>>

(* mutant: one thread too many *)
AddAtLimit(a) ==
  /\ Step(a, "off", IF count > MaxThreads THEN "refused" ELSE "admitted") /\ EnterCall(a)
  /\ count' = count + 1
  /\ NotStarted /\ UNCHANGED thread

(* release_gil: fetch_add, and its old value is compared with the limit. *)
Add(a) ==
  /\ Step(a, "off", IF count >= MaxThreads THEN "refused" ELSE "admitted") /\ EnterCall(a)
  /\ count' = count + 1
  /\ NotStarted /\ UNCHANGED thread

(* Admitted: a thread is spawned, then the actor. *)
SpawnDedicated(a) ==
  /\ Step(a, "admitted", "dedicated") /\ ExitCall(a) /\ Started(a)
  /\ thread' = [thread EXCEPT ![a] = "on"]
  /\ UNCHANGED <<count, pool>>

Refuse(a, less) ==
  /\ Step(a, "refused", IF Strict THEN "failed" ELSE "fallback")
  /\ gil' = IF Strict THEN Free ELSE gil
  /\ count' = count - less
  /\ NotStarted /\ UNCHANGED thread

(* mutant: the refusal stays counted *)
KeepCount(a) == Refuse(a, 0)

(* Refused: fetch_sub; an error in strict mode ... *)
TakeBack(a) == Refuse(a, 1)

(* ... else the pool is made if there is none, and the actor spawned. *)
SpawnPooled(a) ==
  /\ Step(a, "fallback", "pooled") /\ ExitCall(a) /\ Started(a)
  /\ pool' = [ready |-> TRUE, queue |-> pool.queue]
  /\ UNCHANGED <<count, thread>>

SpawnStep(a) == SpawnDedicated(a) \/ TakeBack(a) \/ SpawnPooled(a)
-----------------------------------------------------------------------------
(* The actor's mailbox and loop *)

(* Runtime::send and Runtime::hot_swap *)
Post(a, k, bound) ==
  /\ a \in open /\ sent[k] < bound
  /\ sent' = [sent EXCEPT ![k] = @ + 1]
  /\ mail' = [mail EXCEPT ![a][k] = @ + 1]
  /\ UNCHANGED <<spawnVars, open, loop, chan, exec, runVars, python, taken>>

Take(a, k) ==
  /\ loop[a] = "on" /\ exec[Loop(a)] = Resting
  /\ mail[a][k] > 0 /\ (k = "user" => mail[a].swap = 0)
  /\ mail' = [mail EXCEPT ![a][k] = @ - 1]

(* mutant: a swap is applied by the loop, ahead of what the thread still   *)
(* has in its channel                                                      *)
HandleSwapsHere(a, k) ==
  LET w == Work(a, Len(taken[a]) + 1, k)
  IN  /\ Take(a, k)
      /\ taken' = [taken EXCEPT ![a] = Append(@, k)]
      /\ IF python /\ actor[a] = "dedicated" /\ k = "user"
         THEN chan' = [chan EXCEPT ![a] = Append(@, w)] ELSE UNCHANGED chan
      /\ IF python /\ actor[a] = "pooled"
         THEN pool' = [ready |-> pool.ready, queue |-> Append(pool.queue, w)] ELSE UNCHANGED pool
      /\ IF python /\ (actor[a] = "inline" \/ (k = "swap" /\ actor[a] = "dedicated"))
         THEN exec' = [exec EXCEPT ![Loop(a)] = [pc |-> "gil", work |-> w]]
         ELSE UNCHANGED exec
      /\ UNCHANGED <<count, actor, thread, open, loop, sent, runVars, python>>

(* The handler: a message goes to the dedicated thread or to the pool, or  *)
(* is executed on the spot; without an interpreter it is dropped.  Exit,   *)
(* Ping and Pong change nothing: Exit drops a clone of the sender, of      *)
(* which the handler keeps the original.                                   *)
Handle(a, k) ==
  LET w == Work(a, Len(taken[a]) + 1, k)
  IN  /\ Take(a, k)
      /\ taken' = [taken EXCEPT ![a] = Append(@, k)]
      /\ IF python /\ actor[a] = "dedicated"
         THEN chan' = [chan EXCEPT ![a] = Append(@, w)] ELSE UNCHANGED chan
      /\ IF python /\ actor[a] = "pooled" /\ pool.ready
         THEN pool' = [ready |-> pool.ready, queue |-> Append(pool.queue, w)] ELSE UNCHANGED pool
      /\ IF python /\ (actor[a] = "inline" \/ (actor[a] = "pooled" /\ ~pool.ready))
         THEN exec' = [exec EXCEPT ![Loop(a)] = [pc |-> "gil", work |-> w]]
         ELSE UNCHANGED exec
      /\ UNCHANGED <<count, actor, thread, open, loop, sent, runVars, python>>

Stop(a) ==
  /\ a \in open
  /\ open' = open \ {a}
  /\ UNCHANGED <<spawnVars, mail, loop, sent, chan, exec, runVars, python, taken>>

(* recv returns None: the loop ends and with it the handler, the last      *)
(* owner of the sender to the dedicated thread.                            *)
LoopEnds(a) ==
  /\ loop[a] = "on" /\ a \notin open /\ exec[Loop(a)] = Resting
  /\ loop' = [loop EXCEPT ![a] = "ended"]
  /\ mail' = [mail EXCEPT ![a] = [user |-> 0, swap |-> 0]]
  /\ UNCHANGED <<spawnVars, open, sent, chan, exec, runVars, python, taken>>

LoopStep(a) == LoopEnds(a) \/ \E k \in {"user", "swap"} : Handle(a, k)
-----------------------------------------------------------------------------
(* Dedicated threads and pool workers *)

Begin(e, w) == exec' = [exec EXCEPT ![e] = [pc |-> "gil", work |-> w]]

(* recv_timeout returns a message; without an interpreter it is dropped. *)
ThreadTakes(a) ==
  /\ thread[a] = "on" /\ exec[Thread(a)] = Resting /\ chan[a] # << >>
  /\ chan' = [chan EXCEPT ![a] = Tail(@)]
  /\ IF python THEN Begin(Thread(a), Head(chan[a])) ELSE UNCHANGED exec
  /\ UNCHANGED <<spawnVars, mailVars, runVars, python, taken>>

Leave(a, ready) ==
  /\ thread[a] = "on" /\ exec[Thread(a)] = Resting /\ ready
  /\ thread' = [thread EXCEPT ![a] = "ended"]
  /\ count' = count - 1
  /\ UNCHANGED <<actor, pool, mailVars, chan, exec, runVars, python, taken>>

(* mutants: ends with messages in its channel; does not see that the       *)
(* sender is gone                                                          *)
ThreadEndsEarly(a) == Leave(a, ~python \/ loop[a] = "ended")
ThreadStays(a) == Leave(a, ~python)

(* The interpreter is gone, or the sender is and the channel is empty. *)
ThreadEnds(a) == Leave(a, ~python \/ (loop[a] = "ended" /\ chan[a] = << >>))

WorkerTakes(e) ==
  /\ e \in Workers /\ python /\ exec[e] = Resting /\ pool.queue # << >>
  /\ pool' = [ready |-> pool.ready, queue |-> Tail(pool.queue)]
  /\ Begin(e, Head(pool.queue))
  /\ UNCHANGED <<count, actor, thread, mailVars, chan, runVars, python, taken>>
-----------------------------------------------------------------------------
(* The execution of a message *)

At(e, pc) == exec[e].pc = pc
Goto(e, pc) == exec' = [exec EXCEPT ![e] = [pc |-> pc, work |-> exec[e].work]]

(* Python::with_gil; a finalised interpreter gives its lock to nobody. *)
TakeGil(e) ==
  /\ exec[e].pc \in {"gil", "away"} /\ gil = Free /\ python
  /\ gil' = e
  /\ Goto(e, IF At(e, "gil") THEN "lock" ELSE "back")
  /\ UNCHANGED <<spawnVars, mailVars, chan, readers, behavior, ran, python, taken>>

(* A user message: behavior.read(), and the callback is called.  Whoever   *)
(* writes holds the GIL as well, so that no writer is in the way.          *)
Call(e) ==
  /\ At(e, "lock") /\ exec[e].work.kind = "user"
  /\ readers' = [readers EXCEPT ![exec[e].work.a] = @ \cup {e}]
  /\ Goto(e, "call")
  /\ UNCHANGED <<spawnVars, mailVars, chan, gil, behavior, ran, python, taken>>

(* The callback blocks in a call that lets go of the GIL. *)
Away(e) ==
  /\ At(e, "call")
  /\ gil' = Free
  /\ Goto(e, "away")
  /\ UNCHANGED <<spawnVars, mailVars, chan, readers, behavior, ran, python, taken>>

(* It returns: guard and GIL are released. *)
Return(e) ==
  LET w == exec[e].work
  IN  /\ exec[e].pc \in {"call", "back"}
      /\ ran' = [ran EXCEPT ![w.a] = Append(@, [n |-> w.n, by |-> behavior[w.a]])]
      /\ readers' = [readers EXCEPT ![w.a] = @ \ {e}]
      /\ gil' = Free
      /\ exec' = [exec EXCEPT ![e] = Resting]
      /\ UNCHANGED <<spawnVars, mailVars, chan, behavior, python, taken>>

(* A hot swap: behavior.write() waits, with the GIL, for the readers. *)
Swap(e) ==
  LET w == exec[e].work
  IN  /\ At(e, "lock") /\ w.kind = "swap" /\ readers[w.a] = {}
      /\ behavior' = [behavior EXCEPT ![w.a] = w.n]
      /\ gil' = Free
      /\ exec' = [exec EXCEPT ![e] = Resting]
      /\ UNCHANGED <<spawnVars, mailVars, chan, readers, ran, python, taken>>

ExecStep(e) == TakeGil(e) \/ Call(e) \/ Return(e) \/ Swap(e)

(* The interpreter shuts down. *)
Finalize ==
  /\ python /\ gil = Free
  /\ python' = FALSE
  /\ UNCHANGED <<spawnVars, mailVars, chan, exec, runVars, taken>>

Next ==
  \/ \E a \in Actors :
       \/ SpawnInline(a) \/ Add(a) \/ SpawnStep(a)
       \/ Post(a, "user", MaxUser) \/ Post(a, "swap", MaxSwap) \/ Stop(a)
       \/ LoopStep(a) \/ ThreadTakes(a) \/ ThreadEnds(a)
  \/ \E e \in Executors : WorkerTakes(e) \/ ExecStep(e) \/ Away(e)
  \/ Finalize

Spec == Init /\ [][Next]_vars

(* Tasks and threads that can go on do; callbacks return.  Messages are    *)
(* finitely many, so that nobody is kept from the GIL by others for ever.  *)
Fairness ==
  /\ \A a \in Actors :
       WF_vars(SpawnStep(a)) /\ WF_vars(LoopStep(a))
         /\ WF_vars(ThreadTakes(a)) /\ WF_vars(ThreadEnds(a))
  /\ \A e \in Executors : WF_vars(WorkerTakes(e)) /\ WF_vars(ExecStep(e))

FairSpec == Spec /\ Fairness
-----------------------------------------------------------------------------
Counted == {a \in Actors : actor[a] \in {"admitted", "refused"} \/ thread[a] = "on"}
Dedicated == {a \in Actors : actor[a] = "admitted" \/ thread[a] = "on"}

(* RELEASE_GIL_THREADS counts the running threads and the spawns that are  *)
(* under way, and nothing else: a refusal or the end of a thread gives its *)
(* place back exactly once.                                                *)
CountExact == count = Cardinality(Counted)

(* There are never more dedicated threads than release_gil_max_threads     *)
(* (py.rs:732), though threads end while a spawn compares and retracts.    *)
ThreadBound == Cardinality(Dedicated) <= MaxThreads

SwapsBefore(a, n) == {k \in 1 .. (n - 1) : taken[a][k] = "swap"}
Latest(S) == IF S = {} THEN 0 ELSE CHOOSE k \in S : \A j \in S : j <= k
LastSwap(a, n) == Latest(SwapsBefore(a, n))

(* An actor that does not share the pool runs its messages in the order    *)
(* its loop took them, each with the behaviour of the last swap before it, *)
(* though the thread that does it is another one.                          *)
SwapsInOrder ==
  \A a \in Actors : actor[a] \in {"inline", "dedicated"} =>
    \A i \in 1 .. Len(ran[a]) :
      /\ ran[a][i].by = LastSwap(a, ran[a][i].n)
      /\ i > 1 => ran[a][i - 1].n < ran[a][i].n

(* A swap waits, with the GIL, for a callback that waits for the GIL. *)
Stuck ==
  \E e, f \in Executors :
    /\ gil = e /\ At(e, "lock") /\ exec[e].work.kind = "swap"
    /\ f \in readers[exec[e].work.a] /\ At(f, "away")

(* An actor that does not share the pool cannot cause that: its messages   *)
(* and swaps have one executor.                                            *)
OnlyPoolSticks ==
  Stuck => actor[exec[gil].work.a] = "pooled"

Unrun(a) ==
  {n \in 1 .. Len(taken[a]) : taken[a][n] = "user"} \ {ran[a][i].n : i \in 1 .. Len(ran[a])}

(* Every user message that a loop takes is run in the end, also when the   *)
(* actor has been stopped meanwhile, unless the interpreter is shut down   *)
(* or stuck.                                                               *)
TakenIsRun == []<>(\A a \in Actors : Unrun(a) = {} \/ ~python \/ Stuck)

(* A dedicated thread does not outlive its actor for ever: it ends and     *)
(* gives its place under the limit back, with the same exceptions.         *)
ThreadIsReturned ==
  []<>(\A a \in Actors : thread[a] # "on" \/ loop[a] # "ended" \/ ~python \/ Stuck)
=============================================================================
