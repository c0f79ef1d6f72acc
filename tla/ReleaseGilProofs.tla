-------------------------- MODULE ReleaseGilProofs --------------------------
(***************************************************************************)
(* CountExact, ThreadBound, SwapsInOrder and OnlyPoolSticks of ReleaseGil, *)
(* for every finite set of spawn calls, every limit, pool and number of    *)
(* messages.                                                               *)
(*                                                                         *)
(* For the order, work is where it belongs (PlaceInv, which also says who  *)
(* holds the locks), and the messages of an actor that does not share the  *)
(* pool are consecutive: those that have run, the one its only executor is *)
(* at, those in the channel (OrderInv).  Without an interpreter messages   *)
(* are dropped, but nobody can run one any more either.                    *)
(*                                                                         *)
(* The counter and the limit concern three variables only; an action that  *)
(* leaves them alone preserves the invariant.  The others add one actor to *)
(* a set or take one away, so that the argument is about the cardinalities *)
(* of Counted and of its subset Dedicated.                                 *)
(***************************************************************************)
EXTENDS ReleaseGil, TLAPS

Kinds == {"off", "inline", "refused", "admitted", "fallback", "failed",
          "dedicated", "pooled"}

(* Works and who executes them *)

Kind == {"user", "swap"}
Works == [a : Actors, n : Nat, kind : Kind]
Jobs == [pc : {"gil", "lock", "call", "away", "back"}, work : Works]
Runs == [n : Nat, by : Nat]

(* Who executes the messages of an actor. *)
Assigned(e, a) ==
  \/ actor[a] = "inline" /\ e = Loop(a)
  \/ actor[a] = "dedicated" /\ e = Thread(a)
  \/ actor[a] = "pooled" /\ (e = Loop(a) \/ e \in Workers)

KindInv == actor \in [Actors -> Kinds]

ExecInv ==
  /\ exec \in [Executors -> Jobs \cup {Resting}]
  /\ \A e \in Executors : exec[e] # Resting => Assigned(e, exec[e].work.a)

LoopInv ==
  /\ loop \in [Actors -> {"none", "on", "ended"}]
  /\ \A a \in Actors : loop[a] = "on" => actor[a] \in {"inline", "dedicated", "pooled"}

ChanInv ==
  /\ chan \in [Actors -> Seq(Works)]
  /\ \A a \in Actors : chan[a] # << >> =>
       actor[a] = "dedicated" /\ \A i \in 1 .. Len(chan[a]) : chan[a][i].a = a

PoolInv ==
  /\ pool.queue \in Seq(Works)
  /\ \A i \in 1 .. Len(pool.queue) : actor[pool.queue[i].a] = "pooled"

(* Readers are in a callback of the actor. *)
ReadInv ==
  /\ readers \in [Actors -> SUBSET Executors]
  /\ \A a \in Actors : \A f \in readers[a] :
       exec[f].pc \in {"call", "away", "back"} /\ exec[f].work.a = a

(* Who is at a step with the GIL holds it; nobody does after the end. *)
GilInv ==
  /\ \A e \in Executors :
       /\ exec[e].pc \in {"lock", "call", "back"} => gil = e
       /\ exec[e].pc \in {"call", "away", "back"} => exec[e].work.kind = "user"
  /\ \A a \in Actors : actor[a] \in {"admitted", "refused", "fallback"} => gil = Caller(a)
  /\ ~python => gil = Free

PlaceInv == KindInv /\ ExecInv /\ LoopInv /\ ChanInv /\ PoolInv /\ ReadInv /\ GilInv

(* Executors, callers and nobody are all different. *)
LEMMA Places ==
  ASSUME NEW a \in Actors
  PROVE  /\ Loop(a) \in Executors /\ Thread(a) \in Executors
         /\ Loop(a) \notin Workers /\ Thread(a) \notin Workers
         /\ \A b \in Actors :
              /\ Loop(a) # Thread(b)
              /\ Loop(a) = Loop(b) \/ Thread(a) = Thread(b) \/ Caller(a) = Caller(b) => a = b
         /\ Caller(a) # Free
         /\ \A e \in Executors : e # Caller(a)
BY DEF Loop, Thread, Caller, Free, Executors, Workers

LEMMA NobodyExecutes ==
  ASSUME NEW e \in Executors
  PROVE  e # Free
BY DEF Free, Executors, Workers

(* Sequences and functions, as used below. *)
LEMMA ElementOf ==
  ASSUME NEW S, NEW s \in Seq(S), NEW i \in 1 .. Len(s)
  PROVE  s[i] \in S
OBVIOUS

LEMMA TailOf ==
  ASSUME NEW S, NEW s \in Seq(S), s # << >>
  PROVE  /\ Len(s) \in Nat /\ Len(s) > 0 /\ Head(s) = s[1] /\ Head(s) \in S
         /\ Tail(s) \in Seq(S) /\ Len(Tail(s)) = Len(s) - 1
         /\ \A i \in 1 .. Len(s) - 1 : Tail(s)[i] = s[i + 1]
OBVIOUS

LEMMA Appended ==
  ASSUME NEW S, NEW s \in Seq(S), NEW x \in S
  PROVE  /\ Append(s, x) \in Seq(S) /\ Append(s, x) # << >>
         /\ Len(s) \in Nat /\ Len(Append(s, x)) = Len(s) + 1
         /\ Append(s, x)[Len(s) + 1] = x
         /\ \A i \in 1 .. Len(s) : Append(s, x)[i] = s[i]
OBVIOUS

LEMMA Updated ==
  ASSUME NEW S, NEW T, NEW f \in [S -> T], NEW x \in S, NEW y \in T
  PROVE  /\ [f EXCEPT ![x] = y] \in [S -> T] /\ [f EXCEPT ![x] = y][x] = y
         /\ \A z \in S : z # x => [f EXCEPT ![x] = y][z] = f[z]
OBVIOUS

(* What an executor is at. *)
LEMMA JobOf ==
  ASSUME ExecInv, NEW e \in Executors
  PROVE  /\ exec[e] = Resting <=> exec[e].pc = "idle"
         /\ exec[e].pc \in {"idle", "gil", "lock", "call", "away", "back"}
         /\ exec[e] # Resting =>
              /\ exec[e].work \in Works /\ exec[e].work.a \in Actors
              /\ exec[e].work.n \in Nat /\ exec[e].work.kind \in Kind
<1>1. exec[e] \in Jobs \/ exec[e] = Resting
  BY DEF ExecInv
<1> QED
  BY <1>1 DEF Jobs, Works, Resting

(* For an actor that does not share the pool: its only executor. *)
Home(a) == IF actor[a] = "inline" THEN Loop(a) ELSE Thread(a)

LEMMA HomeWorks ==
  ASSUME ExecInv, NEW a \in Actors, NEW e \in Executors, exec[e] # Resting
  PROVE  /\ e = Loop(a) \/ e = Thread(a) => exec[e].work.a = a
         /\ exec[e].work.a = a => actor[a] \in {"inline", "dedicated", "pooled"}
         /\ exec[e].work.a = a /\ actor[a] # "pooled" => e = Home(a)
<1>1. Assigned(e, exec[e].work.a) /\ exec[e].work.a \in Actors
  BY JobOf DEF ExecInv
<1> QED
  BY <1>1, Places DEF Assigned, Home

(* An executor turns to a job: what is said of all executors is kept if it *)
(* holds of this one.                                                      *)
LEMMA ExecMoves ==
  ASSUME ExecInv, NEW e \in Executors, NEW j, j \in Jobs \/ j = Resting,
         exec' = [exec EXCEPT ![e] = j], actor' = actor, j # Resting => Assigned(e, j.work.a)
  PROVE  /\ ExecInv' /\ exec'[e] = j
         /\ \A f \in Executors : f # e => exec'[f] = exec[f]
<1>1. /\ exec' \in [Executors -> Jobs \cup {Resting}]
      /\ exec'[e] = j /\ \A f \in Executors : f # e => exec'[f] = exec[f]
  <2>1. j \in Jobs \cup {Resting}
    OBVIOUS
  <2> QED
    BY Zenon, <2>1, Updated DEF ExecInv
<1> QED
  BY <1>1 DEF ExecInv, Assigned

LEMMA GoesOn ==
  ASSUME ExecInv, NEW e \in Executors, exec[e] # Resting, actor' = actor,
         NEW pc \in {"gil", "lock", "call", "away", "back"},
         exec' = [exec EXCEPT ![e] = [pc |-> pc, work |-> exec[e].work]]
  PROVE  /\ ExecInv' /\ exec'[e] # Resting /\ exec'[e].pc = pc /\ exec'[e].work = exec[e].work
         /\ \A f \in Executors : f # e => exec'[f] = exec[f]
<1>1. PICK j : j = [pc |-> pc, work |-> exec[e].work]
  BY Zenon
<1>2. j \in Jobs /\ j # Resting /\ j.pc = pc /\ j.work = exec[e].work
  BY <1>1, JobOf DEF Jobs, Resting
<1>3. Assigned(e, j.work.a)
  BY <1>2 DEF ExecInv
<1> QED
  BY Zenon, <1>1, <1>2, <1>3, ExecMoves

LEMMA Begins ==
  ASSUME ExecInv, NEW e \in Executors, NEW w \in Works, Assigned(e, w.a), actor' = actor, Begin(e, w)
  PROVE  /\ ExecInv' /\ exec'[e] # Resting /\ exec'[e].pc = "gil" /\ exec'[e].work = w
         /\ \A f \in Executors : f # e => exec'[f] = exec[f]
<1>1. PICK j : j = [pc |-> "gil", work |-> w]
  BY Zenon
<1>2. j \in Jobs /\ j # Resting /\ j.pc = "gil" /\ j.work = w
  BY <1>1 DEF Jobs, Resting
<1> QED
  BY Zenon, <1>1, <1>2, ExecMoves DEF Begin

(* What does not depend on the executors. *)
LEMMA QueuesKept ==
  ASSUME PlaceInv, UNCHANGED <<actor, loop, chan, pool>>
  PROVE  KindInv' /\ LoopInv' /\ ChanInv' /\ PoolInv'
BY DEF PlaceInv, KindInv, LoopInv, ChanInv, PoolInv

(* An executor that is in no callback begins a message. *)
LEMMA BeginKeeps ==
  ASSUME ReadInv, GilInv, NEW e \in Executors, exec[e] = Resting, exec'[e].pc = "gil",
         \A f \in Executors : f # e => exec'[f] = exec[f], UNCHANGED <<actor, readers, gil, python>>
  PROVE  ReadInv' /\ GilInv'
<1>1. exec[e].pc = "idle"
  BY DEF Resting
<1>2. ReadInv'
  BY <1>1 DEF ReadInv
<1>3. GilInv'
  BY DEF GilInv
<1> QED
  BY <1>2, <1>3

(* The steps of an executor within a message. *)
LEMMA TakeGilKeeps ==
  ASSUME PlaceInv, NEW e \in Executors, TakeGil(e)
  PROVE  PlaceInv'
<1>1. UNCHANGED <<actor, pool, loop, chan, readers, python>> /\ gil = Free /\ gil' = e /\ python
  BY DEF TakeGil, spawnVars, mailVars
<1>2. PICK pc \in {"lock", "back"} :
        /\ exec' = [exec EXCEPT ![e] = [pc |-> pc, work |-> exec[e].work]]
        /\ (exec[e].pc = "gil" /\ pc = "lock") \/ (exec[e].pc = "away" /\ pc = "back")
  BY Zenon DEF TakeGil, At, Goto
<1>3. ExecInv /\ ReadInv /\ GilInv /\ exec[e] # Resting
  BY <1>2, JobOf DEF PlaceInv
<1>4. /\ ExecInv' /\ exec'[e].pc = pc /\ exec'[e].work = exec[e].work
      /\ \A f \in Executors : f # e => exec'[f] = exec[f]
  BY Zenon, <1>1, <1>2, <1>3, GoesOn
<1>5. ReadInv'
  BY <1>1, <1>2, <1>3, <1>4 DEF ReadInv
<1>6. GilInv'
  BY <1>1, <1>2, <1>3, <1>4, Places, NobodyExecutes DEF GilInv
<1> QED
  BY <1>1, <1>4, <1>5, <1>6, QueuesKept DEF PlaceInv

LEMMA CallKeeps ==
  ASSUME PlaceInv, NEW e \in Executors, Call(e)
  PROVE  PlaceInv'
<1>1. UNCHANGED <<actor, pool, loop, chan, gil, python>>
  BY DEF Call, spawnVars, mailVars
<1>2. ExecInv /\ ReadInv /\ GilInv /\ exec[e] # Resting /\ exec[e].pc = "lock"
  BY JobOf DEF PlaceInv, Call, At
<1>3. PICK a \in Actors : a = exec[e].work.a
  BY <1>2, JobOf
<1>4. /\ ExecInv' /\ exec'[e].pc = "call" /\ exec'[e].work = exec[e].work
      /\ \A f \in Executors : f # e => exec'[f] = exec[f]
  BY Zenon, <1>1, <1>2, GoesOn DEF Call, Goto
<1>5. /\ readers' \in [Actors -> SUBSET Executors] /\ readers'[a] = readers[a] \cup {e}
      /\ \A b \in Actors : b # a => readers'[b] = readers[b]
  <2>1. readers \in [Actors -> SUBSET Executors] /\ readers[a] \cup {e} \in SUBSET Executors
    BY <1>2 DEF ReadInv
  <2> QED
    BY Zenon, <1>3, <2>1, Updated DEF Call
<1>6. ReadInv'
  BY <1>2, <1>3, <1>4, <1>5 DEF ReadInv
<1>7. GilInv'
  BY <1>1, <1>2, <1>4 DEF GilInv, Call
<1> QED
  BY <1>1, <1>4, <1>6, <1>7, QueuesKept DEF PlaceInv

LEMMA AwayKeeps ==
  ASSUME PlaceInv, NEW e \in Executors, Away(e)
  PROVE  PlaceInv'
<1>1. UNCHANGED <<actor, pool, loop, chan, readers, python>> /\ gil' = Free
  BY DEF Away, spawnVars, mailVars
<1>2. ExecInv /\ ReadInv /\ GilInv /\ exec[e] # Resting /\ exec[e].pc = "call"
  BY JobOf DEF PlaceInv, Away, At
<1>3. /\ ExecInv' /\ exec'[e].pc = "away" /\ exec'[e].work = exec[e].work
      /\ \A f \in Executors : f # e => exec'[f] = exec[f]
  BY Zenon, <1>1, <1>2, GoesOn DEF Away, Goto
<1>4. ReadInv'
  BY <1>1, <1>2, <1>3 DEF ReadInv
<1>5. GilInv'
  BY <1>1, <1>2, <1>3, Places DEF GilInv
<1> QED
  BY <1>1, <1>3, <1>4, <1>5, QueuesKept DEF PlaceInv

(* A callback returns, or a swap is made. *)
LEMMA FinishKeeps ==
  ASSUME PlaceInv, NEW e \in Executors, Return(e) \/ Swap(e)
  PROVE  PlaceInv'
<1>1. UNCHANGED <<actor, pool, loop, chan, python>> /\ gil' = Free
  BY Zenon DEF Return, Swap, spawnVars, mailVars
<1>2. /\ ExecInv /\ ReadInv /\ GilInv /\ exec[e] # Resting /\ exec[e].pc \in {"lock", "call", "back"}
      /\ gil = e
  BY Zenon, JobOf DEF PlaceInv, Return, Swap, At, GilInv
<1>3. PICK a \in Actors : a = exec[e].work.a
  BY <1>2, JobOf
<1>4. /\ ExecInv' /\ exec'[e] = Resting
      /\ \A f \in Executors : f # e => exec'[f] = exec[f]
  <2>1. exec' = [exec EXCEPT ![e] = Resting]
    BY Zenon DEF Return, Swap
  <2> QED
    BY Zenon, <1>1, <1>2, <2>1, ExecMoves
<1>5. /\ readers' \in [Actors -> SUBSET Executors]
      /\ \A b \in Actors : readers'[b] \subseteq readers[b]
      /\ exec[e].pc = "lock" \/ e \notin readers'[a]
  <2>1. readers \in [Actors -> SUBSET Executors] /\ readers[a] \ {e} \in SUBSET Executors
    BY <1>2 DEF ReadInv
  <2>2. \/ readers' = readers /\ exec[e].pc = "lock"
        \/ readers' = [readers EXCEPT ![a] = readers[a] \ {e}]
    BY Zenon, <1>3 DEF Return, Swap, At
  <2> QED
    BY <2>1, <2>2
<1>6. ReadInv'
  <2>1. \A b \in Actors : e \notin readers'[b]
    BY <1>2, <1>3, <1>5 DEF ReadInv
  <2> QED
    BY <1>2, <1>4, <1>5, <2>1 DEF ReadInv
<1>7. GilInv'
  <2>1. exec'[e].pc = "idle"
    BY <1>4 DEF Resting
  <2> QED
    BY <1>1, <1>2, <1>4, <2>1, Places DEF GilInv
<1> QED
  BY <1>1, <1>4, <1>6, <1>7, QueuesKept DEF PlaceInv

(* A dedicated thread takes a message, or drops it after the end. *)
LEMMA ThreadTakesKeeps ==
  ASSUME PlaceInv, NEW a \in Actors, ThreadTakes(a)
  PROVE  /\ PlaceInv' /\ exec[Thread(a)] = Resting /\ chan[a] # << >> /\ actor[a] = "dedicated"
         /\ chan'[a] = Tail(chan[a]) /\ \A b \in Actors : b # a => chan'[b] = chan[b]
         /\ \A f \in Executors : f # Thread(a) => exec'[f] = exec[f]
         /\ python => exec'[Thread(a)] # Resting /\ exec'[Thread(a)].work = Head(chan[a])
<1>1. /\ UNCHANGED <<actor, pool, loop, readers, gil, python>>
      /\ exec[Thread(a)] = Resting /\ chan[a] # << >>
  BY DEF ThreadTakes, spawnVars, mailVars, runVars
<1>2. ExecInv /\ ReadInv /\ GilInv /\ ChanInv /\ Thread(a) \in Executors
  BY Places DEF PlaceInv
<1>3. chan \in [Actors -> Seq(Works)] /\ chan[a] \in Seq(Works) /\ actor[a] = "dedicated"
  BY <1>1, <1>2 DEF ChanInv
<1>4. /\ Len(chan[a]) \in Nat /\ Len(chan[a]) > 0 /\ Head(chan[a]) = chan[a][1]
      /\ Head(chan[a]) \in Works /\ Tail(chan[a]) \in Seq(Works)
      /\ Len(Tail(chan[a])) = Len(chan[a]) - 1
      /\ \A i \in 1 .. Len(chan[a]) - 1 : Tail(chan[a])[i] = chan[a][i + 1]
  BY <1>1, <1>3, TailOf
<1>5. /\ chan' \in [Actors -> Seq(Works)] /\ chan'[a] = Tail(chan[a])
      /\ \A b \in Actors : b # a => chan'[b] = chan[b]
  BY Zenon, <1>3, <1>4, Updated DEF ThreadTakes
<1>6. ChanInv'
  <2>1. ASSUME NEW i \in 1 .. Len(chan'[a]) PROVE chan'[a][i].a = a
    <3>1. i + 1 \in 1 .. Len(chan[a]) /\ chan'[a][i] = chan[a][i + 1]
      BY <1>4, <1>5
    <3> QED
      BY <1>1, <1>2, <3>1 DEF ChanInv
  <2> QED
    BY Zenon, <1>1, <1>2, <1>3, <1>5, <2>1 DEF ChanInv
<1>7. Head(chan[a]).a = a
  BY <1>1, <1>2, <1>4 DEF ChanInv
<1>8. /\ ExecInv' /\ ReadInv' /\ GilInv'
      /\ \A f \in Executors : f # Thread(a) => exec'[f] = exec[f]
      /\ python => exec'[Thread(a)] # Resting /\ exec'[Thread(a)].work = Head(chan[a])
  <2>1. CASE python
    <3>1. Assigned(Thread(a), Head(chan[a]).a) /\ Begin(Thread(a), Head(chan[a]))
      BY <1>3, <1>7, <2>1 DEF Assigned, ThreadTakes
    <3>2. /\ ExecInv' /\ exec'[Thread(a)].pc = "gil" /\ exec'[Thread(a)] # Resting
          /\ exec'[Thread(a)].work = Head(chan[a])
          /\ \A f \in Executors : f # Thread(a) => exec'[f] = exec[f]
      BY Zenon, <1>1, <1>2, <1>4, <3>1, Begins
    <3> QED
      BY Zenon, <1>1, <1>2, <3>2, BeginKeeps
  <2>2. CASE ~python
    <3>1. exec' = exec
      BY Zenon, <2>2 DEF ThreadTakes
    <3> QED
      BY <1>1, <1>2, <2>2, <3>1 DEF ExecInv, Assigned, ReadInv, GilInv
  <2> QED
    BY <2>1, <2>2
<1> QED
  BY <1>1, <1>3, <1>5, <1>6, <1>8 DEF PlaceInv, KindInv, LoopInv, PoolInv

(* A worker of the pool takes a message. *)
LEMMA WorkerTakesKeeps ==
  ASSUME PlaceInv, NEW e \in Executors, WorkerTakes(e)
  PROVE  /\ PlaceInv' /\ e \in Workers
         /\ \A f \in Executors : f # e => exec'[f] = exec[f]
<1>1. /\ UNCHANGED <<actor, chan, loop, readers, gil, python>>
      /\ exec[e] = Resting /\ e \in Workers /\ pool.queue # << >>
      /\ pool'.queue = Tail(pool.queue) /\ Begin(e, Head(pool.queue))
  BY DEF WorkerTakes, mailVars, runVars
<1>2. ExecInv /\ ReadInv /\ GilInv /\ PoolInv /\ pool.queue \in Seq(Works)
  BY DEF PlaceInv, PoolInv
<1>3. /\ Len(pool.queue) \in Nat /\ Len(pool.queue) > 0 /\ Head(pool.queue) = pool.queue[1]
      /\ Head(pool.queue) \in Works /\ Tail(pool.queue) \in Seq(Works)
      /\ Len(Tail(pool.queue)) = Len(pool.queue) - 1
      /\ \A i \in 1 .. Len(pool.queue) - 1 : Tail(pool.queue)[i] = pool.queue[i + 1]
  BY Zenon, <1>1, <1>2, TailOf
<1>4. PoolInv'
  <2>1. ASSUME NEW i \in 1 .. Len(pool'.queue) PROVE actor[pool'.queue[i].a] = "pooled"
    <3>1. i + 1 \in 1 .. Len(pool.queue) /\ pool'.queue[i] = pool.queue[i + 1]
      BY <1>1, <1>3
    <3> QED
      BY <1>2, <3>1 DEF PoolInv
  <2> QED
    BY <1>1, <1>3, <2>1 DEF PoolInv
<1>5. Assigned(e, Head(pool.queue).a)
  BY <1>1, <1>2, <1>3 DEF PoolInv, Assigned
<1>6. /\ ExecInv' /\ exec'[e].pc = "gil"
      /\ \A f \in Executors : f # e => exec'[f] = exec[f]
  BY Zenon, <1>1, <1>2, <1>3, <1>5, Begins
<1>7. ReadInv' /\ GilInv'
  BY Zenon, <1>1, <1>2, <1>6, BeginKeeps
<1> QED
  BY <1>1, <1>4, <1>6, <1>7 DEF PlaceInv, KindInv, LoopInv, ChanInv

(* A loop takes a message: it goes to the thread, to the pool, or is begun *)
(* on the spot; without an interpreter it is dropped.                      *)
LEMMA HandleKeeps ==
  ASSUME PlaceInv, NEW a \in Actors, NEW w \in Works, w.a = a, Handle(a, w.kind),
         w = Work(a, Len(taken[a]) + 1, w.kind)
  PROVE  /\ PlaceInv' /\ exec[Loop(a)] = Resting
         /\ actor[a] \in {"inline", "dedicated", "pooled"}
         /\ \A b \in Actors : b # a => chan'[b] = chan[b]
         /\ \A f \in Executors : f # Loop(a) => exec'[f] = exec[f]
         /\ chan'[a] =
              IF python /\ actor[a] = "dedicated" THEN Append(chan[a], w) ELSE chan[a]
         /\ python /\ actor[a] = "inline" =>
              exec'[Loop(a)] # Resting /\ exec'[Loop(a)].work = w
<1>1. /\ UNCHANGED <<actor, loop, readers, gil, python>>
      /\ exec[Loop(a)] = Resting /\ loop[a] = "on"
  BY DEF Handle, Take, runVars
<1>2. /\ ExecInv /\ ReadInv /\ GilInv /\ ChanInv /\ PoolInv /\ Loop(a) \in Executors
      /\ actor[a] \in {"inline", "dedicated", "pooled"}
  BY <1>1, Places DEF PlaceInv, LoopInv
<1>3. /\ IF python /\ actor[a] = "dedicated"
         THEN chan' = [chan EXCEPT ![a] = Append(chan[a], w)] ELSE chan' = chan
      /\ pool' = pool \/ (actor[a] = "pooled" /\ pool'.queue = Append(pool.queue, w))
      /\ exec' = exec \/ (actor[a] # "dedicated" /\ Begin(Loop(a), w))
      /\ python /\ actor[a] = "inline" => Begin(Loop(a), w)
  <2>1. IF python /\ actor[a] = "dedicated"
        THEN chan' = [chan EXCEPT ![a] = Append(chan[a], w)] ELSE chan' = chan
    BY Zenon DEF Handle
  <2>2. pool' = pool \/ (actor[a] = "pooled" /\ pool'.queue = Append(pool.queue, w))
    BY DEF Handle
  <2>3. exec' = exec \/ (actor[a] # "dedicated" /\ Begin(Loop(a), w))
    BY Zenon DEF Handle, Begin
  <2>4. python /\ actor[a] = "inline" => Begin(Loop(a), w)
    BY Zenon DEF Handle, Begin
  <2> QED
    BY <2>1, <2>2, <2>3, <2>4
<1>4. /\ ExecInv' /\ ReadInv' /\ GilInv'
      /\ \A f \in Executors : f # Loop(a) => exec'[f] = exec[f]
      /\ python /\ actor[a] = "inline" =>
           exec'[Loop(a)] # Resting /\ exec'[Loop(a)].work = w
  <2>1. CASE actor[a] # "dedicated" /\ Begin(Loop(a), w)
    <3>1. Assigned(Loop(a), w.a)
      BY <1>2, <2>1 DEF Assigned
    <3>2. /\ ExecInv' /\ exec'[Loop(a)].pc = "gil" /\ exec'[Loop(a)] # Resting
          /\ exec'[Loop(a)].work = w
          /\ \A f \in Executors : f # Loop(a) => exec'[f] = exec[f]
      BY Zenon, <1>1, <1>2, <2>1, <3>1, Begins
    <3> QED
      BY Zenon, <1>1, <1>2, <3>2, BeginKeeps
  <2>2. CASE exec' = exec /\ ~(actor[a] # "dedicated" /\ Begin(Loop(a), w))
    <3>1. exec' = exec /\ ~(python /\ actor[a] = "inline")
      BY Zenon, <1>3, <2>2
    <3> QED
      BY <1>1, <1>2, <3>1 DEF ExecInv, Assigned, ReadInv, GilInv
  <2> QED
    BY <1>3, <2>1, <2>2
<1>5. /\ ChanInv' /\ \A b \in Actors : b # a => chan'[b] = chan[b]
      /\ chan'[a] = IF python /\ actor[a] = "dedicated" THEN Append(chan[a], w) ELSE chan[a]
  <2>1. CASE python /\ actor[a] = "dedicated"
    <3>1. chan \in [Actors -> Seq(Works)] /\ chan[a] \in Seq(Works)
      BY <1>2 DEF ChanInv
    <3>2. /\ Append(chan[a], w) \in Seq(Works)
          /\ Len(chan[a]) \in Nat /\ Len(Append(chan[a], w)) = Len(chan[a]) + 1
          /\ Append(chan[a], w)[Len(chan[a]) + 1] = w
          /\ \A i \in 1 .. Len(chan[a]) : Append(chan[a], w)[i] = chan[a][i]
      BY <3>1, Appended
    <3>3. /\ chan' \in [Actors -> Seq(Works)] /\ chan'[a] = Append(chan[a], w)
          /\ \A b \in Actors : b # a => chan'[b] = chan[b]
      <4>1. chan' = [chan EXCEPT ![a] = Append(chan[a], w)]
        BY <1>3, <2>1
      <4> QED
        BY Zenon, <3>1, <3>2, <4>1, Updated
    <3>4. ASSUME NEW i \in 1 .. Len(chan'[a]) PROVE chan'[a][i].a = a
      <4>1. (i \in 1 .. Len(chan[a]) /\ chan'[a][i] = chan[a][i]) \/ chan'[a][i] = w
        BY <3>2, <3>3
      <4>2. i \in 1 .. Len(chan[a]) => chan[a] # << >>
        BY <3>1
      <4> QED
        BY <1>2, <4>1, <4>2 DEF ChanInv
    <3>5. ASSUME NEW b \in Actors, chan'[b] # << >>
          PROVE  actor[b] = "dedicated" /\ \A i \in 1 .. Len(chan'[b]) : chan'[b][i].a = b
      <4>1. CASE b = a
        BY Zenon, <2>1, <3>4, <4>1
      <4>2. CASE b # a
        BY <1>2, <3>3, <3>5, <4>2 DEF ChanInv
      <4> QED
        BY <4>1, <4>2
    <3> QED
      BY <1>1, <2>1, <3>3, <3>5 DEF ChanInv
  <2>2. CASE ~(python /\ actor[a] = "dedicated")
    <3>1. chan' = chan
      BY Zenon, <1>3, <2>2
    <3> QED
      BY <1>1, <1>2, <2>2, <3>1 DEF ChanInv
  <2> QED
    BY <2>1, <2>2
<1>6. PoolInv'
  <2>1. CASE pool' = pool
    BY <1>1, <1>2, <2>1 DEF PoolInv
  <2>2. CASE actor[a] = "pooled" /\ pool'.queue = Append(pool.queue, w)
    <3>1. /\ Append(pool.queue, w) \in Seq(Works)
          /\ Len(pool.queue) \in Nat /\ Len(Append(pool.queue, w)) = Len(pool.queue) + 1
          /\ Append(pool.queue, w)[Len(pool.queue) + 1] = w
          /\ \A i \in 1 .. Len(pool.queue) : Append(pool.queue, w)[i] = pool.queue[i]
      BY <1>2, Appended DEF PoolInv
    <3> QED
      BY <1>1, <1>2, <2>2, <3>1 DEF PoolInv
  <2> QED
    BY <1>3, <2>1, <2>2
<1> QED
  BY <1>1, <1>2, <1>4, <1>5, <1>6 DEF PlaceInv, KindInv, LoopInv

(* The steps of a spawn, before the actor has a message. *)
LEMMA SpawnKeeps ==
  ASSUME PlaceInv, NEW a \in Actors, SpawnInline(a) \/ Add(a) \/ SpawnStep(a)
  PROVE  /\ PlaceInv' /\ UNCHANGED <<exec, chan, taken, behavior, ran, python>>
         /\ exec[Loop(a)] = Resting /\ exec[Thread(a)] = Resting
         /\ actor[a] # "pooled" /\ \A b \in Actors : b # a => actor'[b] = actor[b]
<1>1. UNCHANGED <<exec, chan, readers, taken, behavior, ran, python>> /\ pool'.queue = pool.queue
  BY DEF SpawnInline, Add, SpawnStep, SpawnDedicated, TakeBack, Refuse, SpawnPooled,
         Started, NotStarted
<1>2. KindInv /\ ExecInv /\ LoopInv /\ ChanInv /\ PoolInv /\ ReadInv /\ GilInv /\ Caller(a) # Free
  BY Places DEF PlaceInv
<1>3. /\ actor[a] \in {"off", "admitted", "refused", "fallback"} /\ KindInv'
      /\ \A b \in Actors : b # a => actor'[b] = actor[b]
      /\ \/ loop' = [loop EXCEPT ![a] = "on"] /\ actor'[a] \in {"inline", "dedicated", "pooled"}
         \/ loop' = loop
  <2>1. CASE SpawnInline(a)
    BY <1>2, <2>1 DEF SpawnInline, Step, Started, Kinds, KindInv
  <2>2. CASE Add(a) \/ TakeBack(a)
    BY <1>2, <2>2 DEF Add, TakeBack, Refuse, Step, NotStarted, mailVars, Kinds, KindInv
  <2>3. CASE SpawnDedicated(a) \/ SpawnPooled(a)
    BY <1>2, <2>3 DEF SpawnDedicated, SpawnPooled, Step, Started, Kinds, KindInv
  <2> QED
    BY <2>1, <2>2, <2>3 DEF SpawnStep
<1>4. /\ gil \in {Free, Caller(a)} /\ gil' \in {Free, Caller(a)}
      /\ actor'[a] \in {"admitted", "refused", "fallback"} => gil' = Caller(a)
      /\ ~python => gil' = Free
  <2>1. CASE SpawnInline(a) \/ Add(a)
    BY <1>2, <2>1 DEF SpawnInline, Add, Step, EnterCall, KindInv, GilInv
  <2>2. CASE SpawnStep(a)
    <3>1. gil = Caller(a) /\ python
      BY <1>2, <2>2 DEF SpawnStep, SpawnDedicated, TakeBack, Refuse, SpawnPooled, Step, GilInv
    <3> QED
      BY <1>2, <2>2, <3>1
      DEF SpawnStep, SpawnDedicated, TakeBack, Refuse, SpawnPooled, Step, ExitCall, KindInv
  <2> QED
    BY <2>1, <2>2
<1>5. \A e \in Executors : exec[e] # Resting => exec[e].work.a \in Actors \ {a}
  BY <1>2, <1>3, JobOf, HomeWorks
<1>6. exec[Loop(a)] = Resting /\ exec[Thread(a)] = Resting
  BY <1>2, <1>3, HomeWorks, Places
<1>7. ExecInv'
  BY <1>1, <1>2, <1>3, <1>5 DEF ExecInv, Assigned
<1>8. LoopInv' /\ ChanInv'
  <2>1. LoopInv'
    BY <1>2, <1>3 DEF LoopInv
  <2>2. ChanInv'
    BY Zenon, <1>1, <1>2, <1>3 DEF ChanInv
  <2> QED
    BY <2>1, <2>2
<1>9. PoolInv'
  <2>1. \A i \in 1 .. Len(pool.queue) : pool.queue[i] \in Works
    BY Zenon, <1>2, ElementOf DEF PoolInv
  <2>2. \A i \in 1 .. Len(pool.queue) : pool.queue[i].a \in Actors
    BY <2>1 DEF Works
  <2> QED
    BY <1>1, <1>2, <1>3, <2>2 DEF PoolInv
<1>10. ReadInv'
  BY <1>1, <1>2 DEF ReadInv
<1>11. GilInv'
  BY <1>1, <1>2, <1>3, <1>4, Places, NobodyExecutes DEF GilInv
<1> QED
  BY <1>1, <1>3, <1>6, <1>7, <1>8, <1>9, <1>10, <1>11 DEF PlaceInv

(* Senders, stop, the end of a loop, of a thread and of the interpreter. *)
LEMMA RestKeeps ==
  ASSUME PlaceInv, UNCHANGED <<actor, exec, chan, pool, readers, gil>>,
         loop' = loop \/ \E a \in Actors : loop' = [loop EXCEPT ![a] = "ended"],
         python' = python \/ (~python' /\ gil = Free)
  PROVE  PlaceInv'
<1>1. KindInv' /\ ExecInv' /\ ChanInv' /\ PoolInv' /\ ReadInv'
  BY DEF PlaceInv, KindInv, ExecInv, Assigned, ChanInv, PoolInv, ReadInv
<1>2. LoopInv' /\ GilInv'
  BY DEF PlaceInv, LoopInv, GilInv
<1> QED
  BY <1>1, <1>2 DEF PlaceInv
-----------------------------------------------------------------------------
(* The order of the messages of an actor that does not share the pool: how *)
(* many have been handed to its executor, and which is to be run next.     *)
Handed(a) == Len(taken[a]) - Len(chan[a])
NextUp(a) == IF exec[Home(a)] = Resting THEN Handed(a) + 1 ELSE Handed(a)

NextOk(a) ==
  /\ Handed(a) >= 0
  /\ \A i \in 1 .. Len(chan[a]) :
       chan[a][i].n = Handed(a) + i /\ chan[a][i].kind = taken[a][Handed(a) + i]
  /\ exec[Home(a)] # Resting =>
       /\ Handed(a) >= 1 /\ exec[Home(a)].work.n = Handed(a)
       /\ exec[Home(a)].work.kind = taken[a][Handed(a)]
  /\ behavior[a] = LastSwap(a, NextUp(a))
  /\ \A i \in 1 .. Len(ran[a]) : ran[a][i].n < NextUp(a)

RunOk(a, i) ==
  /\ ran[a][i].n \in 1 .. Len(taken[a])
  /\ ran[a][i].by = LastSwap(a, ran[a][i].n)
  /\ i > 1 => ran[a][i - 1].n < ran[a][i].n

OrderOk(a) ==
  /\ \A i \in 1 .. Len(ran[a]) : RunOk(a, i)
  /\ python => NextOk(a)

LogTypes ==
  /\ taken \in [Actors -> Seq(Kind)] /\ behavior \in [Actors -> Nat]
  /\ ran \in [Actors -> Seq(Runs)]

OrderInv == \A a \in Actors : actor[a] # "pooled" => OrderOk(a)

WorkInv == PlaceInv /\ LogTypes /\ OrderInv

(* The last swap before a message, one message further on. *)
LEMMA LastSwapNext ==
  ASSUME NEW a, NEW n \in Nat, n > 0
  PROVE  LastSwap(a, n + 1) = IF taken[a][n] = "swap" THEN n ELSE LastSwap(a, n)
<1>1. CASE taken[a][n] = "swap"
  <2> DEFINE S == SwapsBefore(a, n + 1)
  <2>1. S \subseteq 1 .. n /\ n \in S
    BY <1>1 DEF SwapsBefore
  <2> HIDE DEF S
  <2>2. \A k \in S : (\A j \in S : j <= k) <=> k = n
    BY <2>1
  <2> QED
    BY <1>1, <2>1, <2>2 DEF LastSwap, Latest, S
<1>2. CASE taken[a][n] # "swap"
  <2>1. SwapsBefore(a, n + 1) = SwapsBefore(a, n)
    BY <1>2 DEF SwapsBefore
  <2> QED
    BY <1>2, <2>1 DEF LastSwap
<1> QED
  BY <1>1, <1>2

(* Nothing happens to the messages of an actor. *)
LEMMA OrderFrame ==
  ASSUME NEW a, OrderOk(a), python' => python, taken'[a] = taken[a], ran'[a] = ran[a],
         python' =>
           /\ chan'[a] = chan[a] /\ behavior'[a] = behavior[a]
           /\ exec[Home(a)] = Resting <=> exec'[Home(a)'] = Resting
           /\ exec[Home(a)] # Resting => exec'[Home(a)'].work = exec[Home(a)].work
  PROVE  OrderOk(a)'
<1>1. \A n : LastSwap(a, n)' = LastSwap(a, n)
  BY DEF LastSwap, SwapsBefore
<1>2. \A i \in 1 .. Len(ran'[a]) : RunOk(a, i)'
  BY <1>1 DEF OrderOk, RunOk
<1>3. ASSUME python' PROVE NextOk(a)'
  <2>1. Handed(a)' = Handed(a) /\ NextUp(a)' = NextUp(a)
    BY Zenon, <1>3 DEF Handed, NextUp
  <2> QED
    BY <1>1, <1>3, <2>1 DEF NextOk, OrderOk
<1> QED
  BY <1>2, <1>3 DEF OrderOk

(* A sequence that has grown by x at its end, and one without its first. *)
Grown(s, x, t) ==
  /\ Len(s) \in Nat /\ Len(t) = Len(s) + 1 /\ t[Len(s) + 1] = x
  /\ \A i \in 1 .. Len(s) : t[i] = s[i]
Shifted(s, t) ==
  /\ Len(s) \in Nat /\ Len(s) > 0 /\ Len(t) = Len(s) - 1
  /\ \A i \in 1 .. Len(t) : t[i] = s[i + 1]

(* A loop takes a message: what was said of the others stays true ... *)
LEMMA OrderGrows ==
  ASSUME NEW a, NEW k, Grown(taken[a], k, taken'[a]),
         \A i \in 1 .. Len(ran[a]) : RunOk(a, i), ran'[a] = ran[a]
  PROVE  /\ \A i \in 1 .. Len(ran[a]) : RunOk(a, i)'
         /\ \A n \in Nat : n <= Len(taken[a]) + 1 => LastSwap(a, n)' = LastSwap(a, n)
<1>1. PICK h \in Nat : /\ h = Len(taken[a]) /\ Len(taken'[a]) = h + 1
                       /\ \A i \in 1 .. h : taken'[a][i] = taken[a][i]
  BY DEF Grown
<1>2. ASSUME NEW n \in Nat, n <= h + 1 PROVE LastSwap(a, n)' = LastSwap(a, n)
  <2>1. \A i \in 1 .. (n - 1) : i \in 1 .. h
    BY <1>2
  <2>2. SwapsBefore(a, n)' = SwapsBefore(a, n)
    BY Zenon, <1>1, <2>1 DEF SwapsBefore
  <2> QED
    BY <2>2 DEF LastSwap
<1>3. ASSUME NEW i \in 1 .. Len(ran[a]) PROVE RunOk(a, i)'
  <2>1. RunOk(a, i)
    OBVIOUS
  <2>2. PICK n : n = ran[a][i].n
    OBVIOUS
  <2>3. n \in 1 .. h /\ ran[a][i].by = LastSwap(a, n)
    BY <1>1, <2>1, <2>2 DEF RunOk
  <2>4. n \in 1 .. h + 1 /\ LastSwap(a, n)' = LastSwap(a, n)
    BY <1>2, <2>3
  <2> QED
    BY Zenon, <1>1, <2>1, <2>2, <2>3, <2>4 DEF RunOk
<1> QED
  BY <1>1, <1>2, <1>3

(* ... and that is all, if it is dropped because there is no interpreter. *)
LEMMA OrderDropped ==
  ASSUME NEW a, NEW k, Grown(taken[a], k, taken'[a]), OrderOk(a), ran'[a] = ran[a], ~python'
  PROVE  OrderOk(a)'
<1>1. \A i \in 1 .. Len(ran[a]) : RunOk(a, i)'
  BY Zenon, OrderGrows DEF OrderOk
<1> QED
  BY <1>1 DEF OrderOk

(* It goes to the channel of the dedicated thread. *)
LEMMA OrderSent ==
  ASSUME NEW a, NEW w, w.n = Len(taken[a]) + 1, Grown(taken[a], w.kind, taken'[a]),
         Grown(chan[a], w, chan'[a]), exec'[Home(a)'] = exec[Home(a)],
         OrderOk(a), ran'[a] = ran[a], behavior'[a] = behavior[a], python
  PROVE  OrderOk(a)'
<1>1. PICK t \in Nat : /\ t = Len(taken[a]) /\ Len(taken'[a]) = t + 1
                       /\ taken'[a][t + 1] = w.kind
                       /\ \A i \in 1 .. t : taken'[a][i] = taken[a][i]
  BY Zenon DEF Grown
<1>2. PICK c \in Nat : /\ c = Len(chan[a]) /\ Len(chan'[a]) = c + 1 /\ chan'[a][c + 1] = w
                       /\ \A i \in 1 .. c : chan'[a][i] = chan[a][i]
  BY Zenon DEF Grown
<1>3. /\ \A i \in 1 .. Len(ran[a]) : RunOk(a, i)'
      /\ \A n \in Nat : n <= Len(taken[a]) + 1 => LastSwap(a, n)' = LastSwap(a, n)
  BY Zenon, OrderGrows DEF OrderOk
<1>4. NextOk(a)
  BY DEF OrderOk
<1>5. PICK h \in Nat : h = Handed(a) /\ h = t - c /\ h = Handed(a)'
  <2>1. Handed(a) = t - c /\ Handed(a)' = (t + 1) - (c + 1) /\ Handed(a) >= 0
    BY Zenon, <1>1, <1>2, <1>4 DEF Handed, NextOk
  <2> QED
    BY <2>1
<1>6. PICK m \in Nat : m = NextUp(a) /\ m = NextUp(a)' /\ m <= t + 1
  <2>1. h \in Nat /\ h + 1 \in Nat /\ h <= t + 1 /\ h + 1 <= t + 1
    BY <1>5
  <2>2. NextUp(a)' = NextUp(a) /\ NextUp(a) \in {h, h + 1}
    BY Zenon, <1>5 DEF NextUp
  <2> QED
    BY Zenon, <2>1, <2>2
<1>7. ASSUME NEW i \in 1 .. Len(chan'[a])
      PROVE  chan'[a][i].n = h + i /\ chan'[a][i].kind = taken'[a][h + i]
  <2>1. CASE i \in 1 .. c
    <3>1. h + i \in 1 .. t
      BY <1>5, <2>1
    <3>2. chan[a][i].n = h + i /\ chan[a][i].kind = taken[a][h + i]
      BY Zenon, <1>2, <1>4, <1>5, <2>1 DEF NextOk
    <3> QED
      BY Zenon, <1>1, <1>2, <2>1, <3>1, <3>2
  <2>2. CASE i = c + 1
    <3>1. h + i = t + 1
      BY <1>5, <2>2
    <3> QED
      BY Zenon, <1>1, <1>2, <2>2, <3>1
  <2>3. i \in 1 .. (c + 1)
    BY Zenon, <1>2
  <2>4. i \in 1 .. c \/ i = c + 1
    BY <2>3
  <2> QED
    BY Zenon, <2>1, <2>2, <2>4
<1>8. exec'[Home(a)'] # Resting =>
        /\ h >= 1 /\ exec'[Home(a)'].work.n = h
        /\ exec'[Home(a)'].work.kind = taken'[a][h]
  <2>1. h >= 1 => h \in 1 .. t
    BY <1>5
  <2> QED
    BY Zenon, <1>1, <1>4, <1>5, <2>1 DEF NextOk
<1>9. behavior'[a] = LastSwap(a, m)'
  BY Zenon, <1>1, <1>3, <1>4, <1>6 DEF NextOk
<1>10. \A i \in 1 .. Len(ran'[a]) : ran'[a][i].n < m
  BY Zenon, <1>4, <1>6 DEF NextOk
<1>11. NextOk(a)'
  <2>1. h >= 0
    OBVIOUS
  <2> QED
    BY Zenon, <1>5, <1>6, <1>7, <1>8, <1>9, <1>10, <2>1 DEF NextOk
<1> QED
  BY Zenon, <1>3, <1>11 DEF OrderOk

(* It is begun at once, by the loop itself. *)
LEMMA OrderBegun ==
  ASSUME NEW a, NEW w, w.n = Len(taken[a]) + 1, Grown(taken[a], w.kind, taken'[a]),
         Len(chan[a]) = 0, chan'[a] = chan[a],
         exec[Home(a)] = Resting, exec'[Home(a)'] # Resting, exec'[Home(a)'].work = w,
         OrderOk(a), ran'[a] = ran[a], behavior'[a] = behavior[a], python
  PROVE  OrderOk(a)'
<1>1. PICK t \in Nat : t = Len(taken[a]) /\ Len(taken'[a]) = t + 1 /\ taken'[a][t + 1] = w.kind
  BY Zenon DEF Grown
<1>2. /\ \A i \in 1 .. Len(ran[a]) : RunOk(a, i)'
      /\ \A n \in Nat : n <= Len(taken[a]) + 1 => LastSwap(a, n)' = LastSwap(a, n)
  BY Zenon, OrderGrows DEF OrderOk
<1>3. NextOk(a)
  BY Zenon DEF OrderOk
<1>4. Handed(a) = t /\ Handed(a)' = t + 1
  <2>1. Handed(a) = t - 0 /\ Handed(a)' = (t + 1) - 0
    BY Zenon, <1>1 DEF Handed
  <2> QED
    BY <2>1
<1>5. PICK m \in Nat : m = t + 1 /\ m >= 1 /\ m >= 0 /\ m <= t + 1
  OBVIOUS
<1>6. NextUp(a) = m /\ NextUp(a)' = m
  BY Zenon, <1>4, <1>5 DEF NextUp
<1>7. LastSwap(a, m)' = LastSwap(a, m)
  BY Zenon, <1>1, <1>2, <1>5
<1>8. 1 .. Len(chan'[a]) = {}
  OBVIOUS
<1>9. NextOk(a)'
  BY Zenon, <1>1, <1>3, <1>4, <1>5, <1>6, <1>7, <1>8 DEF NextOk
<1> QED
  BY Zenon, <1>2, <1>9 DEF OrderOk

(* The dedicated thread takes the next one out of its channel. *)
LEMMA OrderTaken ==
  ASSUME NEW a, Len(taken[a]) \in Nat, taken'[a] = taken[a], Shifted(chan[a], chan'[a]),
         exec[Home(a)] = Resting, exec'[Home(a)'] # Resting, exec'[Home(a)'].work = chan[a][1],
         OrderOk(a), ran'[a] = ran[a], behavior'[a] = behavior[a], python
  PROVE  OrderOk(a)'
<1>1. PICK c \in Nat : /\ c = Len(chan[a]) /\ c > 0 /\ Len(chan'[a]) = c - 1
                       /\ \A i \in 1 .. (c - 1) : chan'[a][i] = chan[a][i + 1]
  BY Zenon DEF Shifted
<1>2. \A n : LastSwap(a, n)' = LastSwap(a, n)
  BY Zenon DEF LastSwap, SwapsBefore
<1>3. \A i \in 1 .. Len(ran'[a]) : RunOk(a, i)'
  BY Zenon, <1>2 DEF OrderOk, RunOk
<1>4. NextOk(a)
  BY Zenon DEF OrderOk
<1>5. PICK h \in Nat : h = Handed(a) /\ h + 1 = Handed(a)'
  <2>1. PICK t \in Nat : t = Len(taken[a])
    BY Zenon
  <2>2. Handed(a) = t - c /\ Handed(a)' = t - (c - 1) /\ Handed(a) >= 0
    BY Zenon, <1>1, <1>4, <2>1 DEF Handed, NextOk
  <2> QED
    BY <2>2
<1>6. NextUp(a) = h + 1 /\ NextUp(a)' = h + 1
  BY Zenon, <1>5 DEF NextUp
<1>7. \A i \in 1 .. c : chan[a][i].n = h + i /\ chan[a][i].kind = taken[a][h + i]
  BY Zenon, <1>1, <1>4, <1>5 DEF NextOk
<1>8. ASSUME NEW i \in 1 .. (c - 1)
      PROVE  chan'[a][i].n = h + 1 + i /\ chan'[a][i].kind = taken[a][h + 1 + i]
  <2>1. i + 1 \in 1 .. c /\ h + (i + 1) = h + 1 + i
    OBVIOUS
  <2> QED
    BY Zenon, <1>1, <1>7, <2>1
<1>9. chan[a][1].n = h + 1 /\ chan[a][1].kind = taken[a][h + 1] /\ h + 1 >= 1 /\ h + 1 >= 0
  <2>1. 1 \in 1 .. c /\ h + 1 >= 1 /\ h + 1 >= 0
    BY <1>1
  <2> QED
    BY Zenon, <1>7, <2>1
<1>10. behavior'[a] = LastSwap(a, h + 1)'
  BY Zenon, <1>2, <1>4, <1>6 DEF NextOk
<1>11. \A i \in 1 .. Len(ran'[a]) : ran'[a][i].n < h + 1
  BY Zenon, <1>4, <1>6 DEF NextOk
<1>12. NextOk(a)'
  BY Zenon, <1>1, <1>5, <1>6, <1>8, <1>9, <1>10, <1>11 DEF NextOk
<1> QED
  BY Zenon, <1>3, <1>12 DEF OrderOk

(* The message under way, when the executor is done with it. *)
LEMMA OrderNow ==
  ASSUME NEW a, Len(taken[a]) \in Nat, Len(chan[a]) \in Nat, UNCHANGED <<taken, chan>>,
         exec[Home(a)] # Resting, exec'[Home(a)'] = Resting, OrderOk(a), python,
         NEW k, k = exec[Home(a)].work.kind
  PROVE  \E h \in 1 .. Len(taken[a]) :
           /\ exec[Home(a)].work.n = h /\ behavior[a] = LastSwap(a, h)
           /\ \A i \in 1 .. Len(ran[a]) : ran[a][i].n < h
           /\ \A n : LastSwap(a, n)' = LastSwap(a, n)
           /\ LastSwap(a, h + 1)' = IF k = "swap" THEN h ELSE LastSwap(a, h)
           /\ (/\ behavior'[a] = LastSwap(a, h + 1)'
               /\ \A i \in 1 .. Len(ran'[a]) : ran'[a][i].n < h + 1) => NextOk(a)'
<1>1. NextOk(a)
  BY Zenon DEF OrderOk
<1>2. PICK h : /\ h = Handed(a) /\ h = Len(taken[a]) - Len(chan[a]) /\ h >= 1
               /\ exec[Home(a)].work.n = h /\ taken[a][h] = k
               /\ NextUp(a) = h /\ Handed(a)' = h /\ NextUp(a)' = h + 1
  BY Zenon, <1>1 DEF NextOk, Handed, NextUp
<1>3. h \in 1 .. Len(taken[a]) /\ h \in Nat /\ h > 0 /\ h >= 0
  <2>1. ASSUME NEW t \in Nat, NEW c \in Nat, NEW d, d = t - c, d >= 1
        PROVE  d \in 1 .. t /\ d \in Nat /\ d > 0 /\ d >= 0
    BY <2>1
  <2> QED
    BY Zenon, <1>2, <2>1
<1>4. \A n : LastSwap(a, n)' = LastSwap(a, n)
  BY Zenon DEF LastSwap, SwapsBefore
<1>5. LastSwap(a, h + 1)' = IF k = "swap" THEN h ELSE LastSwap(a, h)
  BY Zenon, <1>2, <1>3, <1>4, LastSwapNext
<1>6. ASSUME behavior'[a] = LastSwap(a, h + 1)',
             \A i \in 1 .. Len(ran'[a]) : ran'[a][i].n < h + 1
      PROVE  NextOk(a)'
  BY Zenon, <1>1, <1>2, <1>3, <1>6 DEF NextOk
<1> QED
  BY Zenon, <1>1, <1>2, <1>3, <1>4, <1>5, <1>6 DEF NextOk

(* A swap has been made. *)
LEMMA OrderSwapped ==
  ASSUME NEW a, Len(taken[a]) \in Nat, Len(chan[a]) \in Nat, UNCHANGED <<taken, chan>>,
         exec[Home(a)] # Resting, exec'[Home(a)'] = Resting, OrderOk(a), python,
         exec[Home(a)].work.kind = "swap", behavior'[a] = exec[Home(a)].work.n,
         ran'[a] = ran[a], ran[a] \in Seq(Runs)
  PROVE  OrderOk(a)'
<1>1. PICK h \in 1 .. Len(taken[a]) :
           /\ exec[Home(a)].work.n = h
           /\ \A i \in 1 .. Len(ran[a]) : ran[a][i].n < h
           /\ \A n : LastSwap(a, n)' = LastSwap(a, n)
           /\ LastSwap(a, h + 1)' = h
           /\ (/\ behavior'[a] = LastSwap(a, h + 1)'
               /\ \A i \in 1 .. Len(ran'[a]) : ran'[a][i].n < h + 1) => NextOk(a)'
  BY Zenon, OrderNow
<1>2. \A i \in 1 .. Len(ran'[a]) : ran'[a][i].n < h + 1
  <2>1. ASSUME NEW i \in 1 .. Len(ran'[a]) PROVE ran'[a][i].n < h + 1
    <3>1. ran[a][i] \in Runs
      BY Zenon, <2>1, ElementOf
    <3>2. PICK n \in Nat : n = ran[a][i].n
      BY <3>1 DEF Runs
    <3>3. n < h
      BY Zenon, <1>1, <2>1, <3>2
    <3>4. n < h + 1
      BY <3>3
    <3> QED
      BY Zenon, <3>2, <3>4
  <2> QED
    BY Zenon, <2>1
<1>3. \A i \in 1 .. Len(ran'[a]) : RunOk(a, i)'
  BY Zenon, <1>1 DEF OrderOk, RunOk
<1> QED
  BY Zenon, <1>1, <1>2, <1>3 DEF OrderOk

(* A callback has returned. *)
LEMMA OrderReturned ==
  ASSUME NEW a, Len(taken[a]) \in Nat, Len(chan[a]) \in Nat, UNCHANGED <<taken, chan>>,
         exec[Home(a)] # Resting, exec'[Home(a)'] = Resting, OrderOk(a), python,
         exec[Home(a)].work.kind = "user", behavior'[a] = behavior[a],
         NEW r, r.n = exec[Home(a)].work.n, r.by = behavior[a], Grown(ran[a], r, ran'[a]),
         \A i \in 1 .. Len(ran[a]) : ran[a][i].n \in Nat
  PROVE  OrderOk(a)'
<1>1. PICK h \in 1 .. Len(taken[a]) :
           /\ exec[Home(a)].work.n = h /\ behavior[a] = LastSwap(a, h)
           /\ \A i \in 1 .. Len(ran[a]) : ran[a][i].n < h
           /\ \A n : LastSwap(a, n)' = LastSwap(a, n)
           /\ LastSwap(a, h + 1)' = LastSwap(a, h)
           /\ (/\ behavior'[a] = LastSwap(a, h + 1)'
               /\ \A i \in 1 .. Len(ran'[a]) : ran'[a][i].n < h + 1) => NextOk(a)'
  <2>1. "user" # "swap"
    OBVIOUS
  <2> QED
    BY Zenon, <2>1, OrderNow
<1>2. PICK m \in Nat : /\ m = Len(ran[a]) /\ Len(ran'[a]) = m + 1 /\ ran'[a][m + 1] = r
                       /\ \A i \in 1 .. m : ran'[a][i] = ran[a][i]
  BY Zenon DEF Grown
<1>3. \A i \in 1 .. m + 1 : i \in 1 .. m \/ i = m + 1
  OBVIOUS
<1>4. \A i \in 1 .. m : ran'[a][i].n = ran[a][i].n /\ ran'[a][i].by = ran[a][i].by
  BY Zenon, <1>2
<1>5. ASSUME NEW i \in 1 .. m + 1 PROVE ran'[a][i].n < h + 1
  <2>1. CASE i \in 1 .. m
    <3>1. PICK n \in Nat : n = ran[a][i].n /\ n < h
      BY Zenon, <1>1, <1>2, <2>1
    <3>2. n < h + 1
      BY <3>1
    <3> QED
      BY Zenon, <1>4, <2>1, <3>1, <3>2
  <2>2. CASE i = m + 1
    <3>1. h < h + 1
      OBVIOUS
    <3> QED
      BY Zenon, <1>1, <1>2, <2>2, <3>1
  <2> QED
    BY Zenon, <1>3, <2>1, <2>2
<1>6. ASSUME NEW i \in 1 .. m + 1 PROVE RunOk(a, i)'
  <2>1. CASE i \in 1 .. m
    <3>1. RunOk(a, i)
      BY Zenon, <1>2, <2>1 DEF OrderOk
    <3>2. i > 1 => i - 1 \in 1 .. m
      BY <2>1
    <3> QED
      BY Zenon, <1>1, <1>4, <2>1, <3>1, <3>2 DEF RunOk
  <2>2. CASE i = m + 1
    <3>1. i > 1 => i - 1 \in 1 .. m
      BY <2>2
    <3>2. ran'[a][i].n = h /\ ran'[a][i].by = LastSwap(a, h)'
      BY Zenon, <1>1, <1>2, <2>2
    <3>3. i > 1 => ran'[a][i - 1].n < h
      BY Zenon, <1>1, <1>2, <1>4, <3>1
    <3> QED
      BY Zenon, <3>2, <3>3 DEF RunOk
  <2> QED
    BY Zenon, <1>3, <2>1, <2>2
<1> QED
  BY Zenon, <1>1, <1>2, <1>5, <1>6 DEF OrderOk
-----------------------------------------------------------------------------
(* The steps, seen from every actor.  Nothing happens to most of them. *)
LEMMA OthersKept ==
  ASSUME OrderInv, UNCHANGED <<actor, python>>, NEW a,
         actor[a] # "pooled" => OrderOk(a)',
         \A b \in Actors : b # a /\ actor[b] # "pooled" =>
           /\ taken'[b] = taken[b] /\ ran'[b] = ran[b] /\ chan'[b] = chan[b]
           /\ behavior'[b] = behavior[b] /\ exec'[Home(b)] = exec[Home(b)]
  PROVE  OrderInv'
<1> SUFFICES ASSUME NEW b \in Actors, actor[b] # "pooled", b # a PROVE OrderOk(b)'
  BY DEF OrderInv
<1>1. OrderOk(b) /\ Home(b)' = Home(b)
  BY DEF OrderInv, Home
<1> QED
  BY Zenon, <1>1, OrderFrame

LEMMA HomeOf ==
  ASSUME NEW b \in Actors
  PROVE  Home(b) \in Executors /\ Home(b) \notin Workers
BY Places DEF Home

LEMMA OrderGoesOn ==
  ASSUME WorkInv, NEW e \in Executors, TakeGil(e) \/ Call(e) \/ Away(e)
  PROVE  LogTypes' /\ OrderInv'
<1>1. UNCHANGED <<actor, chan, taken, behavior, ran, python>>
  BY Zenon DEF TakeGil, Call, Away, spawnVars
<1>2. /\ exec[e].pc \in {"gil", "away", "lock", "call"}
      /\ \E pc \in {"gil", "lock", "call", "away", "back"} :
           exec' = [exec EXCEPT ![e] = [pc |-> pc, work |-> exec[e].work]]
  BY Zenon DEF TakeGil, Call, Away, At, Goto
<1>3. ExecInv /\ exec[e] # Resting
  BY <1>2, JobOf DEF WorkInv, PlaceInv
<1>4. /\ exec'[e] # Resting /\ exec'[e].work = exec[e].work
      /\ \A f \in Executors : f # e => exec'[f] = exec[f]
  BY Zenon, <1>1, <1>2, <1>3, GoesOn
<1>5. ASSUME NEW b \in Actors, actor[b] # "pooled" PROVE OrderOk(b)'
  <2>1. Home(b) \in Executors /\ OrderOk(b) /\ Home(b)' = Home(b)
    BY Zenon, <1>1, <1>5, HomeOf DEF WorkInv, OrderInv, Home
  <2>2. /\ exec[Home(b)] = Resting <=> exec'[Home(b)'] = Resting
        /\ exec[Home(b)] # Resting => exec'[Home(b)'].work = exec[Home(b)].work
    BY Zenon, <1>3, <1>4, <2>1
  <2> QED
    BY Zenon, <1>1, <2>1, <2>2, OrderFrame
<1> QED
  BY Zenon, <1>1, <1>5 DEF WorkInv, LogTypes, OrderInv

LEMMA OrderWorker ==
  ASSUME WorkInv, NEW e \in Executors, WorkerTakes(e)
  PROVE  LogTypes' /\ OrderInv'
<1>1. UNCHANGED <<actor, chan, taken, behavior, ran, python>>
  BY DEF WorkerTakes, runVars
<1>2. e \in Workers /\ \A f \in Executors : f # e => exec'[f] = exec[f]
  BY Zenon, WorkerTakesKeeps DEF WorkInv
<1>3. ASSUME NEW b \in Actors, actor[b] # "pooled" PROVE OrderOk(b)'
  <2>1. OrderOk(b) /\ exec[Home(b)] = exec'[Home(b)']
    BY Zenon, <1>1, <1>2, <1>3, HomeOf DEF WorkInv, OrderInv, Home
  <2> QED
    BY Zenon, <1>1, <2>1, OrderFrame
<1> QED
  BY Zenon, <1>1, <1>3 DEF WorkInv, LogTypes, OrderInv

LEMMA OrderSpawn ==
  ASSUME WorkInv, NEW a \in Actors, SpawnInline(a) \/ Add(a) \/ SpawnStep(a)
  PROVE  LogTypes' /\ OrderInv'
<1>1. /\ UNCHANGED <<exec, chan, taken, behavior, ran, python>>
      /\ exec[Loop(a)] = Resting /\ exec[Thread(a)] = Resting
      /\ actor[a] # "pooled" /\ \A b \in Actors : b # a => actor'[b] = actor[b]
  BY Zenon, SpawnKeeps DEF WorkInv
<1>2. ASSUME NEW b \in Actors, actor'[b] # "pooled" PROVE OrderOk(b)'
  <2>1. OrderOk(b)
    BY Zenon, <1>1, <1>2 DEF WorkInv, OrderInv
  <2>2. exec[Home(b)] = exec'[Home(b)']
    BY Zenon, <1>1 DEF Home
  <2> QED
    BY Zenon, <1>1, <2>1, <2>2, OrderFrame
<1> QED
  BY Zenon, <1>1, <1>2 DEF WorkInv, LogTypes, OrderInv

LEMMA OrderRest ==
  ASSUME WorkInv, UNCHANGED <<actor, exec, chan, taken, behavior, ran>>, python' => python
  PROVE  LogTypes' /\ OrderInv'
<1>1. ASSUME NEW b \in Actors, actor[b] # "pooled" PROVE OrderOk(b)'
  <2>1. OrderOk(b) /\ exec[Home(b)] = exec'[Home(b)']
    BY Zenon, <1>1 DEF WorkInv, OrderInv, Home
  <2> QED
    BY Zenon, <2>1, OrderFrame
<1> QED
  BY Zenon, <1>1 DEF WorkInv, LogTypes, OrderInv

LEMMA OrderThread ==
  ASSUME WorkInv, NEW a \in Actors, ThreadTakes(a)
  PROVE  LogTypes' /\ OrderInv'
<1>1. UNCHANGED <<actor, taken, behavior, ran, python>>
  BY DEF ThreadTakes, spawnVars, runVars
<1>2. /\ exec[Thread(a)] = Resting /\ chan[a] # << >> /\ actor[a] = "dedicated"
      /\ chan'[a] = Tail(chan[a]) /\ \A b \in Actors : b # a => chan'[b] = chan[b]
      /\ \A f \in Executors : f # Thread(a) => exec'[f] = exec[f]
      /\ python => exec'[Thread(a)] # Resting /\ exec'[Thread(a)].work = Head(chan[a])
  BY Zenon, ThreadTakesKeeps DEF WorkInv
<1>3. Home(a) = Thread(a) /\ Home(a)' = Thread(a) /\ OrderOk(a)
  BY Zenon, <1>1, <1>2 DEF WorkInv, OrderInv, Home
<1>4. OrderOk(a)'
  <2>1. CASE python
    <3>1. chan[a] \in Seq(Works)
      BY Zenon DEF WorkInv, PlaceInv, ChanInv
    <3>2. Shifted(chan[a], chan'[a]) /\ Head(chan[a]) = chan[a][1]
      BY <1>2, <3>1, TailOf DEF Shifted
    <3>3. Len(taken[a]) \in Nat
      BY DEF WorkInv, LogTypes
    <3> QED
      BY Zenon, <1>1, <1>2, <1>3, <2>1, <3>2, <3>3, OrderTaken
  <2>2. CASE ~python
    BY Zenon, <1>1, <1>3, <2>2, OrderFrame
  <2> QED
    BY Zenon, <2>1, <2>2
<1>5. ASSUME NEW b \in Actors, b # a PROVE exec'[Home(b)] = exec[Home(b)]
  <2>1. Home(b) # Thread(a)
    BY <1>5, Places DEF Home
  <2> QED
    BY Zenon, <1>2, <2>1, HomeOf
<1>6. OrderInv'
  BY Zenon, <1>1, <1>2, <1>4, <1>5, OthersKept DEF WorkInv
<1> QED
  BY Zenon, <1>1, <1>6 DEF WorkInv, LogTypes

LEMMA OrderHandle ==
  ASSUME WorkInv, NEW a \in Actors, NEW k \in Kind, Handle(a, k)
  PROVE  PlaceInv' /\ LogTypes' /\ OrderInv'
<1>1. UNCHANGED <<actor, behavior, ran, python>>
  BY DEF Handle, runVars
<1>2. /\ taken \in [Actors -> Seq(Kind)] /\ taken[a] \in Seq(Kind) /\ Len(taken[a]) \in Nat
      /\ chan[a] \in Seq(Works)
  BY DEF WorkInv, LogTypes, PlaceInv, ChanInv
<1>3. PICK w \in Works : /\ w.a = a /\ w.n = Len(taken[a]) + 1 /\ w.kind = k
                         /\ w = Work(a, Len(taken[a]) + 1, w.kind)
  <2>1. PICK n \in Nat : n = Len(taken[a]) + 1
    BY <1>2
  <2>2. /\ Work(a, n, k) \in Works /\ Work(a, n, k).a = a /\ Work(a, n, k).n = n
        /\ Work(a, n, k).kind = k
    BY DEF Work, Works
  <2> QED
    BY Zenon, <2>1, <2>2
<1>4. /\ PlaceInv' /\ exec[Loop(a)] = Resting
      /\ actor[a] \in {"inline", "dedicated", "pooled"}
      /\ \A b \in Actors : b # a => chan'[b] = chan[b]
      /\ \A f \in Executors : f # Loop(a) => exec'[f] = exec[f]
      /\ chan'[a] =
           IF python /\ actor[a] = "dedicated" THEN Append(chan[a], w) ELSE chan[a]
      /\ python /\ actor[a] = "inline" =>
           exec'[Loop(a)] # Resting /\ exec'[Loop(a)].work = w
  BY Zenon, <1>3, HandleKeeps DEF WorkInv
<1>5. /\ taken' \in [Actors -> Seq(Kind)] /\ Grown(taken[a], k, taken'[a])
      /\ \A b \in Actors : b # a => taken'[b] = taken[b]
  <2>1. Append(taken[a], k) \in Seq(Kind) /\ Grown(taken[a], k, Append(taken[a], k))
    BY <1>2, Appended DEF Grown
  <2>2. taken' = [taken EXCEPT ![a] = Append(taken[a], k)]
    BY Zenon DEF Handle
  <2> QED
    BY Zenon, <1>2, <2>1, <2>2, Updated
<1>6. ASSUME actor[a] # "pooled" PROVE OrderOk(a)'
  <2>1. OrderOk(a) /\ Home(a)' = Home(a)
    BY Zenon, <1>1, <1>6 DEF WorkInv, OrderInv, Home
  <2>2. CASE ~python
    BY Zenon, <1>1, <1>5, <2>1, <2>2, OrderDropped
  <2>3. CASE python /\ actor[a] = "dedicated"
    <3>1. Grown(chan[a], w, Append(chan[a], w))
      BY <1>2, Appended DEF Grown
    <3>2. Home(a) = Thread(a) /\ Thread(a) # Loop(a) /\ Thread(a) \in Executors
      BY <2>3, Places DEF Home
    <3>3. /\ Grown(taken[a], w.kind, taken'[a]) /\ Grown(chan[a], w, chan'[a])
          /\ w.n = Len(taken[a]) + 1 /\ ran'[a] = ran[a] /\ behavior'[a] = behavior[a]
      BY Zenon, <1>1, <1>3, <1>4, <1>5, <2>3, <3>1
    <3>4. exec'[Home(a)'] = exec[Home(a)]
      BY Zenon, <1>4, <2>1, <3>2
    <3> QED
      BY Zenon, <2>1, <2>3, <3>3, <3>4, OrderSent
  <2>4. CASE python /\ actor[a] = "inline"
    <3>1. chan[a] = << >> /\ Len(chan[a]) = 0
      BY <2>4 DEF WorkInv, PlaceInv, ChanInv
    <3>2. Home(a) = Loop(a) /\ chan'[a] = chan[a]
      BY <1>4, <2>4 DEF Home
    <3>3. /\ Grown(taken[a], w.kind, taken'[a]) /\ w.n = Len(taken[a]) + 1
          /\ ran'[a] = ran[a] /\ behavior'[a] = behavior[a]
      BY Zenon, <1>1, <1>3, <1>5
    <3>4. /\ exec[Home(a)] = Resting /\ exec'[Home(a)'] # Resting
          /\ exec'[Home(a)'].work = w
      BY Zenon, <1>4, <2>1, <2>4, <3>2
    <3> QED
      BY Zenon, <2>1, <2>4, <3>1, <3>2, <3>3, <3>4, OrderBegun
  <2> QED
    BY Zenon, <1>4, <1>6, <2>2, <2>3, <2>4
<1>7. ASSUME NEW b \in Actors, b # a PROVE exec'[Home(b)] = exec[Home(b)]
  <2>1. Home(b) # Loop(a)
    BY <1>7, Places DEF Home
  <2> QED
    BY Zenon, <1>4, <2>1, HomeOf
<1>8. OrderInv'
  BY Zenon, <1>1, <1>4, <1>5, <1>6, <1>7, OthersKept DEF WorkInv
<1> QED
  BY Zenon, <1>1, <1>4, <1>5, <1>8 DEF WorkInv, LogTypes

LEMMA OrderFinish ==
  ASSUME WorkInv, NEW e \in Executors, Return(e) \/ Swap(e)
  PROVE  LogTypes' /\ OrderInv'
<1>1. UNCHANGED <<actor, taken, chan, python>> /\ exec' = [exec EXCEPT ![e] = Resting]
  BY Zenon DEF Return, Swap, spawnVars
<1>2. /\ ExecInv /\ GilInv /\ exec[e] # Resting /\ exec[e].pc \in {"lock", "call", "back"}
  BY Zenon, JobOf DEF WorkInv, PlaceInv, Return, Swap, At
<1>3. python
  BY <1>2, NobodyExecutes DEF GilInv
<1>4. PICK a \in Actors : a = exec[e].work.a
  BY <1>2, JobOf
<1>5. exec'[e] = Resting /\ \A f \in Executors : f # e => exec'[f] = exec[f]
  BY Zenon, <1>1, <1>2, ExecMoves
<1>6. PICK n \in Nat : n = exec[e].work.n
  BY <1>2, JobOf
<1>7. /\ behavior \in [Actors -> Nat] /\ ran \in [Actors -> Seq(Runs)] /\ ran[a] \in Seq(Runs)
      /\ Len(taken[a]) \in Nat /\ Len(chan[a]) \in Nat /\ behavior[a] \in Nat
  BY DEF WorkInv, LogTypes, PlaceInv, ChanInv
<1>8. ASSUME actor[a] # "pooled"
      PROVE  Home(a) = e /\ Home(a)' = e /\ OrderOk(a)
  <2>1. Home(a) = e
    BY Zenon, <1>2, <1>4, <1>8, HomeWorks
  <2> QED
    BY Zenon, <1>1, <1>8, <2>1 DEF WorkInv, OrderInv, Home
<1>9. /\ LogTypes'
      /\ actor[a] # "pooled" => OrderOk(a)'
      /\ \A b \in Actors : b # a => ran'[b] = ran[b] /\ behavior'[b] = behavior[b]
  <2>1. CASE Return(e)
    <3>1. PICK r : r = [n |-> n, by |-> behavior[a]]
      BY Zenon
    <3>2. r \in Runs /\ r.n = n /\ r.by = behavior[a]
      BY <1>7, <3>1 DEF Runs
    <3>3. behavior' = behavior /\ ran' = [ran EXCEPT ![a] = Append(ran[a], r)]
      BY Zenon, <1>4, <1>6, <2>1, <3>1 DEF Return
    <3>4. Append(ran[a], r) \in Seq(Runs) /\ Grown(ran[a], r, Append(ran[a], r))
      BY <1>7, <3>2, Appended DEF Grown
    <3>5. /\ ran' \in [Actors -> Seq(Runs)] /\ Grown(ran[a], r, ran'[a])
          /\ \A b \in Actors : b # a => ran'[b] = ran[b]
      BY Zenon, <1>7, <3>3, <3>4, Updated
    <3>6. exec[e].work.kind = "user"
      BY Zenon, <1>2, <2>1 DEF Return, GilInv
    <3>7. \A i \in 1 .. Len(ran[a]) : ran[a][i].n \in Nat
      <4>1. \A x \in Runs : x.n \in Nat
        BY DEF Runs
      <4> QED
        BY Zenon, <1>7, <4>1, ElementOf
    <3>8. ASSUME actor[a] # "pooled" PROVE OrderOk(a)'
      <4>1. /\ exec[Home(a)] # Resting /\ exec'[Home(a)'] = Resting /\ OrderOk(a)
            /\ exec[Home(a)].work.kind = "user" /\ r.n = exec[Home(a)].work.n
        BY Zenon, <1>2, <1>5, <1>6, <1>8, <3>2, <3>6, <3>8
      <4> QED
        BY Zenon, <1>1, <1>3, <1>7, <3>2, <3>3, <3>5, <3>7, <4>1, OrderReturned
    <3> QED
      BY Zenon, <1>1, <3>3, <3>5, <3>8 DEF WorkInv, LogTypes
  <2>2. CASE Swap(e)
    <3>1. ran' = ran /\ behavior' = [behavior EXCEPT ![a] = n] /\ exec[e].work.kind = "swap"
      BY Zenon, <1>4, <1>6, <2>2 DEF Swap
    <3>2. /\ behavior' \in [Actors -> Nat] /\ behavior'[a] = n
          /\ \A b \in Actors : b # a => behavior'[b] = behavior[b]
      BY Zenon, <1>7, <3>1, Updated
    <3>3. ASSUME actor[a] # "pooled" PROVE OrderOk(a)'
      <4>1. /\ exec[Home(a)] # Resting /\ exec'[Home(a)'] = Resting /\ OrderOk(a)
            /\ exec[Home(a)].work.kind = "swap" /\ behavior'[a] = exec[Home(a)].work.n
        BY Zenon, <1>2, <1>5, <1>6, <1>8, <3>1, <3>2, <3>3
      <4> QED
        BY Zenon, <1>1, <1>3, <1>7, <3>1, <4>1, OrderSwapped
    <3> QED
      BY Zenon, <1>1, <3>1, <3>2, <3>3 DEF WorkInv, LogTypes
  <2> QED
    BY Zenon, <2>1, <2>2
<1>10. ASSUME NEW b \in Actors, b # a PROVE exec'[Home(b)] = exec[Home(b)]
  <2>1. Home(b) # e
    BY <1>2, <1>4, <1>10, HomeWorks DEF Home
  <2> QED
    BY Zenon, <1>5, <2>1, HomeOf
<1>11. OrderInv'
  BY Zenon, <1>1, <1>9, <1>10, OthersKept DEF WorkInv
<1> QED
  BY Zenon, <1>9, <1>11
-----------------------------------------------------------------------------
(* Before the first spawn there is no work. *)
LEMMA PlaceInit == Init => PlaceInv
<1> SUFFICES ASSUME Init PROVE PlaceInv
  OBVIOUS
<1>1. \A e \in Executors : exec[e] = Resting /\ exec[e].pc = "idle"
  BY DEF Init, Resting
<1>2. KindInv /\ LoopInv /\ PoolInv
  BY DEF Init, KindInv, LoopInv, PoolInv, Kinds
<1>3. ChanInv
  BY DEF Init, ChanInv
<1>4. ExecInv
  BY <1>1 DEF Init, ExecInv
<1>5. ReadInv /\ GilInv
  <2>1. \A a \in Actors : readers[a] = {}
    BY DEF Init
  <2> QED
    BY <1>1, <2>1 DEF Init, ReadInv, GilInv
<1> QED
  BY <1>2, <1>3, <1>4, <1>5 DEF PlaceInv

LEMMA WorkInit == Init => WorkInv
<1> SUFFICES ASSUME Init PROVE WorkInv
  OBVIOUS
<1>1. LogTypes
  BY DEF Init, LogTypes
<1>2. ASSUME NEW a \in Actors PROVE OrderOk(a)
  <2>1. /\ Len(taken[a]) = 0 /\ Len(chan[a]) = 0 /\ Len(ran[a]) = 0 /\ behavior[a] = 0
        /\ exec[Home(a)] = Resting
    BY HomeOf DEF Init
  <2>2. Handed(a) = 0 /\ NextUp(a) = 1
    BY <2>1 DEF Handed, NextUp
  <2>3. SwapsBefore(a, 1) = {}
    BY DEF SwapsBefore
  <2>4. LastSwap(a, 1) = 0
    BY <2>3 DEF LastSwap, Latest
  <2> QED
    BY <2>1, <2>2, <2>4 DEF OrderOk, NextOk
<1> QED
  BY Zenon, <1>1, <1>2, PlaceInit DEF WorkInv, OrderInv

(* The invariant is inductive. *)
LEMMA WorkStep == WorkInv /\ [Next]_vars => WorkInv'
<1> SUFFICES ASSUME WorkInv, [Next]_vars PROVE WorkInv'
  OBVIOUS
<1>1. ASSUME NEW a \in Actors, SpawnInline(a) \/ Add(a) \/ SpawnStep(a)
      PROVE  WorkInv'
  BY Zenon, <1>1, SpawnKeeps, OrderSpawn DEF WorkInv
<1>2. ASSUME NEW a \in Actors,
             \/ Post(a, "user", MaxUser) \/ Post(a, "swap", MaxSwap) \/ Stop(a)
             \/ LoopEnds(a) \/ ThreadEnds(a)
      PROVE  WorkInv'
  <2>1. /\ UNCHANGED <<actor, exec, chan, pool, readers, gil, taken, behavior, ran, python>>
        /\ loop' = loop \/ \E b \in Actors : loop' = [loop EXCEPT ![b] = "ended"]
    BY Zenon, <1>2 DEF Post, Stop, LoopEnds, ThreadEnds, Leave, spawnVars, mailVars, runVars
  <2> QED
    BY Zenon, <2>1, RestKeeps, OrderRest DEF WorkInv
<1>3. ASSUME NEW a \in Actors, ThreadTakes(a) PROVE WorkInv'
  BY Zenon, <1>3, ThreadTakesKeeps, OrderThread DEF WorkInv
<1>4. ASSUME NEW a \in Actors, NEW k \in {"user", "swap"}, Handle(a, k) PROVE WorkInv'
  BY Zenon, <1>4, OrderHandle DEF WorkInv, Kind
<1>5. ASSUME NEW e \in Executors, TakeGil(e) \/ Call(e) \/ Away(e) PROVE WorkInv'
  BY Zenon, <1>5, TakeGilKeeps, CallKeeps, AwayKeeps, OrderGoesOn DEF WorkInv
<1>6. ASSUME NEW e \in Executors, WorkerTakes(e) \/ Return(e) \/ Swap(e) PROVE WorkInv'
  BY Zenon, <1>6, WorkerTakesKeeps, OrderWorker, FinishKeeps, OrderFinish DEF WorkInv
<1>7. CASE Finalize \/ UNCHANGED vars
  <2>1. /\ UNCHANGED <<actor, exec, chan, pool, readers, gil, taken, behavior, ran, loop>>
        /\ python' = python \/ (~python' /\ gil = Free)
    BY Zenon, <1>7 DEF Finalize, vars, spawnVars, mailVars, runVars
  <2>2. PlaceInv'
    BY Zenon, <2>1, RestKeeps DEF WorkInv
  <2>3. LogTypes' /\ OrderInv'
    <3>1. python' => python
      BY Zenon, <1>7 DEF Finalize, vars
    <3> QED
      BY Zenon, <2>1, <3>1, OrderRest
  <2> QED
    BY <2>2, <2>3 DEF WorkInv
<1> QED
  BY Zenon, <1>1, <1>2, <1>3, <1>4, <1>5, <1>6, <1>7 DEF Next, LoopStep, ExecStep

(* A hot swap is seen by exactly the messages taken after it               *)
(* (spawn_py_handler, py.rs), for every actor that has an executor of its  *)
(* own, and its messages run in the order they were taken, whatever other  *)
(* actors, threads and the interpreter do.                                 *)
THEOREM SwapsAreOrdered == Spec => []SwapsInOrder
<1>1. WorkInv => SwapsInOrder
  <2> SUFFICES ASSUME WorkInv, NEW a \in Actors, actor[a] \in {"inline", "dedicated"},
                      NEW i \in 1 .. Len(ran[a])
               PROVE  /\ ran[a][i].by = LastSwap(a, ran[a][i].n)
                      /\ i > 1 => ran[a][i - 1].n < ran[a][i].n
    BY Zenon DEF SwapsInOrder
  <2>1. actor[a] # "pooled"
    OBVIOUS
  <2> QED
    BY Zenon, <2>1 DEF WorkInv, OrderInv, OrderOk, RunOk
<1> QED
  BY <1>1, WorkInit, WorkStep, PTL DEF Spec

(* A swap that holds the GIL while it waits for a callback that waits for  *)
(* the GIL is one of an actor that shares the pool.                        *)
THEOREM StuckInPool == Spec => []OnlyPoolSticks
<1>1. WorkInv => OnlyPoolSticks
  <2> SUFFICES ASSUME WorkInv, NEW e \in Executors, NEW f \in Executors,
                      gil = e, At(e, "lock"), f \in readers[exec[e].work.a], At(f, "away")
               PROVE  actor[exec[e].work.a] = "pooled"
    BY Zenon DEF OnlyPoolSticks, Stuck
  <2>1. ExecInv /\ ReadInv /\ exec[e].pc = "lock" /\ exec[f].pc = "away"
    BY Zenon DEF WorkInv, PlaceInv, At
  <2>2. exec[e] # Resting /\ exec[f] # Resting /\ exec[e].work.a \in Actors
    BY <2>1, JobOf
  <2>3. exec[f].work.a = exec[e].work.a /\ e # f
    BY <2>1, <2>2 DEF ReadInv
  <2>4. PICK a \in Actors : a = exec[e].work.a /\ a = exec[f].work.a
    BY Zenon, <2>2, <2>3
  <2>5. actor[a] # "pooled" => e = Home(a) /\ f = Home(a)
    BY Zenon, <2>1, <2>2, <2>4, HomeWorks
  <2> QED
    BY Zenon, <2>3, <2>4, <2>5
<1> QED
  BY <1>1, WorkInit, WorkStep, PTL DEF Spec
-----------------------------------------------------------------------------
(* How many threads there are *)

INSTANCE FiniteSetTheorems

(* Threads belong to dedicated actors. *)
ThreadsOwned ==
  /\ actor \in [Actors -> Kinds]
  /\ thread \in [Actors -> {"none", "on", "ended"}]
  /\ \A a \in Actors : thread[a] # "none" => actor[a] = "dedicated"

CountInv == ThreadsOwned /\ CountExact /\ ThreadBound

(* One element more or less, and cardinality of a subset, as used below. *)
LEMMA OneMore ==
  ASSUME NEW S, NEW T, NEW x, IsFiniteSet(S), x \notin S, T = S \cup {x}
  PROVE  Cardinality(T) = Cardinality(S) + 1
BY FS_AddElement

LEMMA OneLess ==
  ASSUME NEW S, NEW T, NEW x, IsFiniteSet(S), x \in S, T = S \ {x}
  PROVE  Cardinality(T) = Cardinality(S) - 1
BY FS_RemoveElement

(* Dedicated threads are counted, and both sets are finite. *)
LEMMA CountedFinite ==
  /\ IsFiniteSet(Counted) /\ IsFiniteSet(Dedicated)
  /\ Cardinality(Counted) \in Nat /\ Cardinality(Dedicated) \in Nat
  /\ Cardinality(Dedicated) <= Cardinality(Counted)
<1>1. Counted \subseteq Actors /\ Dedicated \subseteq Counted
  BY DEF Counted, Dedicated
<1>2. IsFiniteSet(Counted) /\ IsFiniteSet(Dedicated)
  BY <1>1, FS_Subset, ReleaseGilAssumption
<1> QED
  BY <1>1, <1>2, FS_Subset, FS_CardinalityType

(* The initial state counts nothing. *)
LEMMA CountInit == Init => CountInv
<1> SUFFICES ASSUME Init PROVE CountInv
  OBVIOUS
<1>1. ThreadsOwned
  BY DEF Init, ThreadsOwned, Kinds
<1>2. Counted = {} /\ Dedicated = {}
  BY DEF Init, Counted, Dedicated
<1>3. Cardinality(Counted) = 0 /\ Cardinality(Dedicated) = 0
  BY <1>2, FS_EmptySet
<1> QED
  BY <1>1, <1>3, ReleaseGilAssumption DEF CountInv, CountExact, ThreadBound, Init

(* An action that leaves the counter, the actors' kinds and the threads    *)
(* alone preserves the invariant.                                          *)
LEMMA CountFrame ==
  ASSUME CountInv, UNCHANGED <<count, actor, thread>>
  PROVE  CountInv'
<1>1. Counted' = Counted /\ Dedicated' = Dedicated
  BY DEF Counted, Dedicated
<1> QED
  BY <1>1 DEF CountInv, ThreadsOwned, CountExact, ThreadBound

(* fetch_add: the caller is counted, and admitted only below the limit. *)
LEMMA CountAdd ==
  ASSUME CountInv, NEW a \in Actors, Add(a)
  PROVE  CountInv'
<1>1. /\ actor[a] = "off" /\ thread[a] = "none" /\ thread' = thread /\ count' = count + 1
      /\ actor' = [actor EXCEPT ![a] = IF count >= MaxThreads THEN "refused" ELSE "admitted"]
  BY DEF Add, Step, CountInv, ThreadsOwned
<1>2. ThreadsOwned'
  BY <1>1 DEF CountInv, ThreadsOwned, Kinds
<1>3. a \notin Counted /\ a \notin Dedicated /\ Counted' = Counted \cup {a}
  BY <1>1 DEF Counted, Dedicated, CountInv, ThreadsOwned
<1>4. CountExact'
  BY <1>1, <1>3, CountedFinite, OneMore DEF CountInv, CountExact
<1>5. ThreadBound'
  <2>1. CASE count >= MaxThreads
    <3>1. Dedicated' = Dedicated
      BY <1>1, <2>1 DEF Dedicated, CountInv, ThreadsOwned
    <3> QED
      BY <3>1 DEF CountInv, ThreadBound
  <2>2. CASE ~(count >= MaxThreads)
    <3>1. Dedicated' = Dedicated \cup {a}
      BY <1>1, <2>2 DEF Dedicated, CountInv, ThreadsOwned
    <3>2. Cardinality(Dedicated') = Cardinality(Dedicated) + 1
      BY <3>1, <1>3, CountedFinite, OneMore
    <3>3. Cardinality(Dedicated) < MaxThreads
      BY <2>2, CountedFinite, ReleaseGilAssumption DEF CountInv, CountExact
    <3> QED
      BY <3>2, <3>3, CountedFinite, ReleaseGilAssumption DEF ThreadBound
  <2> QED
    BY <2>1, <2>2
<1> QED
  BY <1>2, <1>4, <1>5 DEF CountInv

(* Refusals are retracted, once. *)
LEMMA CountTakeBack ==
  ASSUME CountInv, NEW a \in Actors, TakeBack(a)
  PROVE  CountInv'
<1>1. /\ actor[a] = "refused" /\ thread[a] = "none" /\ thread' = thread /\ count' = count - 1
      /\ actor' = [actor EXCEPT ![a] = IF Strict THEN "failed" ELSE "fallback"]
  BY DEF TakeBack, Refuse, Step, CountInv, ThreadsOwned
<1>2. ThreadsOwned'
  BY <1>1 DEF CountInv, ThreadsOwned, Kinds
<1>3. a \in Counted /\ Counted' = Counted \ {a} /\ Dedicated' = Dedicated
  BY <1>1 DEF Counted, Dedicated, CountInv, ThreadsOwned
<1>4. Cardinality(Counted') = Cardinality(Counted) - 1
  BY <1>3, CountedFinite, OneLess
<1> QED
  BY <1>1, <1>2, <1>3, <1>4 DEF CountInv, CountExact, ThreadBound

(* A thread that ends gives its place back. *)
LEMMA CountThreadEnds ==
  ASSUME CountInv, NEW a \in Actors, ThreadEnds(a)
  PROVE  CountInv'
<1>1. /\ thread[a] = "on" /\ thread' = [thread EXCEPT ![a] = "ended"]
      /\ actor' = actor /\ actor[a] = "dedicated" /\ count' = count - 1
  BY DEF ThreadEnds, Leave, CountInv, ThreadsOwned
<1>2. ThreadsOwned'
  BY <1>1 DEF CountInv, ThreadsOwned
<1>3. /\ a \in Counted /\ Counted' = Counted \ {a}
      /\ a \in Dedicated /\ Dedicated' = Dedicated \ {a}
  BY <1>1 DEF Counted, Dedicated, CountInv, ThreadsOwned
<1>4. /\ Cardinality(Counted') = Cardinality(Counted) - 1
      /\ Cardinality(Dedicated') = Cardinality(Dedicated) - 1
  BY <1>3, CountedFinite, OneLess
<1> QED
  BY <1>1, <1>2, <1>4, CountedFinite, ReleaseGilAssumption
  DEF CountInv, CountExact, ThreadBound

(* The steps that start an actor move it between states that count alike. *)
LEMMA CountStarts ==
  ASSUME CountInv, NEW a \in Actors, SpawnInline(a) \/ SpawnDedicated(a) \/ SpawnPooled(a)
  PROVE  CountInv'
<1>1. ThreadsOwned' /\ count' = count
  BY DEF SpawnInline, SpawnDedicated, SpawnPooled, Step, CountInv, ThreadsOwned, Kinds
<1>2. Counted' = Counted /\ Dedicated' = Dedicated
  BY DEF SpawnInline, SpawnDedicated, SpawnPooled, Step, CountInv, ThreadsOwned,
         Counted, Dedicated
<1> QED
  BY <1>1, <1>2 DEF CountInv, CountExact, ThreadBound

(* What the actors, threads and workers do with messages is not counted. *)
LEMMA CountRest ==
  ASSUME NEW a \in Actors, NEW e \in Executors,
         \/ Post(a, "user", MaxUser) \/ Post(a, "swap", MaxSwap) \/ Stop(a)
         \/ LoopStep(a) \/ ThreadTakes(a)
         \/ WorkerTakes(e) \/ ExecStep(e) \/ Away(e) \/ Finalize
  PROVE  UNCHANGED <<count, actor, thread>>
<1>1. CASE Post(a, "user", MaxUser) \/ Post(a, "swap", MaxSwap) \/ Stop(a) \/ Finalize
  BY Zenon, <1>1 DEF Post, Stop, Finalize, spawnVars
<1>2. CASE LoopStep(a)
  BY Zenon, <1>2 DEF LoopStep, LoopEnds, Handle, spawnVars
<1>3. CASE ThreadTakes(a) \/ WorkerTakes(e)
  BY Zenon, <1>3 DEF ThreadTakes, WorkerTakes, spawnVars
<1>4. CASE ExecStep(e) \/ Away(e)
  BY Zenon, <1>4 DEF ExecStep, TakeGil, Call, Return, Swap, Away, spawnVars
<1> QED
  BY <1>1, <1>2, <1>3, <1>4

(* The invariant is inductive. *)
LEMMA CountStep == CountInv /\ [Next]_vars => CountInv'
<1> SUFFICES ASSUME CountInv, [Next]_vars PROVE CountInv'
  OBVIOUS
<1>1. ASSUME NEW a \in Actors, SpawnInline(a) \/ Add(a) \/ SpawnStep(a) \/ ThreadEnds(a)
      PROVE  CountInv'
  BY <1>1, CountAdd, CountTakeBack, CountThreadEnds, CountStarts DEF SpawnStep
<1>2. ASSUME NEW a \in Actors,
             \/ Post(a, "user", MaxUser) \/ Post(a, "swap", MaxSwap) \/ Stop(a)
             \/ LoopStep(a) \/ ThreadTakes(a)
      PROVE  CountInv'
  <2>1. Loop(a) \in Executors
    BY DEF Loop, Executors
  <2> QED
    BY <1>2, <2>1, CountRest, CountFrame
<1>3. ASSUME NEW e \in Executors, WorkerTakes(e) \/ ExecStep(e) \/ Away(e)
      PROVE  CountInv'
  <2>1. UNCHANGED <<count, actor, thread>>
    BY Zenon, <1>3 DEF WorkerTakes, ExecStep, TakeGil, Call, Return, Swap, Away, spawnVars
  <2> QED
    BY <2>1, CountFrame
<1>4. CASE Finalize
  BY <1>4, CountFrame DEF Finalize, spawnVars
<1>5. CASE UNCHANGED vars
  BY <1>5, CountFrame DEF vars, spawnVars
<1> QED
  BY <1>1, <1>2, <1>3, <1>4, <1>5 DEF Next

(* RELEASE_GIL_THREADS (spawn_py_handler, py.rs:731) is the number of the  *)
(* spawns and threads that have counted themselves, whatever the limit,    *)
(* the pool and the number of actors and messages.                         *)
THEOREM CountIsExact == Spec => []CountExact
<1>1. CountInv => CountExact
  BY DEF CountInv
<1> QED
  BY <1>1, CountInit, CountStep, PTL DEF Spec

(* There are never more dedicated threads than release_gil_max_threads.    *)
THEOREM ThreadsAreBounded == Spec => []ThreadBound
<1>1. CountInv => ThreadBound
  BY DEF CountInv
<1> QED
  BY <1>1, CountInit, CountStep, PTL DEF Spec
=============================================================================
