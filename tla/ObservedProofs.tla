-------------------------- MODULE ObservedProofs ---------------------------
(***************************************************************************)
(* Observed actors, for any number of receivers, threads, buffers and      *)
(* messages and for all matchers.                                          *)
(*                                                                         *)
(* First that take_observed_message_matching takes the oldest message its  *)
(* matcher accepts.  The inductive invariant ScanInv says what the         *)
(* vector's mutex protects: a scan under way belongs to the holder of the  *)
(* mutex, and none of the messages it has passed is one that it wants.     *)
(*                                                                         *)
(* Then that a buffer is in one place at any time.  PlaceInv says this     *)
(* with sets instead of counts, and that only known ids are anywhere; each *)
(* action that touches a buffer moves it, and it alone, to one place, but  *)
(* for the end of the loop, which moves all that are queued.  StopInv says *)
(* what a stop can cost: nothing is lost with the actor before it.         *)
(***************************************************************************)
EXTENDS Observed, TLAPS

Types ==
  /\ buffers \subseteq Nat /\ next \in Nat
  /\ queue \in Seq(Nat) /\ hand \in Nat /\ vec \in Seq(Nat)
  /\ rpc \in [Receivers -> {"idle", "lock", "scan", "match", "convert", "sleep", "done"}]
  /\ pos \in [Receivers -> Nat \ {0}]
  /\ taken \in [Receivers -> Nat]

InScan(r) == rpc[r] \in {"scan", "match"}

Passed(r) == \A j \in 1 .. Len(vec) : j < pos[r] => ~Matches(r, vec[j])

ScanOwned ==
  \A r \in Receivers :
    /\ InScan(r) => mutex = r
    /\ ~InScan(r) => pos[r] = 1
    /\ Passed(r)
    /\ rpc[r] = "match" => pos[r] <= Len(vec)

ScanInv == Types /\ ScanOwned

(* The sequences that a push, a pop and a removal leave. *)
LEMMA AppendForm ==
  ASSUME NEW q \in Seq(Nat), NEW i \in Nat
  PROVE  /\ Append(q, i) \in Seq(Nat) /\ Len(Append(q, i)) = Len(q) + 1 /\ Len(q) \in Nat
         /\ \A k \in 1 .. Len(q) : Append(q, i)[k] = q[k]
         /\ Append(q, i)[Len(q) + 1] = i
OBVIOUS

LEMMA TailForm ==
  ASSUME NEW q \in Seq(Nat), q # << >>
  PROVE  /\ Tail(q) \in Seq(Nat) /\ Len(q) \in Nat \ {0} /\ Len(Tail(q)) = Len(q) - 1
         /\ Head(q) = q[1] /\ q[1] \in Nat
         /\ \A k \in 1 .. Len(q) - 1 : Tail(q)[k] = q[k + 1]
OBVIOUS

LEMMA WithoutForm ==
  ASSUME NEW q \in Seq(Nat), NEW k \in 1 .. Len(q)
  PROVE  /\ Without(q, k) \in Seq(Nat) /\ Len(q) \in Nat /\ Len(Without(q, k)) = Len(q) - 1
         /\ \A n \in 1 .. Len(q) - 1 : n < k => Without(q, k)[n] = q[n]
         /\ \A n \in 1 .. Len(q) - 1 : n >= k => Without(q, k)[n] = q[n + 1]
BY DEF Without

(* Steps that leave the vector, its mutex and the scans alone. *)
LEMMA ScanUntouched ==
  ASSUME ScanOwned, UNCHANGED <<vec, mutex, rpc, pos>>
  PROVE  ScanOwned'
BY DEF ScanOwned, InScan, Passed, Matches

(* A push: the mutex is free, so that no scan is under way. *)
LEMMA PushKeeps ==
  ASSUME ScanInv, Push
  PROVE  ScanInv'
<1> USE DEF ScanInv
<1>1. Types'
  <2>1. vec' \in Seq(Nat)
    BY AppendForm DEF Types, Push
  <2> QED
    BY <2>1 DEF Types, Push, bufVars, recVars
<1>2. ScanOwned'
  <2> SUFFICES ASSUME NEW r \in Receivers
               PROVE  /\ ~InScan(r)' /\ (pos[r] = 1)'
                      /\ (rpc[r] # "match")'
    BY DEF ScanOwned, Passed, InScan
  <2>1. ~InScan(r)
    BY ObservedAssumption DEF ScanOwned, Push
  <2> QED
    BY <2>1 DEF ScanOwned, Push, recVars, InScan
<1> QED
  BY <1>1, <1>2

(* A step of one receiver. *)
LEMMA ReceiverKeeps ==
  ASSUME ScanInv, NEW r \in Receivers, ReceiverStep(r)
  PROVE  ScanInv'
<1> USE DEF ScanInv
<1>0. \A q \in Receivers : q # r /\ InScan(r) => ~InScan(q)
  BY DEF ScanOwned
<1>1. CASE TakeMutex(r)
  <2>1. Types'
    BY <1>1 DEF Types, TakeMutex, Frame, bufVars, actVars
  <2>2. \A q \in Receivers : ~InScan(q)
    BY <1>1, ObservedAssumption DEF ScanOwned, TakeMutex, InScan
  <2>3. ScanOwned'
    BY <1>1, <2>2 DEF Types, ScanOwned, TakeMutex, InScan, Passed, Matches
  <2> QED
    BY <2>1, <2>3
<1>2. CASE AskMatcher(r)
  <2>1. Types'
    BY <1>2 DEF Types, AskMatcher, Frame, bufVars, actVars
  <2>2. ScanOwned'
    BY Zenon, <1>2 DEF Types, ScanOwned, AskMatcher, Scanning, InScan, Passed, Matches
  <2> QED
    BY <2>1, <2>2
<1>3. CASE Preempted(r)
  <2>1. Types'
    BY <1>3 DEF Types, Preempted, Frame, bufVars, actVars
  <2>2. ScanOwned'
    BY Zenon, <1>3 DEF Types, ScanOwned, Preempted, InScan, Passed, Matches
  <2> QED
    BY <2>1, <2>2
<1>4. CASE Matched(r)
  <2>1. pos[r] \in 1 .. Len(vec)
    BY <1>4 DEF Matched, Types, ScanOwned
  <2>2. vec[pos[r]] \in Nat /\ vec' \in Seq(Nat)
    <3>1. vec \in Seq(Nat) /\ vec' = Without(vec, pos[r])
      BY Zenon, <1>4 DEF Matched, Types
    <3>2. Without(vec, pos[r]) \in Seq(Nat)
      BY Zenon, <2>1, <3>1, WithoutForm
    <3> QED
      BY <2>1, <3>1, <3>2
  <2>3. Types'
    BY <1>4, <2>2 DEF Types, Matched, Frame, bufVars, actVars
  <2>4. \A q \in Receivers : ~InScan(q)' /\ (pos[q] = 1)' /\ (rpc[q] # "match")'
    BY <1>0, <1>4 DEF Types, ScanOwned, Matched, InScan
  <2>5. ScanOwned'
    BY <2>4 DEF ScanOwned, Passed
  <2> QED
    BY <2>3, <2>5
<1>5. CASE Unmatched(r)
  <2>1. Types'
    BY <1>5 DEF Types, Unmatched, Frame, bufVars, actVars
  <2>2. ASSUME NEW q \in Receivers, q # r
        PROVE  rpc'[q] = rpc[q] /\ pos'[q] = pos[q]
    BY <1>5, <2>2 DEF Types, Unmatched
  <2>3. rpc'[r] = "scan" /\ pos'[r] = pos[r] + 1 /\ mutex = r
    BY <1>5 DEF Types, ScanOwned, InScan, Unmatched
  <2>4. vec' = vec /\ mutex' = mutex
    BY <1>5 DEF Unmatched
  <2>5. Passed(r)'
    <3> SUFFICES ASSUME NEW j \in 1 .. Len(vec), j < pos[r] + 1
                 PROVE  ~Matches(r, vec[j])
      BY <2>3, <2>4 DEF Passed, Matches
    <3>1. CASE j < pos[r]
      BY <3>1 DEF ScanOwned, Passed
    <3>2. CASE j = pos[r]
      BY <1>5, <3>2 DEF Unmatched
    <3>3. pos[r] \in Nat
      BY DEF Types
    <3> QED
      BY <3>1, <3>2, <3>3
  <2>6. ScanOwned'
    BY <2>2, <2>3, <2>4, <2>5 DEF ScanOwned, InScan, Passed, Matches
  <2> QED
    BY <2>1, <2>6
<1>6. CASE NoneMatched(r)
  <2>1. Types'
    BY <1>6 DEF Types, NoneMatched, Frame, bufVars, actVars
  <2>2. \A q \in Receivers : ~InScan(q)' /\ (pos[q] = 1)' /\ (rpc[q] # "match")'
    BY <1>0, <1>6 DEF Types, ScanOwned, NoneMatched, InScan
  <2>3. ScanOwned'
    BY <2>2 DEF ScanOwned, Passed
  <2> QED
    BY <2>1, <2>3
<1>7. CASE Convert(r)
  <2>1. Types'
    BY <1>7 DEF Types, Convert, Settle, Frame, bufVars, actVars
  <2>2. ScanOwned'
    BY Zenon, <1>7 DEF Types, ScanOwned, Convert, Settle, InScan, Passed, Matches
  <2> QED
    BY <2>1, <2>2
<1>8. CASE Wake(r)
  <2>1. Types'
    BY <1>8 DEF Types, Wake, Frame, bufVars, actVars
  <2>2. ScanOwned'
    BY <1>8 DEF Types, ScanOwned, Wake, InScan, Passed, Matches
  <2> QED
    BY <2>1, <2>2
<1>9. CASE GiveUp(r)
  <2>1. Types'
    BY <1>9 DEF Types, GiveUp, Settle, Frame, bufVars, actVars
  <2>2. ScanOwned'
    BY <1>9 DEF Types, ScanOwned, GiveUp, Settle, InScan, Passed, Matches
  <2> QED
    BY <2>1, <2>2
<1> QED
  BY <1>1, <1>2, <1>3, <1>4, <1>5, <1>6, <1>7, <1>8, <1>9 DEF ReceiverStep, Decide

(* Python's threads and the actor's loop, before its push. *)
LEMMA OthersKeep ==
  ASSUME ScanInv, PythonStep \/ RecvStep
  PROVE  ScanInv'
<1> USE DEF ScanInv
<1>1. ASSUME NEW t \in Threads, TakeGil(t) \/ DropGil(t) \/ GetMessages(t) \/ CopyVec(t)
      PROVE  ScanInv'
  BY Zenon, <1>1, ScanUntouched
  DEF Types, TakeGil, DropGil, GetMessages, CopyVec, bufVars, actVars, recVars
<1>2. CASE AllocateBuffer
  BY <1>2, ScanUntouched DEF Types, AllocateBuffer, actVars, recVars
<1>3. CASE StopActor
  BY <1>3, ScanUntouched DEF Types, StopActor, bufVars, recVars
<1>4. ASSUME NEW i \in Ids, DropCapsule(i)
      PROVE  ScanInv'
  BY Zenon, <1>4, ScanUntouched DEF Types, DropCapsule, actVars, recVars
<1>5. ASSUME NEW i \in Ids, SendBuffer(i)
      PROVE  ScanInv'
  <2>1. queue' = queue \/ queue' = Append(queue, i)
    BY <1>5 DEF SendBuffer
  <2>2. i \in Nat
    BY <1>5 DEF Types, SendBuffer
  <2>3. queue \in Seq(Nat)
    BY DEF Types
  <2>4. Append(queue, i) \in Seq(Nat)
    BY Zenon, <2>2, <2>3, AppendForm
  <2>5. queue' \in Seq(Nat)
    BY Zenon, <2>1, <2>3, <2>4
  <2> QED
    BY <1>5, <2>5, ScanUntouched DEF Types, SendBuffer, recVars
<1>6. ASSUME NEW r \in Receivers, CancelFuture(r)
      PROVE  ScanInv'
  BY <1>6, ScanUntouched DEF Types, CancelFuture, bufVars, actVars
<1>7. ASSUME NEW r \in Receivers, Receive(r)
      PROVE  ScanInv'
  <2>1. Types'
    BY <1>7 DEF Types, Receive, bufVars, actVars
  <2>2. ScanOwned'
    BY <1>7 DEF Types, ScanOwned, Receive, InScan, Passed, Matches
  <2> QED
    BY <2>1, <2>2
<1>8. CASE RecvMessage
  <2>1. hand' \in Nat /\ queue' \in Seq(Nat)
    BY <1>8, TailForm DEF Types, RecvMessage
  <2> QED
    BY <1>8, <2>1, ScanUntouched DEF Types, RecvMessage, bufVars, recVars
<1>9. CASE PollSys
  BY <1>9, ScanUntouched DEF Types, PollSys, bufVars, recVars
<1>10. CASE LoopEnds
  <2>1. queue' \in Seq(Nat)
    BY <1>10 DEF LoopEnds
  <2> QED
    BY <1>10, <2>1, ScanUntouched DEF Types, LoopEnds, bufVars, recVars
<1> QED
  BY Zenon, <1>1, <1>2, <1>3, <1>4, <1>5, <1>6, <1>7, <1>8, <1>9, <1>10 DEF PythonStep, RecvStep

LEMMA ScanInit == Init => ScanInv
<1> SUFFICES ASSUME Init PROVE ScanInv
  OBVIOUS
<1> PICK s \in Scenes : Init!(s)
  BY DEF Init
<1>1. s.freed \in Nat /\ s.observed \in Seq(Nat)
  BY ObservedAssumption
<1>2. Types
  <2>1. next \in Nat
    BY <1>1
  <2>2. queue \in Seq(Nat)
    OBVIOUS
  <2> QED
    BY <1>1, <2>1, <2>2 DEF Types
<1>3. ScanOwned
  BY <1>1 DEF ScanOwned, InScan, Passed
<1> QED
  BY <1>2, <1>3 DEF ScanInv

LEMMA ScanStep == ScanInv /\ [Next]_vars => ScanInv'
<1> SUFFICES ASSUME ScanInv, [Next]_vars PROVE ScanInv'
  OBVIOUS
<1>1. CASE PythonStep \/ RecvStep
  BY <1>1, OthersKeep
<1>2. CASE Push
  BY <1>2, PushKeeps
<1>3. ASSUME NEW r \in Receivers, ReceiverStep(r)
      PROVE  ScanInv'
  BY <1>3, ReceiverKeeps
<1>4. CASE UNCHANGED vars
  BY <1>4, ScanUntouched DEF ScanInv, Types, vars, bufVars, actVars, recVars
<1> QED
  BY <1>1, <1>2, <1>3, <1>4 DEF Next

(* Only a match gives a receiver a message. *)
LEMMA OnlyMatchTakes ==
  ASSUME ScanInv, [Next]_vars, NEW r \in Receivers, taken'[r] # 0, taken[r] = 0
  PROVE  Matched(r)
<1> USE DEF ScanInv, Types
<1>1. taken' # taken
  OBVIOUS
<1>2. PICK q \in Receivers : ReceiverStep(q)
  BY <1>1 DEF Next, PythonStep, TakeGil, DropGil, GetMessages, CopyVec, AllocateBuffer, StopActor,
     DropCapsule, SendBuffer, CancelFuture, Receive, RecvStep, PollSys, RecvMessage, LoopEnds, Push,
     recVars, vars
<1>3. Matched(q) \/ Convert(q) \/ GiveUp(q)
  BY <1>1, <1>2 DEF ReceiverStep, TakeMutex, AskMatcher, Preempted, Decide, Unmatched,
     NoneMatched, Wake
<1>4. ~(Convert(q) \/ GiveUp(q))
  BY DEF Convert, GiveUp, Settle
<1>5. q = r
  BY <1>3, <1>4 DEF Matched
<1> QED
  BY <1>3, <1>4, <1>5

(* A receiver that takes a message from the vector of an observed actor    *)
(* takes the oldest that its matcher accepts (lib.rs:650), whatever other  *)
(* receivers, pushes and cancellations come between two calls of the       *)
(* matcher.                                                                *)
THEOREM TakesOldest == Spec => OldestMatch
<1>1. ScanInv /\ [Next]_vars =>
        [\A r \in Receivers :
           taken'[r] # 0 /\ taken[r] = 0 =>
             \A k \in DOMAIN vec : Matches(r, vec[k]) =>
               \E j \in 1 .. k : vec[j] = taken'[r]]_vars
  <2> SUFFICES ASSUME ScanInv, [Next]_vars, NEW r \in Receivers, taken'[r] # 0, taken[r] = 0,
                      NEW k \in DOMAIN vec, Matches(r, vec[k])
               PROVE  \E j \in 1 .. k : vec[j] = taken'[r]
    OBVIOUS
  <2>1. Matched(r)
    BY OnlyMatchTakes
  <2>2. taken'[r] = vec[pos[r]]
    BY <2>1 DEF Matched, ScanInv, Types
  <2>3. k \in 1 .. Len(vec) /\ pos[r] \in Nat \ {0}
    BY DEF ScanInv, Types
  <2>4. pos[r] \in 1 .. k
    BY <2>3 DEF ScanInv, ScanOwned, Passed
  <2> QED
    BY <2>2, <2>4
<1> QED
  BY <1>1, ScanInit, ScanStep, PTL DEF Spec, OldestMatch
-----------------------------------------------------------------------------
(* What a stop can cost.  The loop ends after the stop and leaves nothing  *)
(* behind in the mailbox; until the stop nothing is refused or dropped.    *)

Lost == {"refused", "dropped"}

StopInv ==
  /\ loop \in {"sys", "user", "over"}
  /\ loop = "user" => hand = 0
  /\ loop = "over" => ~open /\ queue = << >> /\ hand = 0
  /\ open => \A i \in Ids : gone[i] \notin Lost

LEMMA StopUntouched ==
  ASSUME StopInv, UNCHANGED <<open, queue, loop, hand>>,
         gone' = gone \/ \E i, g : gone' = [gone EXCEPT ![i] = g] /\ g \notin Lost
  PROVE  StopInv'
<1>1. ASSUME open' PROVE \A i \in Ids : gone'[i] \notin Lost
  <2>1. \A i \in Ids : gone[i] \notin Lost
    BY <1>1 DEF StopInv
  <2>2. CASE gone' = gone
    BY <2>1, <2>2
  <2>3. ASSUME NEW i, NEW g, gone' = [gone EXCEPT ![i] = g], g \notin Lost
        PROVE  \A j \in Ids : gone'[j] \notin Lost
    BY <2>1, <2>3
  <2> QED
    BY Zenon, <2>2, <2>3
<1> QED
  BY <1>1 DEF StopInv

LEMMA StopInit == Init => StopInv
BY DEF Init, StopInv, Lost

LEMMA StopStep == StopInv /\ [Next]_vars => StopInv'
<1> SUFFICES ASSUME StopInv, [Next]_vars PROVE StopInv'
  OBVIOUS
<1>1. ASSUME NEW t \in Threads, TakeGil(t) \/ DropGil(t) \/ GetMessages(t) \/ CopyVec(t)
      PROVE  StopInv'
  BY Zenon, <1>1, StopUntouched DEF TakeGil, DropGil, GetMessages, CopyVec, actVars
<1>2. CASE AllocateBuffer
  BY Zenon, <1>2, StopUntouched DEF AllocateBuffer, actVars
<1>3. CASE StopActor
  BY <1>3 DEF StopActor, StopInv
<1>4. ASSUME NEW i \in Ids, DropCapsule(i)
      PROVE  StopInv'
  <2>1. "freed" \notin Lost
    BY DEF Lost
  <2> QED
    BY Zenon, <1>4, <2>1, StopUntouched DEF DropCapsule, actVars
<1>5. ASSUME NEW i \in Ids, SendBuffer(i)
      PROVE  StopInv'
  BY <1>5 DEF SendBuffer, StopInv
<1>6. ASSUME NEW r \in Receivers, CancelFuture(r) \/ Receive(r)
      PROVE  StopInv'
  BY Zenon, <1>6, StopUntouched DEF CancelFuture, Receive, actVars
<1>7. CASE PollSys
  BY <1>7 DEF PollSys, AtRecv, StopInv
<1>8. CASE RecvMessage
  BY <1>8 DEF RecvMessage, StopInv
<1>9. CASE LoopEnds
  BY <1>9 DEF LoopEnds, AtRecv, StopInv
<1>10. CASE Push
  BY <1>10 DEF Push, StopInv
<1>11. ASSUME NEW r \in Receivers, Convert(r)
       PROVE  StopInv'
  <2>1. "cancelled" \notin Lost /\ "returned" \notin Lost
    BY DEF Lost
  <2>2. (IF cancelled[r] THEN "cancelled" ELSE "returned") \notin Lost
    BY Zenon, <2>1
  <2> QED
    BY Zenon, <1>11, <2>2, StopUntouched DEF Convert, Frame, actVars
<1>12. ASSUME NEW r \in Receivers, ReceiverStep(r), ~Convert(r)
       PROVE  StopInv'
  BY Zenon, <1>12, StopUntouched
  DEF ReceiverStep, TakeMutex, AskMatcher, Preempted, Decide, Matched, Unmatched, NoneMatched,
      Wake, GiveUp, Frame, actVars
<1>13. CASE UNCHANGED vars
  BY Zenon, <1>13, StopUntouched DEF vars, actVars
<1>14. CASE PythonStep
  BY Zenon, <1>1, <1>2, <1>3, <1>4, <1>5, <1>6, <1>14 DEF PythonStep
<1> QED
  BY Zenon, <1>7, <1>8, <1>9, <1>10, <1>11, <1>12, <1>13, <1>14 DEF Next, RecvStep
-----------------------------------------------------------------------------
(* Where a buffer is.  Known are the ids that allocate_buffer has given    *)
(* out.  Each action that touches buffers moves one of them to another     *)
(* place and leaves the others where they are.                             *)

Places == {"registry", "queue", "hand", "vec", "taken", "gone"}

Once(q) == \A j, k \in 1 .. Len(q) : q[j] = q[k] => j = k

TakenBy(i) == \E r \in Receivers : taken[r] = i

In(x, i) ==
  \/ x = "registry" /\ i \in buffers
  \/ x = "queue" /\ Has(queue, i)
  \/ x = "hand" /\ hand = i
  \/ x = "vec" /\ Has(vec, i)
  \/ x = "taken" /\ TakenBy(i)
  \/ x = "gone" /\ gone[i] # "no"

Known == 1 .. next - 1

OnePlace(i) == \E x \in Places : \A y \in Places : In(y, i) <=> y = x

(* Nothing but known ids is anywhere, and each is there once. *)
KnownInv ==
  /\ next \in Nat \ {0} /\ Known \subseteq Ids
  /\ gone \in [Ids -> {"no", "freed", "refused", "dropped", "cancelled", "returned"}]
  /\ \A i \in Nat : i \in Ids /\ i >= next => gone[i] = "no"
  /\ buffers \subseteq Known
  /\ \A i \in Nat : Has(queue, i) => i \in Known
  /\ \A i \in Nat : Has(vec, i) => i \in Known
  /\ hand \in Known \cup {0}
  /\ \A r \in Receivers : taken[r] \in Known \cup {0}

(* A receiver has a message between its match and the conversion. *)
OnceInv ==
  /\ Once(queue) /\ Once(vec)
  /\ \A r \in Receivers : rpc[r] = "convert" <=> taken[r] # 0
  /\ \A r, q \in Receivers : taken[r] = taken[q] /\ taken[r] # 0 => r = q

PlaceInv ==
  KnownInv /\ OnceInv /\ buffers \subseteq capsules /\ \A i \in Known : OnePlace(i)

(* The buffer i is in the place x now, and the others are where they were. *)
Moves(i, x) ==
  \A j \in Known', y \in Places : In(y, j)' <=> IF j = i THEN y = x ELSE In(y, j)

(* What the vectors hold after a push, a pop and a removal. *)
LEMMA AppendHas ==
  ASSUME NEW q \in Seq(Nat), NEW i \in Nat
  PROVE  /\ \A j \in Nat : Has(Append(q, i), j) <=> Has(q, j) \/ j = i
         /\ Once(q) /\ ~Has(q, i) => Once(Append(q, i))
<1>1. /\ Len(Append(q, i)) = Len(q) + 1
      /\ \A k \in 1 .. Len(q) : Append(q, i)[k] = q[k]
      /\ Append(q, i)[Len(q) + 1] = i
  BY AppendForm
<1>2. Len(q) \in Nat
  OBVIOUS
<1> DEFINE t == Append(q, i)
<1> HIDE DEF t
<1>3. \A j \in Nat : Has(t, j) <=> Has(q, j) \/ j = i
  BY <1>1, <1>2 DEF Has, t
<1>4. Once(q) /\ ~Has(q, i) => Once(t)
  BY <1>1, <1>2 DEF Has, Once, t
<1> QED
  BY <1>3, <1>4 DEF t

LEMMA TailHas ==
  ASSUME NEW q \in Seq(Nat), q # << >>, Once(q)
  PROVE  /\ \A j \in Nat : Has(Tail(q), j) <=> Has(q, j) /\ j # Head(q)
         /\ Once(Tail(q)) /\ Head(q) \in Nat /\ Has(q, Head(q))
<1>1. /\ Len(q) \in Nat \ {0} /\ Len(Tail(q)) = Len(q) - 1
      /\ Head(q) = q[1] /\ q[1] \in Nat
      /\ \A k \in 1 .. Len(q) - 1 : Tail(q)[k] = q[k + 1]
  BY TailForm
<1> DEFINE t == Tail(q)
           h == Head(q)
<1> HIDE DEF t, h
<1>2. ASSUME NEW j \in Nat PROVE Has(t, j) <=> Has(q, j) /\ j # h
  <2>1. ASSUME NEW k \in 1 .. Len(t), t[k] = j PROVE Has(q, j) /\ j # h
    BY <1>1, <2>1 DEF Has, Once, t, h
  <2>2. ASSUME NEW k \in 1 .. Len(q), q[k] = j, j # h PROVE Has(t, j)
    <3>1. k - 1 \in 1 .. Len(t)
      BY <1>1, <2>2 DEF t, h
    <3>2. t[k - 1] = j
      BY <1>1, <2>2, <3>1 DEF t
    <3> QED
      BY <3>1, <3>2 DEF Has
  <2> QED
    BY <2>1, <2>2 DEF Has
<1>3. Once(t)
  BY <1>1 DEF Once, t
<1> QED
  BY <1>1, <1>2, <1>3 DEF Has, t, h

LEMMA WithoutHas ==
  ASSUME NEW q \in Seq(Nat), NEW k \in 1 .. Len(q), Once(q)
  PROVE  /\ \A j \in Nat : Has(Without(q, k), j) <=> Has(q, j) /\ j # q[k]
         /\ Once(Without(q, k))
<1> DEFINE t == Without(q, k)
<1>1. /\ Len(q) \in Nat /\ Len(t) = Len(q) - 1
      /\ \A n \in 1 .. Len(q) - 1 : n < k => t[n] = q[n]
      /\ \A n \in 1 .. Len(q) - 1 : n >= k => t[n] = q[n + 1]
  BY WithoutForm
<1> HIDE DEF t
<1>2. \A n \in 1 .. Len(t) : \E m \in 1 .. Len(q) : m # k /\ t[n] = q[m]
                                    /\ m = IF n < k THEN n ELSE n + 1
  BY <1>1
<1>3. \A m \in 1 .. Len(q) : m # k => \E n \in 1 .. Len(t) : t[n] = q[m]
  <2> SUFFICES ASSUME NEW m \in 1 .. Len(q), m # k
               PROVE  \E n \in 1 .. Len(t) : t[n] = q[m]
    BY Zenon
  <2>1. CASE m < k
    BY <1>1, <2>1
  <2>2. CASE m > k
    <3>1. m - 1 \in 1 .. Len(t) /\ t[m - 1] = q[m]
      BY <1>1, <2>2
    <3> QED
      BY Zenon, <3>1
  <2>3. m < k \/ m > k
    BY <1>1
  <2> QED
    BY Zenon, <2>1, <2>2, <2>3
<1>4. ASSUME NEW j \in Nat PROVE Has(t, j) <=> Has(q, j) /\ j # q[k]
  <2>1. Has(t, j) => Has(q, j) /\ j # q[k]
    BY Zenon, <1>2 DEF Has, Once
  <2>2. Has(q, j) /\ j # q[k] => Has(t, j)
    BY Zenon, <1>3 DEF Has
  <2> QED
    BY Zenon, <2>1, <2>2
<1>5. Once(t)
  <2> SUFFICES ASSUME NEW m \in 1 .. Len(t), NEW n \in 1 .. Len(t), t[m] = t[n]
               PROVE  m = n
    BY Zenon DEF Once
  <2>1. (IF m < k THEN m ELSE m + 1) = (IF n < k THEN n ELSE n + 1)
    BY Zenon, <1>2 DEF Once
  <2> QED
    BY <1>1, <2>1
<1> QED
  BY Zenon, <1>4, <1>5 DEF t

(* A buffer that moves is in one place, as the others are. *)
LEMMA MovedOnePlace ==
  ASSUME \A j \in Known : OnePlace(j), NEW i, NEW x \in Places, Moves(i, x),
         \A j \in Known' : j = i \/ j \in Known
  PROVE  (\A j \in Known : OnePlace(j))'
<1> SUFFICES ASSUME NEW j \in Known' PROVE OnePlace(j)'
  BY Zenon
<1>1. CASE j = i
  BY Zenon, <1>1 DEF OnePlace, Moves
<1>2. CASE j # i
  <2>1. OnePlace(j)
    BY Zenon, <1>2
  <2>2. \A y \in Places : In(y, j)' <=> In(y, j)
    BY Zenon, <1>2 DEF Moves
  <2> QED
    BY Zenon, <2>1, <2>2 DEF OnePlace
<1> QED
  BY Zenon, <1>1, <1>2

(* What is in one place is in no other. *)
LEMMA NowhereElse ==
  ASSUME PlaceInv, NEW i \in Known, NEW x \in Places, In(x, i),
         NEW y \in Places, y # x
  PROVE  ~In(y, i)
BY Zenon DEF PlaceInv, OnePlace

(* Steps that move nothing. *)
LEMMA PlacesUntouched ==
  ASSUME PlaceInv, UNCHANGED <<buffers, next, queue, hand, vec, taken, gone>>,
         buffers' \subseteq capsules',
         \A r \in Receivers : rpc'[r] = "convert" <=> rpc[r] = "convert"
  PROVE  PlaceInv'
<1>1. KnownInv'
  BY Zenon DEF PlaceInv, KnownInv, Known, Has
<1>2. OnceInv'
  BY Zenon DEF PlaceInv, OnceInv, Once
<1>3. (\A i \in Known : OnePlace(i))'
  <2>1. ASSUME NEW y \in Places, NEW i PROVE In(y, i)' <=> In(y, i)
    BY Zenon DEF In, Has, TakenBy
  <2>2. Known' = Known
    BY Zenon DEF Known
  <2> QED
    BY Zenon, <2>1, <2>2 DEF PlaceInv, OnePlace
<1> QED
  BY Zenon, <1>1, <1>2, <1>3 DEF PlaceInv

LEMMA AllocateMoves ==
  ASSUME Types, PlaceInv, AllocateBuffer
  PROVE  PlaceInv'
<1> USE DEF PlaceInv
<1>0. /\ UNCHANGED <<queue, hand, vec, taken, gone, rpc>>
      /\ buffers' = buffers \cup {next} /\ capsules' = capsules \cup {next}
      /\ next' = next + 1 /\ next \in Ids
  BY DEF AllocateBuffer, actVars, recVars
<1>1. next \in Nat \ {0} /\ Known' = Known \cup {next} /\ next \notin Known /\ 0 \notin Known
  BY <1>0 DEF KnownInv, Known
<1>2. KnownInv'
  BY <1>0, <1>1 DEF KnownInv, Has
<1>3. OnceInv'
  BY Zenon, <1>0 DEF OnceInv, Once
<1>4. \A y \in Places : In(y, next) => FALSE
  BY <1>0, <1>1 DEF KnownInv, In, TakenBy
<1>5. Moves(next, "registry")
  <2>1. ASSUME NEW j \in Known', NEW y \in Places
        PROVE  In(y, j)' <=> In(y, j) \/ (j = next /\ y = "registry")
    BY <1>0 DEF In, Has, TakenBy
  <2> QED
    BY <2>1, <1>4 DEF Moves
<1>6. (\A i \in Known : OnePlace(i))'
  BY <1>1, <1>5, MovedOnePlace DEF Places
<1> QED
  BY <1>0, <1>2, <1>3, <1>6

LEMMA FreeMoves ==
  ASSUME Types, PlaceInv, NEW i \in Ids, DropCapsule(i)
  PROVE  PlaceInv'
<1> USE DEF PlaceInv
<1>0. /\ UNCHANGED <<next, queue, hand, vec, taken, rpc>>
      /\ buffers' = buffers \ {i} /\ capsules' = capsules \ {i}
      /\ gone' = IF i \in buffers THEN [gone EXCEPT ![i] = "freed"] ELSE gone
  BY DEF DropCapsule, actVars, recVars
<1>1. buffers' \subseteq capsules'
  BY <1>0
<1>2. CASE i \notin buffers
  <2>1. buffers' = buffers /\ gone' = gone
    BY <1>0, <1>2
  <2> QED
    BY Zenon, <1>0, <1>1, <2>1, PlacesUntouched
<1>3. CASE i \in buffers
  <2>1. i \in Known /\ gone' = [gone EXCEPT ![i] = "freed"] /\ Known' = Known
    BY <1>0, <1>3 DEF KnownInv, Known
  <2>2. KnownInv'
    BY <1>0, <2>1 DEF KnownInv, Has, Known
  <2>3. OnceInv'
    BY Zenon, <1>0 DEF OnceInv, Once
  <2>4. \A y \in Places : y # "registry" => ~In(y, i)
    BY <1>3, <2>1, NowhereElse DEF In, Places
  <2>5. Moves(i, "gone")
    <3>1. ASSUME NEW j \in Known', NEW y \in Places
          PROVE  In(y, j)' <=> \/ In(y, j) /\ (j = i => y # "registry")
                               \/ j = i /\ y = "gone"
      BY <1>0, <2>1 DEF In, Has, TakenBy, KnownInv
    <3> QED
      BY <3>1, <2>4 DEF Moves
  <2>6. (\A j \in Known : OnePlace(j))'
    BY <2>1, <2>5, MovedOnePlace DEF Places
  <2> QED
    BY <1>1, <2>2, <2>3, <2>6
<1> QED
  BY <1>2, <1>3

LEMMA SendMoves ==
  ASSUME Types, PlaceInv, NEW i \in Ids, SendBuffer(i)
  PROVE  PlaceInv'
<1> USE DEF PlaceInv
<1>0. /\ UNCHANGED <<next, capsules, hand, vec, taken, rpc>>
      /\ i \in buffers /\ buffers' = buffers \ {i}
      /\ \/ queue' = Append(queue, i) /\ gone' = gone
         \/ gone' = [gone EXCEPT ![i] = "refused"] /\ queue' = queue
  BY DEF SendBuffer, recVars
<1>1. i \in Known /\ i \in Nat /\ Known' = Known
  BY <1>0 DEF KnownInv, Known
<1>2. \A y \in Places : y # "registry" => ~In(y, i)
  BY <1>0, <1>1, NowhereElse DEF In, Places
<1>3. CASE queue' = Append(queue, i) /\ gone' = gone
  <2>1. ~Has(queue, i)
    BY <1>2 DEF In, Places
  <2>2. Once(queue) => Once(queue')
    BY <1>1, <1>3, <2>1, AppendHas DEF Types
  <2>3. \A j \in Nat : Has(queue', j) <=> Has(queue, j) \/ j = i
    BY <1>1, <1>3, AppendHas DEF Types
  <2>4. KnownInv'
    BY <1>0, <1>1, <1>3, <2>3 DEF KnownInv, Has, Known
  <2>5. OnceInv'
    BY Zenon, <1>0, <2>2 DEF OnceInv, Once
  <2>6. Moves(i, "queue")
    <3>1. ASSUME NEW j \in Known', NEW y \in Places
          PROVE  In(y, j)' <=> \/ In(y, j) /\ (j = i => y # "registry")
                               \/ j = i /\ y = "queue"
      <4>1. j \in Nat
        BY <1>1 DEF KnownInv, Known
      <4>2. Has(queue', j) <=> Has(queue, j) \/ j = i
        BY <2>3, <4>1
      <4>3. Has(vec, j)' <=> Has(vec, j)
        BY <1>0 DEF Has
      <4> QED
        BY <1>0, <1>3, <4>2, <4>3 DEF In, TakenBy
    <3> QED
      BY <3>1, <1>2 DEF Moves
  <2>7. (\A j \in Known : OnePlace(j))'
    BY <1>1, <2>6, MovedOnePlace DEF Places
  <2> QED
    BY <1>0, <2>4, <2>5, <2>7
<1>4. CASE gone' = [gone EXCEPT ![i] = "refused"] /\ queue' = queue
  <2>1. KnownInv'
    BY <1>0, <1>1, <1>4 DEF KnownInv, Has, Known
  <2>2. OnceInv'
    BY Zenon, <1>0, <1>4 DEF OnceInv, Once
  <2>3. Moves(i, "gone")
    <3>1. ASSUME NEW j \in Known', NEW y \in Places
          PROVE  In(y, j)' <=> \/ In(y, j) /\ (j = i => y # "registry")
                               \/ j = i /\ y = "gone"
      BY <1>0, <1>1, <1>4 DEF In, Has, TakenBy, KnownInv
    <3> QED
      BY <3>1, <1>2 DEF Moves
  <2>4. (\A j \in Known : OnePlace(j))'
    BY <1>1, <2>3, MovedOnePlace DEF Places
  <2> QED
    BY <1>0, <2>1, <2>2, <2>4
<1> QED
  BY <1>0, <1>3, <1>4

LEMMA RecvMoves ==
  ASSUME Types, StopInv, PlaceInv, RecvMessage
  PROVE  PlaceInv'
<1> USE DEF PlaceInv
<1> DEFINE i == Head(queue)
<1>0. /\ UNCHANGED <<buffers, next, capsules, vec, taken, rpc, gone>>
      /\ hand = 0 /\ queue # << >> /\ hand' = i /\ queue' = Tail(queue)
  BY DEF RecvMessage, StopInv, bufVars, recVars
<1>1. /\ \A j \in Nat : Has(queue', j) <=> Has(queue, j) /\ j # i
      /\ Once(queue') /\ i \in Nat /\ Has(queue, i)
  BY <1>0, TailHas DEF Types, OnceInv
<1> HIDE DEF i
<1>2. i \in Known /\ Known' = Known /\ 0 \notin Known
  BY <1>0, <1>1 DEF KnownInv, Known
<1>3. \A y \in Places : y # "queue" => ~In(y, i)
  BY <1>1, <1>2, NowhereElse DEF In, Places
<1>4. KnownInv'
  BY <1>0, <1>1, <1>2 DEF KnownInv, Has, Known
<1>5. OnceInv'
  BY Zenon, <1>0, <1>1 DEF OnceInv, Once
<1>6. Moves(i, "hand")
  <2>1. ASSUME NEW j \in Known', NEW y \in Places
        PROVE  In(y, j)' <=> \/ In(y, j) /\ (j = i => y # "queue")
                             \/ j = i /\ y = "hand"
    <3>1. j \in Nat /\ j # 0
      BY <1>2 DEF KnownInv, Known
    <3>2. Has(queue', j) <=> Has(queue, j) /\ j # i
      BY <1>1, <3>1
    <3>3. Has(vec, j)' <=> Has(vec, j)
      BY <1>0 DEF Has
    <3> QED
      BY <1>0, <3>1, <3>2, <3>3 DEF In, TakenBy
  <2> QED
    BY <2>1, <1>3 DEF Moves
<1>7. (\A j \in Known : OnePlace(j))'
  BY <1>2, <1>6, MovedOnePlace DEF Places
<1> QED
  BY <1>0, <1>4, <1>5, <1>7

(* The end of the loop: what is queued is dropped, the rest stays. *)
LEMMA EndMoves ==
  ASSUME Types, PlaceInv, LoopEnds
  PROVE  PlaceInv'
<1> USE DEF PlaceInv
<1>0. /\ UNCHANGED <<buffers, next, capsules, hand, vec, taken, rpc>>
      /\ gone' = [i \in Ids |-> IF Has(queue, i) THEN "dropped" ELSE gone[i]]
      /\ queue' = << >>
  BY DEF LoopEnds, bufVars, recVars
<1>1. \A j : ~Has(queue', j)
  BY <1>0 DEF Has
<1>2. Known' = Known /\ Known \subseteq Ids
  BY <1>0 DEF KnownInv, Known
<1>3. \A j \in Ids : gone'[j] = IF Has(queue, j) THEN "dropped" ELSE gone[j]
  BY Zenon, <1>0
<1>4. KnownInv'
  <2>1. gone' \in [Ids -> {"no", "freed", "refused", "dropped", "cancelled", "returned"}]
    BY <1>0 DEF KnownInv
  <2>2. \A i \in Nat : i \in Ids /\ i >= next => gone'[i] = "no"
    <3> SUFFICES ASSUME NEW i \in Nat, i \in Ids, i >= next PROVE gone'[i] = "no"
      OBVIOUS
    <3>1. i \notin Known
      BY DEF KnownInv, Known
    <3> QED
      BY <1>3, <3>1 DEF KnownInv
  <2>3. /\ buffers' \subseteq Known' /\ hand' \in Known' \cup {0}
        /\ \A r \in Receivers : taken'[r] \in Known' \cup {0}
    BY Zenon, <1>0, <1>2 DEF KnownInv
  <2>4. \A i \in Nat : Has(vec', i) => i \in Known'
    BY Zenon, <1>0, <1>2 DEF KnownInv
  <2> QED
    BY <1>0, <1>1, <1>2, <2>1, <2>2, <2>3, <2>4 DEF KnownInv
<1>5. OnceInv'
  <2>1. Once(queue')
    BY <1>0 DEF Once
  <2> QED
    BY Zenon, <1>0, <2>1 DEF OnceInv, Once
<1>6. ASSUME NEW j \in Known PROVE OnePlace(j)'
  <2>1. CASE Has(queue, j)
    <3>1. gone'[j] # "no"
      BY <1>2, <1>3, <2>1
    <3>2. \A y \in Places : y # "queue" => ~In(y, j)
      BY <2>1, NowhereElse DEF In, Places
    <3>3. \A y \in Places : In(y, j)' <=> y = "gone"
      BY <1>0, <1>1, <3>1, <3>2 DEF In, Has, TakenBy, Places
    <3> QED
      BY Zenon, <3>3 DEF OnePlace, Places
  <2>2. CASE ~Has(queue, j)
    <3>1. gone'[j] = gone[j]
      BY Zenon, <1>2, <1>3, <2>2
    <3>2. ASSUME NEW y \in Places PROVE In(y, j)' <=> In(y, j)
      <4>1. (Has(vec, j)' <=> Has(vec, j)) /\ (TakenBy(j)' <=> TakenBy(j))
        BY Zenon, <1>0 DEF Has, TakenBy
      <4> QED
        BY <1>0, <1>1, <2>2, <3>1, <4>1 DEF In
    <3> QED
      BY Zenon, <3>2 DEF OnePlace
  <2> QED
    BY Zenon, <2>1, <2>2
<1> QED
  BY Zenon, <1>0, <1>2, <1>4, <1>5, <1>6

LEMMA PushMoves ==
  ASSUME Types, PlaceInv, Push
  PROVE  PlaceInv'
<1> USE DEF PlaceInv
<1>0. /\ UNCHANGED <<buffers, next, capsules, queue, taken, rpc, gone>>
      /\ hand # 0 /\ hand' = 0 /\ vec' = Append(vec, hand)
  BY DEF Push, bufVars, recVars
<1>1. hand \in Known /\ hand \in Nat /\ Known' = Known /\ 0 \notin Known
  BY <1>0 DEF KnownInv, Known
<1>2. \A y \in Places : y # "hand" => ~In(y, hand)
  BY <1>1, NowhereElse DEF In, Places
<1>3. ~Has(vec, hand)
  BY <1>2 DEF In, Places
<1>4. /\ \A j \in Nat : Has(vec', j) <=> Has(vec, j) \/ j = hand
      /\ Once(vec')
  BY <1>0, <1>1, <1>3, AppendHas DEF Types, OnceInv
<1>5. KnownInv'
  BY <1>0, <1>1, <1>4 DEF KnownInv, Has, Known
<1>6. OnceInv'
  BY Zenon, <1>0, <1>4 DEF OnceInv, Once
<1>7. Moves(hand, "vec")
  <2>1. ASSUME NEW j \in Known', NEW y \in Places
        PROVE  In(y, j)' <=> \/ In(y, j) /\ (j = hand => y # "hand")
                             \/ j = hand /\ y = "vec"
    <3>1. j \in Nat /\ j # 0
      BY <1>1 DEF KnownInv, Known
    <3>2. Has(vec', j) <=> Has(vec, j) \/ j = hand
      BY <1>4, <3>1
    <3>3. Has(queue, j)' <=> Has(queue, j)
      BY <1>0 DEF Has
    <3> QED
      BY <1>0, <3>1, <3>2, <3>3 DEF In, TakenBy
  <2> QED
    BY <2>1, <1>2 DEF Moves
<1>8. (\A j \in Known : OnePlace(j))'
  BY <1>1, <1>7, MovedOnePlace DEF Places
<1> QED
  BY <1>0, <1>5, <1>6, <1>8

LEMMA MatchMoves ==
  ASSUME ScanInv, PlaceInv, NEW r \in Receivers, Matched(r)
  PROVE  PlaceInv'
<1> USE DEF PlaceInv
<1> DEFINE i == vec[pos[r]]
<1>0. /\ UNCHANGED <<buffers, next, capsules, queue, hand, gone>>
      /\ rpc[r] = "match" /\ rpc' = [rpc EXCEPT ![r] = "convert"]
      /\ taken' = [taken EXCEPT ![r] = i] /\ vec' = Without(vec, pos[r])
  BY DEF Matched, Frame, bufVars, actVars
<1>1. pos[r] \in 1 .. Len(vec) /\ i \in Nat /\ Has(vec, i)
  BY <1>0 DEF ScanInv, Types, ScanOwned, Has
<1>2. /\ \A j \in Nat : Has(vec', j) <=> Has(vec, j) /\ j # i
      /\ Once(vec')
  BY <1>0, <1>1, WithoutHas DEF ScanInv, Types, OnceInv
<1> HIDE DEF i
<1>3. i \in Known /\ Known' = Known /\ 0 \notin Known
  BY <1>0, <1>1 DEF KnownInv, Known
<1>4. \A y \in Places : y # "vec" => ~In(y, i)
  <2>1. In("vec", i) /\ "vec" \in Places
    BY Zenon, <1>1 DEF In, Places
  <2> QED
    BY Zenon, <1>3, <2>1, NowhereElse
<1>5. ~TakenBy(i) /\ taken[r] = 0
  BY <1>0, <1>4 DEF In, Places, OnceInv
<1>6. \A q \in Receivers : taken'[q] = IF q = r THEN i ELSE taken[q]
  BY <1>0 DEF ScanInv, Types
<1>7. \A q \in Receivers : rpc'[q] = IF q = r THEN "convert" ELSE rpc[q]
  BY <1>0 DEF ScanInv, Types
<1>8. KnownInv'
  BY <1>0, <1>2, <1>3, <1>6 DEF KnownInv, Has, Known
<1>9. OnceInv'
  <2>1. Once(queue')
    BY Zenon, <1>0 DEF OnceInv, Once
  <2>2. \A q \in Receivers : rpc'[q] = "convert" <=> taken'[q] # 0
    BY <1>3, <1>6, <1>7 DEF OnceInv
  <2>3. \A p, q \in Receivers : taken'[p] = taken'[q] /\ taken'[p] # 0 => p = q
    BY <1>5, <1>6 DEF OnceInv, TakenBy
  <2> QED
    BY Zenon, <1>2, <2>1, <2>2, <2>3 DEF OnceInv
<1>10. Moves(i, "taken")
  <2>1. ASSUME NEW j \in Known', NEW y \in Places
        PROVE  In(y, j)' <=> \/ In(y, j) /\ (j = i => y # "vec")
                             \/ j = i /\ y = "taken"
    <3>1. j \in Nat /\ j # 0
      BY <1>3 DEF KnownInv, Known
    <3>2. Has(vec', j) <=> Has(vec, j) /\ j # i
      BY <1>2, <3>1
    <3>3. Has(queue, j)' <=> Has(queue, j)
      BY <1>0 DEF Has
    <3>4. TakenBy(j)' <=> TakenBy(j) \/ j = i
      BY <1>5, <1>6, <3>1 DEF TakenBy
    <3> QED
      BY <1>0, <3>2, <3>3, <3>4 DEF In
  <2> QED
    BY <2>1, <1>4 DEF Moves
<1>11. (\A j \in Known : OnePlace(j))'
  BY <1>3, <1>10, MovedOnePlace DEF Places
<1> QED
  BY <1>0, <1>8, <1>9, <1>11

LEMMA ConvertMoves ==
  ASSUME Types, PlaceInv, NEW r \in Receivers, Convert(r)
  PROVE  PlaceInv'
<1> USE DEF PlaceInv
<1> DEFINE i == taken[r]
           g == IF cancelled[r] THEN "cancelled" ELSE "returned"
<1>0. /\ UNCHANGED <<buffers, next, capsules, queue, hand, vec>>
      /\ rpc[r] = "convert" /\ rpc' = [rpc EXCEPT ![r] = "done"]
      /\ taken' = [taken EXCEPT ![r] = 0] /\ gone' = [gone EXCEPT ![i] = g]
  BY DEF Convert, Settle, Frame, bufVars, actVars
<1>1. i # 0 /\ TakenBy(i) /\ g \in {"cancelled", "returned"}
  BY <1>0 DEF OnceInv, TakenBy
<1>2. /\ \A q \in Receivers : taken'[q] = IF q = r THEN 0 ELSE taken[q]
      /\ \A q \in Receivers : rpc'[q] = IF q = r THEN "done" ELSE rpc[q]
  BY <1>0 DEF Types
<1>3. \A q \in Receivers : q # r => taken[q] # i
  BY <1>1 DEF OnceInv
<1> HIDE DEF g
<1>4. i \in Known /\ Known' = Known /\ 0 \notin Known
  BY <1>0, <1>1 DEF KnownInv, Known
<1> HIDE DEF i
<1>5. \A y \in Places : y # "taken" => ~In(y, i)
  BY <1>1, <1>4, NowhereElse DEF In, Places
<1>6. KnownInv'
  BY <1>0, <1>1, <1>2, <1>4 DEF KnownInv, Has, Known
<1>7. OnceInv'
  <2>1. Once(queue') /\ Once(vec')
    BY Zenon, <1>0 DEF OnceInv, Once
  <2>2. \A q \in Receivers : rpc'[q] = "convert" <=> taken'[q] # 0
    BY <1>2 DEF OnceInv
  <2>3. \A p, q \in Receivers : taken'[p] = taken'[q] /\ taken'[p] # 0 => p = q
    BY <1>2 DEF OnceInv
  <2> QED
    BY Zenon, <2>1, <2>2, <2>3 DEF OnceInv
<1>8. Moves(i, "gone")
  <2>1. ASSUME NEW j \in Known', NEW y \in Places
        PROVE  In(y, j)' <=> \/ In(y, j) /\ (j = i => y # "taken")
                             \/ j = i /\ y = "gone"
    <3>1. j \in Nat /\ j # 0
      BY <1>4 DEF KnownInv, Known
    <3>2. (Has(queue, j)' <=> Has(queue, j)) /\ (Has(vec, j)' <=> Has(vec, j))
      BY <1>0 DEF Has
    <3>3. TakenBy(j)' <=> TakenBy(j) /\ j # i
      BY <1>2, <1>3, <3>1 DEF TakenBy, i
    <3>4. (gone'[j] # "no") <=> (gone[j] # "no" \/ j = i)
      BY <1>0, <1>1, <1>4 DEF KnownInv
    <3> QED
      BY <1>0, <3>2, <3>3, <3>4 DEF In
  <2> QED
    BY <2>1, <1>5 DEF Moves
<1>9. (\A j \in Known : OnePlace(j))'
  BY <1>4, <1>8, MovedOnePlace DEF Places
<1> QED
  BY <1>0, <1>6, <1>7, <1>9

-----------------------------------------------------------------------------
INSTANCE FiniteSetTheorems

(* n numbers that are all those of an interval of length n are distinct. *)
LEMMA AllThereOnce ==
  ASSUME NEW v \in Seq(Nat), NEW f \in Nat, NEW n \in Nat, Len(v) = n,
         {v[k] : k \in 1 .. n} = f + 1 .. f + n
  PROVE  Once(v)
<1>1. v \in Surjection(1 .. n, f + 1 .. f + n)
  <2>1. v \in [1 .. n -> f + 1 .. f + n]
    OBVIOUS
  <2>2. \A i \in f + 1 .. f + n : \E k \in 1 .. n : v[k] = i
    OBVIOUS
  <2> QED
    BY Zenon, <2>1, <2>2 DEF Surjection
<1>2. IsFiniteSet(1 .. n) /\ Cardinality(1 .. n) = n
  BY FS_Interval
<1>3. Cardinality(f + 1 .. f + n) = n
  <2>1. \A a, b \in Int : Cardinality(a .. b) = IF a > b THEN 0 ELSE b - a + 1
    BY Zenon, FS_Interval
  <2>2. Cardinality(f + 1 .. f + n) = IF f + 1 > f + n THEN 0 ELSE f + n - (f + 1) + 1
    BY <2>1
  <2> QED
    BY <2>2
<1>4. v \in Injection(1 .. n, f + 1 .. f + n)
  BY <1>1, <1>2, <1>3, FS_SurjSameCardinalityImpliesInj
<1> QED
  BY <1>4 DEF Injection, IsInjective, Once

LEMMA PlaceInit == Init => PlaceInv
<1> SUFFICES ASSUME Init PROVE PlaceInv
  OBVIOUS
<1> PICK s \in Scenes : Init!(s)
  BY DEF Init
<1> DEFINE n == Len(s.observed)
           f == s.freed
<1>1. /\ f \in Nat /\ n \in Nat /\ vec \in Seq(Nat) /\ Len(vec) = n
      /\ 1 .. f + n \subseteq Ids
      /\ {vec[k] : k \in 1 .. n} = f + 1 .. f + n
  BY ObservedAssumption
<1>2. /\ next = f + n + 1 /\ buffers = {} /\ queue = << >> /\ hand = 0
      /\ \A r \in Receivers : taken[r] = 0 /\ rpc[r] \in {"idle", "done"}
      /\ gone = [i \in Ids |-> IF i <= f THEN "freed" ELSE "no"]
  OBVIOUS
<1> HIDE DEF n, f
<1>3. \A i \in Nat : Has(vec, i) <=> i \in f + 1 .. f + n
  BY Zenon, <1>1 DEF Has
<1>4. \A i \in Nat : ~Has(queue, i)
  BY <1>2 DEF Has
<1>5. Known = 1 .. f + n
  BY <1>1, <1>2 DEF Known
<1>6. KnownInv
  BY <1>1, <1>2, <1>3, <1>4, <1>5 DEF KnownInv
<1>7. Once(vec)
  BY Zenon, <1>1, AllThereOnce
<1>8. OnceInv
  BY <1>2, <1>7 DEF OnceInv, Once
<1>9. ASSUME NEW i \in Known PROVE OnePlace(i)
  <2>1. /\ i \in Nat /\ i # 0 /\ i \in Ids
        /\ (i <= f => i \notin f + 1 .. f + n)
        /\ (~(i <= f) => i \in f + 1 .. f + n)
    BY <1>1, <1>5
  <2>2. CASE i <= f
    <3>1. \A y \in Places : In(y, i) <=> y = "gone"
      BY <1>2, <1>3, <1>4, <2>1, <2>2 DEF In, Places, TakenBy
    <3> QED
      BY <3>1 DEF OnePlace, Places
  <2>3. CASE ~(i <= f)
    <3>1. \A y \in Places : In(y, i) <=> y = "vec"
      BY <1>2, <1>3, <1>4, <2>1, <2>3 DEF In, Places, TakenBy
    <3> QED
      BY <3>1 DEF OnePlace, Places
  <2> QED
    BY <2>2, <2>3
<1> QED
  BY <1>2, <1>6, <1>8, <1>9 DEF PlaceInv

LEMMA PlaceStep == ScanInv /\ StopInv /\ PlaceInv /\ [Next]_vars => PlaceInv'
<1> SUFFICES ASSUME ScanInv, StopInv, PlaceInv, [Next]_vars PROVE PlaceInv'
  OBVIOUS
<1>0. Types /\ buffers \subseteq capsules
  BY Zenon DEF ScanInv, PlaceInv
<1>1. ASSUME NEW t \in Threads, TakeGil(t) \/ DropGil(t) \/ GetMessages(t) \/ CopyVec(t)
      PROVE  PlaceInv'
  BY Zenon, <1>0, <1>1, PlacesUntouched
  DEF TakeGil, DropGil, GetMessages, CopyVec, bufVars, actVars, recVars
<1>2. CASE StopActor \/ PollSys
  BY Zenon, <1>0, <1>2, PlacesUntouched DEF StopActor, PollSys, bufVars, recVars
<1>3. ASSUME NEW r \in Receivers, CancelFuture(r) PROVE PlaceInv'
  BY Zenon, <1>0, <1>3, PlacesUntouched DEF CancelFuture, bufVars, actVars
<1>4. ASSUME NEW r \in Receivers, NEW a, NEW b, rpc[r] = a, rpc' = [rpc EXCEPT ![r] = b],
             a # "convert", b # "convert",
             UNCHANGED <<buffers, next, capsules, queue, hand, vec, taken, gone>>
      PROVE  PlaceInv'
  <2>1. \A q \in Receivers : rpc'[q] = "convert" <=> rpc[q] = "convert"
    BY <1>0, <1>4 DEF Types
  <2> QED
    BY Zenon, <1>0, <1>4, <2>1, PlacesUntouched
<1>5. ASSUME NEW r \in Receivers, Receive(r) PROVE PlaceInv'
  BY Zenon, <1>4, <1>5 DEF Receive, bufVars, actVars
<1>6. ASSUME NEW r \in Receivers, TakeMutex(r) \/ AskMatcher(r) \/ Preempted(r)
      PROVE  PlaceInv'
  BY Zenon, <1>4, <1>6 DEF TakeMutex, AskMatcher, Scanning, Preempted, Frame, bufVars, actVars
<1>7. ASSUME NEW r \in Receivers, Unmatched(r) \/ NoneMatched(r) \/ Wake(r)
      PROVE  PlaceInv'
  BY Zenon, <1>4, <1>7 DEF Unmatched, NoneMatched, Wake, Frame, bufVars, actVars
<1>8. ASSUME NEW r \in Receivers, GiveUp(r) PROVE PlaceInv'
  <2>1. taken[r] = 0
    BY <1>8 DEF GiveUp, PlaceInv, OnceInv
  <2>2. taken' = taken
    BY <1>0, <1>8, <2>1 DEF GiveUp, Settle, Types
  <2> QED
    BY Zenon, <1>4, <1>8, <2>2 DEF GiveUp, Settle, Frame, bufVars, actVars
<1>9. CASE UNCHANGED vars
  BY Zenon, <1>0, <1>9, PlacesUntouched DEF vars, bufVars, actVars, recVars
<1>10. CASE AllocateBuffer
  BY Zenon, <1>0, <1>10, AllocateMoves
<1>11. ASSUME NEW i \in Ids, DropCapsule(i) PROVE PlaceInv'
  BY Zenon, <1>0, <1>11, FreeMoves
<1>12. ASSUME NEW i \in Ids, SendBuffer(i) PROVE PlaceInv'
  BY Zenon, <1>0, <1>12, SendMoves
<1>13. CASE RecvMessage
  BY Zenon, <1>0, <1>13, RecvMoves
<1>14. CASE Push
  BY Zenon, <1>0, <1>14, PushMoves
<1>15. ASSUME NEW r \in Receivers, Matched(r) PROVE PlaceInv'
  BY Zenon, <1>15, MatchMoves
<1>16. ASSUME NEW r \in Receivers, Convert(r) PROVE PlaceInv'
  BY Zenon, <1>0, <1>16, ConvertMoves
<1>17. ASSUME NEW r \in Receivers, ReceiverStep(r) PROVE PlaceInv'
  BY Zenon, <1>6, <1>7, <1>8, <1>15, <1>16, <1>17 DEF ReceiverStep, Decide
<1>18. CASE PythonStep
  BY Zenon, <1>1, <1>2, <1>3, <1>5, <1>10, <1>11, <1>12, <1>18 DEF PythonStep
<1>19. CASE LoopEnds
  BY Zenon, <1>0, <1>19, EndMoves
<1> QED
  BY Zenon, <1>2, <1>9, <1>13, <1>14, <1>17, <1>18, <1>19 DEF Next, RecvStep

(* What stands once in a sequence counts once, and what does not stand     *)
(* there not at all.                                                       *)
LEMMA CountOnce ==
  ASSUME NEW q, NEW D, D = DOMAIN q, NEW i,
         \A j, k \in D : q[j] = i /\ q[k] = i => j = k
  PROVE  Count(q, i) = IF \E k \in D : q[k] = i THEN 1 ELSE 0
<1>1. CASE \E k \in D : q[k] = i
  <2>1. PICK k \in D : q[k] = i
    BY <1>1
  <2>2. {j \in DOMAIN q : q[j] = i} = {k}
    BY <2>1
  <2> QED
    BY Zenon, <1>1, <2>2, FS_Singleton DEF Count
<1>2. CASE ~\E k \in D : q[k] = i
  <2>1. {j \in DOMAIN q : q[j] = i} = {}
    BY <1>2
  <2> QED
    BY <1>2, <2>1, FS_EmptySet DEF Count
<1> QED
  BY <1>1, <1>2

LEMMA OnePlaceCounts ==
  ASSUME Types, StopInv, PlaceInv
  PROVE  EachInOnePlace
<1> SUFFICES ASSUME NEW i \in 1 .. next - 1
             PROVE  Bit(i \in buffers) + Count(queue, i) + Bit(hand = i) + Count(vec, i)
                      + Count(taken, i) + Bit(gone[i] # "no") = 1
  <2>1. ASSUME open, NEW i \in Known
        PROVE  gone[i] \in {"no", "freed", "returned", "cancelled"}
    BY <2>1 DEF StopInv, PlaceInv, KnownInv, Lost
  <2>2. loop = "over" => queue = << >> /\ hand = 0
    BY DEF StopInv
  <2> QED
    BY Zenon, <2>1, <2>2 DEF EachInOnePlace, PlaceInv, Known
<1>1. Count(queue, i) = Bit(Has(queue, i))
  <2>1. DOMAIN queue = 1 .. Len(queue)
    BY DEF Types
  <2>2. \A j, k \in 1 .. Len(queue) : queue[j] = i /\ queue[k] = i => j = k
    BY Zenon DEF PlaceInv, OnceInv, Once
  <2> QED
    BY Zenon, <2>1, <2>2, CountOnce DEF Has, Bit
<1>2. Count(vec, i) = Bit(Has(vec, i))
  <2>1. DOMAIN vec = 1 .. Len(vec)
    BY DEF Types
  <2>2. \A j, k \in 1 .. Len(vec) : vec[j] = i /\ vec[k] = i => j = k
    BY Zenon DEF PlaceInv, OnceInv, Once
  <2> QED
    BY Zenon, <2>1, <2>2, CountOnce DEF Has, Bit
<1>3. Count(taken, i) = Bit(TakenBy(i))
  <2>1. DOMAIN taken = Receivers
    BY DEF Types
  <2>2. \A j, k \in Receivers : taken[j] = i /\ taken[k] = i => j = k
    <3>1. i # 0
      OBVIOUS
    <3> QED
      BY Zenon, <3>1 DEF PlaceInv, OnceInv
  <2> QED
    BY Zenon, <2>1, <2>2, CountOnce DEF TakenBy, Bit
<1>4. PICK x \in Places : \A y \in Places : In(y, i) <=> y = x
  BY Zenon DEF PlaceInv, OnePlace, Known
<1>5. /\ i \in buffers <=> x = "registry"
      /\ Has(queue, i) <=> x = "queue"
      /\ hand = i <=> x = "hand"
      /\ Has(vec, i) <=> x = "vec"
      /\ TakenBy(i) <=> x = "taken"
      /\ gone[i] # "no" <=> x = "gone"
  BY <1>4 DEF In, Places
<1>6. /\ Bit(i \in buffers) = Bit(x = "registry")
      /\ Count(queue, i) = Bit(x = "queue")
      /\ Bit(hand = i) = Bit(x = "hand")
      /\ Count(vec, i) = Bit(x = "vec")
      /\ Count(taken, i) = Bit(x = "taken")
      /\ Bit(gone[i] # "no") = Bit(x = "gone")
  BY <1>1, <1>2, <1>3, <1>5 DEF Bit
<1>7. Bit(x = "registry") + Bit(x = "queue") + Bit(x = "hand") + Bit(x = "vec")
        + Bit(x = "taken") + Bit(x = "gone") = 1
  BY DEF Bit, Places
<1> QED
  BY <1>6, <1>7

(* A buffer is never mislaid and never in two hands: from its allocation   *)
(* (py.rs:115) through the send (py.rs:625), the actor's loop and the      *)
(* vector to a receiver, to its free or to its loss it is in one place,    *)
(* for any number of receivers, threads and buffers and for all matchers.  *)
(* It is lost with a cancelled future or with the actor, and with the      *)
(* actor only after stop (lib.rs:387).                                     *)
THEOREM BufferIsInOnePlace == Spec => []EachInOnePlace
<1>1. ScanInv /\ StopInv /\ PlaceInv => EachInOnePlace
  BY Zenon, OnePlaceCounts DEF ScanInv
<1> QED
  BY <1>1, ScanInit, ScanStep, StopInit, StopStep, PlaceInit, PlaceStep, PTL DEF Spec
=============================================================================
