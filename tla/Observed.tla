------------------------------ MODULE Observed ------------------------------
(***************************************************************************)
(* Observed actors and zero-copy buffers, as Python uses them: the buffer  *)
(* registry (src/buffer.rs), an actor of spawn_observed_handler with its   *)
(* vector of messages (src/lib.rs), and the calls selective_recv_observed  *)
(* and get_messages (src/py.rs).  Every message here is a buffer that was  *)
(* sent, known by its id.                                                  *)
(*                                                                         *)
(* Two locks meet: the vector's mutex, which a receiver holds while it     *)
(* asks the Python matcher about one message after the other, and Python's *)
(* interpreter lock (GIL), which the matcher needs and which a thread that *)
(* calls get_messages holds while it waits for the mutex.                  *)
(***************************************************************************)
EXTENDS Integers, Sequences, FiniteSets

CONSTANTS Receivers,   \* futures of selective_recv_observed_py
          Threads,     \* Python threads
          Nobody,
          Body,        \* what a matcher sees of each buffer
          Accept,      \* what each receiver's matcher accepts
          Scenes,      \* where a behaviour starts: see Init
          MaxCalls     \* bound of the model: see calls

Ids == DOMAIN Body

(* Ids are given out in order, and each of those the scene has given out   *)
(* was freed or observed.                                                  *)
ASSUME ObservedAssumption ==
  /\ Nobody \notin Receivers
  /\ \A s \in Scenes :
       /\ s.freed \in Nat /\ s.observed \in Seq(Nat)
       /\ 1 .. s.freed + Len(s.observed) \subseteq Ids
       /\ {s.observed[k] : k \in 1 .. Len(s.observed)}
            = s.freed + 1 .. s.freed + Len(s.observed)

VARIABLES
  buffers,    \* BufferRegistry.inner
  next,       \* BufferRegistry.next
  capsules,   \* the ids whose capsule is alive
  open,       \* the actor has a mailbox in Runtime.mailboxes
  queue,      \* its mailbox
  loop,       \* its loop: about to poll rx_sys, about to poll rx_user, or over
  hand,       \* the message its loop has received and not yet pushed
  vec,        \* its entry in Runtime.observers
  mutex,      \* who holds the vector's mutex
  gil,        \* who holds the GIL
  tpc,        \* each thread's step: outside, running Python, or waiting for the mutex
  rpc,        \* each receiver's step
  pos,        \* how far its scan has come
  taken,      \* what it has taken from the vector, or 0
  cancelled,  \* its asyncio future was cancelled
  gone,       \* history: how each message or buffer ended
  calls       \* calls of get_messages and stop, and cancellations, so far

bufVars == <<buffers, next, capsules>>
actVars == <<open, queue, loop, hand>>
recVars == <<rpc, pos, taken, cancelled>>
vars == <<bufVars, actVars, vec, mutex, gil, tpc, recVars, gone, calls>>

(* A behaviour starts with some buffers freed and others observed, all     *)
(* before, and with some receivers and calls spent: that bounds what       *)
(* follows.                                                                *)
Init ==
  \E s \in Scenes :
    /\ buffers = {} /\ capsules = {} /\ next = s.freed + Len(s.observed) + 1
    /\ open = TRUE /\ queue = << >> /\ loop = "sys" /\ hand = 0
    /\ vec = s.observed /\ mutex = Nobody /\ gil = Nobody
    /\ tpc = [t \in Threads |-> "out"]
    /\ rpc = [r \in Receivers |-> IF r \in s.receivers THEN "idle" ELSE "done"]
    /\ pos = [r \in Receivers |-> 1]
    /\ taken = [r \in Receivers |-> 0]
    /\ cancelled = [r \in Receivers |-> FALSE]
    /\ gone = [i \in Ids |-> IF i <= s.freed THEN "freed" ELSE "no"]
    /\ calls = s.calls
-----------------------------------------------------------------------------
(* Python threads *)

TakeGil(t) ==
  /\ tpc[t] = "out" /\ gil = Nobody
  /\ gil' = t
  /\ tpc' = [tpc EXCEPT ![t] = "run"]
  /\ UNCHANGED <<bufVars, actVars, vec, mutex, recVars, gone, calls>>

(* The thread blocks elsewhere, or another one has asked for the GIL. *)
DropGil(t) ==
  /\ tpc[t] = "run"
  /\ gil' = Nobody
  /\ tpc' = [tpc EXCEPT ![t] = "out"]
  /\ UNCHANGED <<bufVars, actVars, vec, mutex, recVars, gone, calls>>

Python == \E t \in Threads : tpc[t] = "run"

(* allocate_buffer: an id, the memory, and the capsule that frees it. *)
AllocateBuffer ==
  /\ Python /\ next \in Ids
  /\ buffers' = buffers \cup {next}
  /\ capsules' = capsules \cup {next}
  /\ next' = next + 1
  /\ UNCHANGED <<actVars, vec, mutex, gil, tpc, recVars, gone, calls>>

(* mutant: the destructor does not free *)
DropCapsuleOnly(i) ==
  /\ Python /\ i \in capsules
  /\ capsules' = capsules \ {i}
  /\ UNCHANGED <<buffers, next, actVars, vec, mutex, gil, tpc, recVars, gone, calls>>

(* capsule_destructor, at any time, also long after the buffer was sent. *)
DropCapsule(i) ==
  /\ Python /\ i \in capsules
  /\ capsules' = capsules \ {i}
  /\ buffers' = buffers \ {i}
  /\ gone' = IF i \in buffers THEN [gone EXCEPT ![i] = "freed"] ELSE gone
  /\ UNCHANGED <<next, actVars, vec, mutex, gil, tpc, recVars, calls>>

(* send_buffer takes the buffer out of the registry first, so that a send  *)
(* to an actor without a mailbox loses it.  An id that is not there is an  *)
(* error without effect.                                                   *)
SendBuffer(i) ==
  /\ Python /\ i \in buffers
  /\ buffers' = buffers \ {i}
  /\ IF open THEN queue' = Append(queue, i) /\ UNCHANGED gone
             ELSE gone' = [gone EXCEPT ![i] = "refused"] /\ UNCHANGED queue
  /\ UNCHANGED <<next, capsules, open, loop, hand, vec, mutex, gil, tpc, recVars, calls>>

(* stop(pid): the only sender of the mailbox is dropped.  The loop learns   *)
(* of it when it polls rx_sys next: see LoopEnds.                          *)
StopActor ==
  /\ Python /\ open /\ calls < MaxCalls
  /\ open' = FALSE
  /\ calls' = calls + 1
  /\ UNCHANGED <<bufVars, queue, loop, hand, vec, mutex, gil, tpc, recVars, gone>>

(* get_messages goes for the mutex with the GIL in its hands ... *)
GetMessages(t) ==
  /\ tpc[t] = "run" /\ calls < MaxCalls
  /\ tpc' = [tpc EXCEPT ![t] = "lock"]
  /\ calls' = calls + 1
  /\ UNCHANGED <<bufVars, actVars, vec, mutex, gil, recVars, gone>>

(* ... and copies the vector. *)
CopyVec(t) ==
  /\ tpc[t] = "lock" /\ mutex = Nobody
  /\ tpc' = [tpc EXCEPT ![t] = "run"]
  /\ UNCHANGED <<bufVars, actVars, vec, mutex, gil, recVars, gone, calls>>

(* selective_recv_observed_py makes a future; its task is polled elsewhere. *)
Receive(r) ==
  /\ Python /\ rpc[r] = "idle"
  /\ rpc' = [rpc EXCEPT ![r] = "lock"]
  /\ UNCHANGED <<bufVars, actVars, vec, mutex, gil, tpc, pos, taken, cancelled, gone, calls>>

Active(r) == rpc[r] \notin {"idle", "done"}

(* Python gives the future up; the task notices when it is polled next. *)
CancelFuture(r) ==
  /\ Python /\ Active(r) /\ ~cancelled[r] /\ calls < MaxCalls
  /\ cancelled' = [cancelled EXCEPT ![r] = TRUE]
  /\ calls' = calls + 1
  /\ UNCHANGED <<bufVars, actVars, vec, mutex, gil, tpc, rpc, pos, taken, gone>>
-----------------------------------------------------------------------------
(* The actor's loop.  Its recv polls rx_sys before rx_user whenever it is  *)
(* woken, by a message or by the closing of the mailbox; a stop may fall   *)
(* between the two polls.                                                  *)

AtRecv == loop = "sys" /\ hand = 0

PollSys ==
  /\ AtRecv /\ open /\ queue # << >>
  /\ loop' = "user"
  /\ UNCHANGED <<bufVars, open, queue, hand, vec, mutex, gil, tpc, recVars, gone, calls>>

RecvMessage ==
  /\ loop = "user" /\ queue # << >>
  /\ loop' = "sys"
  /\ hand' = Head(queue) /\ queue' = Tail(queue)
  /\ UNCHANGED <<bufVars, open, vec, mutex, gil, tpc, recVars, gone, calls>>

Has(q, i) == \E k \in 1 .. Len(q) : q[k] = i

(* A closed rx_sys gives None, whatever rx_user holds: the loop is over    *)
(* and the receiver is dropped with what is queued.                        *)
LoopEnds ==
  /\ AtRecv /\ ~open
  /\ loop' = "over"
  /\ gone' = [i \in Ids |-> IF Has(queue, i) THEN "dropped" ELSE gone[i]]
  /\ queue' = << >>
  /\ UNCHANGED <<bufVars, open, hand, vec, mutex, gil, tpc, recVars, calls>>

(* mutant: the guard outlives the push *)
PushKeepsMutex ==
  /\ hand # 0 /\ mutex = Nobody
  /\ vec' = Append(vec, hand) /\ hand' = 0 /\ mutex' = "actor"
  /\ UNCHANGED <<bufVars, open, queue, loop, gil, tpc, recVars, gone, calls>>

Push ==
  /\ hand # 0 /\ mutex = Nobody
  /\ vec' = Append(vec, hand) /\ hand' = 0
  /\ UNCHANGED <<bufVars, open, queue, loop, mutex, gil, tpc, recVars, gone, calls>>
-----------------------------------------------------------------------------
(* take_observed_message_matching and the loop around it.  No step of it   *)
(* but the sleep can be interrupted.                                       *)

Frame == UNCHANGED <<bufVars, actVars, tpc, calls>>

TakeMutex(r) ==
  /\ rpc[r] = "lock" /\ mutex = Nobody
  /\ mutex' = r
  /\ rpc' = [rpc EXCEPT ![r] = "scan"]
  /\ Frame /\ UNCHANGED <<vec, gil, pos, taken, cancelled, gone>>

Scanning(r) == rpc[r] = "scan" /\ pos[r] <= Len(vec)

(* with_gil, for one message *)
AskMatcher(r) ==
  /\ Scanning(r) /\ gil = Nobody
  /\ gil' = r
  /\ rpc' = [rpc EXCEPT ![r] = "match"]
  /\ Frame /\ UNCHANGED <<vec, mutex, pos, taken, cancelled, gone>>

(* A thread wants the GIL while the matcher runs; it goes on afterwards. *)
Preempted(r) ==
  /\ rpc[r] = "match"
  /\ gil' = Nobody
  /\ rpc' = [rpc EXCEPT ![r] = "scan"]
  /\ Frame /\ UNCHANGED <<vec, mutex, pos, taken, cancelled, gone>>

Without(q, k) == [n \in 1 .. Len(q) - 1 |-> q[IF n < k THEN n ELSE n + 1]]

Matches(r, i) == Body[i] \in Accept[r]

Matched(r) ==
  /\ rpc[r] = "match" /\ Matches(r, vec[pos[r]])
  /\ gil' = Nobody /\ mutex' = Nobody
  /\ taken' = [taken EXCEPT ![r] = vec[pos[r]]]
  /\ vec' = Without(vec, pos[r])
  /\ pos' = [pos EXCEPT ![r] = 1]
  /\ rpc' = [rpc EXCEPT ![r] = "convert"]
  /\ Frame /\ UNCHANGED <<cancelled, gone>>

(* mutant: the mutex is released between two messages *)
UnmatchedUnlocks(r) ==
  /\ rpc[r] = "match" /\ ~Matches(r, vec[pos[r]])
  /\ gil' = Nobody /\ mutex' = Nobody
  /\ pos' = [pos EXCEPT ![r] = @ + 1]
  /\ rpc' = [rpc EXCEPT ![r] = "scan"]
  /\ Frame /\ UNCHANGED <<vec, taken, cancelled, gone>>

(* mutant: only the first message is looked at *)
UnmatchedGivesUp(r) ==
  /\ rpc[r] = "match" /\ ~Matches(r, vec[pos[r]])
  /\ gil' = Nobody
  /\ pos' = [pos EXCEPT ![r] = Len(vec) + 1]
  /\ rpc' = [rpc EXCEPT ![r] = "scan"]
  /\ Frame /\ UNCHANGED <<vec, mutex, taken, cancelled, gone>>

Unmatched(r) ==
  /\ rpc[r] = "match" /\ ~Matches(r, vec[pos[r]])
  /\ gil' = Nobody
  /\ pos' = [pos EXCEPT ![r] = @ + 1]
  /\ rpc' = [rpc EXCEPT ![r] = "scan"]
  /\ Frame /\ UNCHANGED <<vec, mutex, taken, cancelled, gone>>

NoneMatched(r) ==
  /\ rpc[r] = "scan" /\ pos[r] > Len(vec)
  /\ mutex' = Nobody
  /\ pos' = [pos EXCEPT ![r] = 1]
  /\ rpc' = [rpc EXCEPT ![r] = "sleep"]
  /\ Frame /\ UNCHANGED <<vec, gil, taken, cancelled, gone>>

Settle(r) ==
  /\ rpc' = [rpc EXCEPT ![r] = "done"]
  /\ taken' = [taken EXCEPT ![r] = 0]
  /\ cancelled' = [cancelled EXCEPT ![r] = FALSE]

(* message_to_py and the result, for which a cancelled future has no use. *)
Convert(r) ==
  /\ rpc[r] = "convert" /\ gil = Nobody
  /\ gone' = [gone EXCEPT ![taken[r]] = IF cancelled[r] THEN "cancelled" ELSE "returned"]
  /\ Settle(r)
  /\ Frame /\ UNCHANGED <<vec, mutex, gil, pos>>

Wake(r) ==
  /\ rpc[r] = "sleep" /\ ~cancelled[r]
  /\ rpc' = [rpc EXCEPT ![r] = "lock"]
  /\ Frame /\ UNCHANGED <<vec, mutex, gil, pos, taken, cancelled, gone>>

(* The timeout, if there is one, or the cancellation. *)
GiveUp(r) ==
  /\ rpc[r] = "sleep"
  /\ Settle(r)
  /\ Frame /\ UNCHANGED <<vec, mutex, gil, pos, gone>>
-----------------------------------------------------------------------------
PythonStep ==
  \/ \E t \in Threads : TakeGil(t) \/ DropGil(t) \/ GetMessages(t) \/ CopyVec(t)
  \/ AllocateBuffer \/ StopActor
  \/ \E i \in Ids : DropCapsule(i) \/ SendBuffer(i)
  \/ \E r \in Receivers : CancelFuture(r) \/ Receive(r)

Decide(r) == Matched(r) \/ Unmatched(r)

ReceiverStep(r) ==
  \/ TakeMutex(r) \/ AskMatcher(r) \/ Preempted(r) \/ Decide(r) \/ NoneMatched(r)
  \/ Convert(r) \/ Wake(r) \/ GiveUp(r)

RecvStep == PollSys \/ RecvMessage \/ LoopEnds

Next == PythonStep \/ RecvStep \/ Push \/ \E r \in Receivers : ReceiverStep(r)

(* Whoever waits for a lock that is free again and again gets it: a        *)
(* receiver sleeps between two attempts, and Python hands the GIL over on  *)
(* request.                                                                *)
Fairness ==
  /\ WF_vars(RecvStep) /\ SF_vars(Push)
  /\ \A t \in Threads : WF_vars(DropGil(t)) /\ SF_vars(CopyVec(t))
  /\ \A r \in Receivers :
       /\ SF_vars(TakeMutex(r) \/ AskMatcher(r) \/ Convert(r))
       /\ SF_vars(Decide(r))
       /\ WF_vars(NoneMatched(r) \/ Wake(r) \/ GiveUp(r))

Spec == Init /\ [][Next]_vars /\ Fairness
-----------------------------------------------------------------------------
Bit(b) == IF b THEN 1 ELSE 0

Count(q, i) == Cardinality({k \in DOMAIN q : q[k] = i})

(* A buffer that was allocated is in one place: the registry, on its way   *)
(* through the actor, with one receiver, or at one end.  send_buffer       *)
(* (py.rs:625) and the capsule (py.rs:115) race for it and a capsule's     *)
(* late free hits nothing; no buffer stays in the registry without a       *)
(* capsule, and none in the mailbox of an actor whose loop is over.  A     *)
(* message is lost with a future that was cancelled or with an actor that  *)
(* was stopped: refused by a send, or queued when the loop finds rx_sys    *)
(* closed (mailbox.rs:162).  Until the stop no message is lost but to a    *)
(* cancelled future.                                                       *)
EachInOnePlace ==
  /\ buffers \subseteq capsules
  /\ loop = "over" => queue = << >> /\ hand = 0
  /\ \A i \in 1 .. next - 1 :
       /\ Bit(i \in buffers) + Count(queue, i) + Bit(hand = i) + Count(vec, i)
            + Count(taken, i) + Bit(gone[i] # "no") = 1
       /\ open => gone[i] \in {"no", "freed", "returned", "cancelled"}

(* take_observed_message_matching (lib.rs:650) takes the oldest message    *)
(* that its matcher accepts, however many receivers and pushes there are   *)
(* between two calls of the matcher.                                       *)
OldestMatch ==
  [][\A r \in Receivers :
       taken'[r] # 0 /\ taken[r] = 0 =>
         \A k \in DOMAIN vec : Matches(r, vec[k]) =>
           \E j \in 1 .. k : vec[j] = taken'[r]]_vars

(* get_messages waits for the mutex with the GIL (py.rs:1018) and the      *)
(* matcher for the GIL with the mutex (py.rs:994).                         *)
Embrace ==
  \E r \in Receivers, t \in Threads : Scanning(r) /\ mutex = r /\ tpc[t] = "lock"

(* The two locks are the only thing that can stick here: short of that     *)
(* embrace, every push, every get_messages and every attempt of a receiver *)
(* comes to its end, and a stopped actor's loop is over at last.           *)
OnlyEmbraceSticks ==
  /\ []<>(open \/ loop = "over" \/ Embrace)
  /\ []<>(hand = 0 \/ Embrace)
  /\ \A t \in Threads : []<>(tpc[t] # "lock" \/ Embrace)
  /\ \A r \in Receivers : []<>(rpc[r] \in {"idle", "sleep", "done"} \/ Embrace)

Pending(r, i) == Active(r) /\ Count(vec, i) = 1 /\ Matches(r, i)

(* No message stays in the vector for good while a receiver that accepts   *)
(* it goes on asking (py.rs:988), short of that embrace.                   *)
MatchIsServed == []<>(\A r \in Receivers, i \in Ids : Pending(r, i) => Embrace)
=============================================================================
