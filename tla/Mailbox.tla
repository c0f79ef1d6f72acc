------------------------------ MODULE Mailbox ------------------------------
(***************************************************************************)
(* One actor mailbox, src/mailbox.rs: an unbounded channel for user        *)
(* messages, one for system messages, a stash private to the receiver and  *)
(* a counter shared by both halves.  Any number of sender handles work     *)
(* concurrently with the one receiver.                                     *)
(*                                                                         *)
(* A step is one operation on shared state: one fetch_add or fetch_sub of  *)
(* the counter, one push to or pop from a channel, the drop of one channel *)
(* end.  What the receiver does to its own stash is joined to the shared   *)
(* operation next to it.                                                   *)
(*                                                                         *)
(* A message is its body and its place in the order its channel accepted   *)
(* it.  A matcher is the set of bodies it accepts; recv and try_recv want  *)
(* every body.                                                             *)
(***************************************************************************)
EXTENDS Integers, Sequences, FiniteSets

CONSTANTS Senders,     \* clones of the MailboxSender
          UserBody,    \* payloads of Message::User
          SysBody,     \* the SystemMessages
          Matchers,    \* matchers passed to selective_recv
          MaxUser,     \* bound of the model: user messages sent
          MaxSys       \* bound of the model: system messages sent

Body == UserBody \cup SysBody

ASSUME MailboxAssumption ==
  /\ IsFiniteSet(Senders)
  /\ UserBody \cap SysBody = {}
  /\ Matchers \subseteq SUBSET Body
  /\ MaxUser \in Nat /\ MaxSys \in Nat

VARIABLES
  user, sys,           \* the two channels
  counter,             \* Arc<AtomicUsize>
  spc,                 \* each sender's step
  rpc,                 \* the receiver's step
  mode, want,          \* the last call and what it accepts
  none,                \* the last call has returned None
  stash,               \* VecDeque<Message>
  held,                \* the user message popped from the channel, not yet counted off
  userSent, sysSent,   \* history: how many messages the channels have accepted
  got,                 \* history: messages returned to the caller
  passed               \* history: system messages that recv returned a user message before

chanVars == <<user, sys>>
callVars == <<mode, want>>
sentVars == <<userSent, sysSent>>
gotVars == <<got, passed>>
vars == <<chanVars, counter, spc, rpc, callVars, none, stash, held, sentVars, gotVars>>

Message == [body : Body, n : Nat]
ToSet(s) == {s[i] : i \in 1 .. Len(s)}
Without(s, i) == [j \in 1 .. (Len(s) - 1) |-> s[IF j < i THEN j ELSE j + 1]]
IsUser(m) == m.body \in UserBody
IsSys(m) == m.body \in SysBody
UserClosed == \A s \in Senders : spc[s] \in {"half", "gone"}
SysClosed == \A s \in Senders : spc[s] = "gone"
Dropped == rpc = "dropped"
InFlight == {s \in Senders : spc[s] \in {"push", "undo"}}

(* The messages not yet returned, one queue for each channel. *)
UserQueued == {m \in ToSet(stash) : IsUser(m)} \cup ToSet(held) \cup ToSet(user)
SysQueued == {m \in ToSet(stash) : IsSys(m)} \cup ToSet(sys)

(* channel() *)
Init ==
  /\ user = << >> /\ sys = << >> /\ stash = << >> /\ held = << >>
  /\ counter = 0
  /\ spc = [s \in Senders |-> "idle"]
  /\ rpc = "idle" /\ mode = "recv" /\ want = Body /\ none = FALSE
  /\ userSent = 0 /\ sysSent = 0 /\ got = {} /\ passed = {}
----------------------------------------------------------------------------
(* MailboxSender *)

(* send(User) and send_user_bytes: the counter is raised first ... *)
SendUser(s) ==
  /\ spc[s] = "idle"
  /\ userSent + Cardinality(InFlight) < MaxUser
  /\ counter' = counter + 1
  /\ spc' = [spc EXCEPT ![s] = "push"]
  /\ UNCHANGED <<chanVars, rpc, callVars, none, stash, held, sentVars, gotVars>>

(* ... then the payload is pushed; a dropped receiver refuses it ... *)
PushUser(s, b) ==
  /\ spc[s] = "push"
  /\ IF Dropped
     THEN /\ spc' = [spc EXCEPT ![s] = "undo"]
          /\ UNCHANGED <<user, userSent>>
     ELSE /\ spc' = [spc EXCEPT ![s] = "idle"]
          /\ user' = Append(user, [body |-> b, n |-> userSent + 1])
          /\ userSent' = userSent + 1
  /\ UNCHANGED <<sys, counter, rpc, callVars, none, stash, held, sysSent, gotVars>>

(* ... and the counter is rolled back. *)
RollbackUser(s) ==
  /\ spc[s] = "undo"
  /\ counter' = counter - 1
  /\ spc' = [spc EXCEPT ![s] = "idle"]
  /\ UNCHANGED <<chanVars, rpc, callVars, none, stash, held, sentVars, gotVars>>

(* send(System) and send_system: not counted.  After the receiver is gone  *)
(* the message comes back to the caller and nothing changes.               *)
SendSys(s, b) ==
  /\ spc[s] = "idle" /\ ~Dropped
  /\ sysSent < MaxSys
  /\ sys' = Append(sys, [body |-> b, n |-> sysSent + 1])
  /\ sysSent' = sysSent + 1
  /\ UNCHANGED <<user, counter, spc, rpc, callVars, none, stash, held, userSent, gotVars>>

(* Dropping a MailboxSender drops tx_user, then tx_sys. *)
DropSender(s) ==
  /\ spc[s] \in {"idle", "half"}
  /\ spc' = [spc EXCEPT ![s] = IF @ = "idle" THEN "half" ELSE "gone"]
  /\ UNCHANGED <<chanVars, counter, rpc, callVars, none, stash, held, sentVars, gotVars>>
----------------------------------------------------------------------------
(* MailboxReceiver *)

(* The call op returns m, or None, or goes on. *)
Return(op, m) ==
  /\ rpc' = "idle"
  /\ none' = FALSE
  /\ got' = got \cup {m}
  /\ passed' = IF IsUser(m) /\ op # "sel" THEN passed \cup SysQueued ELSE passed

ReturnNone == rpc' = "idle" /\ none' = TRUE /\ UNCHANGED gotVars

GoTo(pc) == rpc' = pc /\ none' = FALSE /\ UNCHANGED gotVars

(* mutant: an unwanted message goes to the front of the stash *)
DeferToFront(m) == stash' = <<m>> \o stash

(* selective_recv keeps a message it does not want: stash.push_back. *)
Defer(m) == stash' = Append(stash, m)

(* The first stashed message with a body in B is at place i; there is none. *)
FirstStashed(i, B) ==
  /\ stash[i].body \in B
  /\ \A j \in 1 .. (i - 1) : stash[j].body \notin B

NoneStashed(B) == \A i \in 1 .. Len(stash) : stash[i].body \notin B

(* Mutant: recv does not look for system messages before the stash. *)
RecvNoPriority(op) ==
  /\ rpc = "idle"
  /\ mode' = op /\ want' = Body
  /\ GoTo("stash")
  /\ UNCHANGED <<chanVars, counter, spc, stash, held, sentVars>>

(* recv and try_recv: a stashed system message, else one from the channel. *)
Recv(op) ==
  /\ rpc = "idle"
  /\ mode' = op /\ want' = Body
  /\ \/ \E i \in 1 .. Len(stash) :
          /\ FirstStashed(i, SysBody)
          /\ stash' = Without(stash, i)
          /\ Return(op, stash[i])
          /\ UNCHANGED sys
     \/ /\ NoneStashed(SysBody) /\ sys # << >>
        /\ sys' = Tail(sys)
        /\ Return(op, Head(sys))
        /\ UNCHANGED stash
     \/ /\ NoneStashed(SysBody) /\ sys = << >>
        /\ GoTo("stash")
        /\ UNCHANGED <<sys, stash>>
  /\ UNCHANGED <<user, counter, spc, held, sentVars>>

(* stash.pop_front with its fetch_sub.  On an empty stash recv goes on to  *)
(* the select!, try_recv to rx_user.try_recv.                              *)
RecvStash ==
  /\ rpc = "stash"
  /\ IF stash # << >>
     THEN /\ stash' = Tail(stash)
          /\ counter' = IF IsUser(Head(stash)) THEN counter - 1 ELSE counter
          /\ Return(mode, Head(stash))
     ELSE /\ GoTo(IF mode = "recv" THEN "sys" ELSE "user")
          /\ UNCHANGED <<stash, counter>>
  /\ UNCHANGED <<chanVars, spc, callVars, held, sentVars>>

(* Mutant: a match found in the stash is not counted off. *)
SelectiveUncounted(M) ==
  /\ rpc = "idle"
  /\ mode' = "sel" /\ want' = M
  /\ \/ \E i \in 1 .. Len(stash) :
          /\ FirstStashed(i, M)
          /\ stash' = Without(stash, i)
          /\ Return("sel", stash[i])
     \/ NoneStashed(M) /\ GoTo("seek") /\ UNCHANGED stash
  /\ UNCHANGED <<chanVars, counter, spc, held, sentVars>>

(* selective_recv: the stash first ... *)
SelectiveRecv(M) ==
  /\ rpc = "idle"
  /\ mode' = "sel" /\ want' = M
  /\ \/ \E i \in 1 .. Len(stash) :
          /\ FirstStashed(i, M)
          /\ stash' = Without(stash, i)
          /\ counter' = IF IsUser(stash[i]) THEN counter - 1 ELSE counter
          /\ Return("sel", stash[i])
     \/ /\ NoneStashed(M)
        /\ GoTo("seek")
        /\ UNCHANGED <<stash, counter>>
  /\ UNCHANGED <<chanVars, spc, held, sentVars>>

(* A system message leaves its channel: it is returned, or selective_recv  *)
(* does not want it, stashes it and starts its loop over.                  *)
TakeSys ==
  /\ sys' = Tail(sys)
  /\ IF Head(sys).body \in want
     THEN Return(mode, Head(sys)) /\ UNCHANGED stash
     ELSE Defer(Head(sys)) /\ GoTo("seek")

(* ... then rx_sys.try_recv at the head of the loop ... *)
SeekSys ==
  /\ rpc = "seek"
  /\ IF sys # << >>
     THEN TakeSys
     ELSE GoTo("sys") /\ UNCHANGED <<sys, stash>>
  /\ UNCHANGED <<user, counter, spc, callVars, held, sentVars>>

(* The select! of both calls is biased: rx_sys is polled first, and None   *)
(* from it ends the call whatever the user channel holds.                  *)
PollSys ==
  /\ rpc = "sys"
  /\ IF sys # << >>
     THEN TakeSys
     ELSE /\ IF SysClosed THEN ReturnNone ELSE GoTo("user")
          /\ UNCHANGED <<sys, stash>>
  /\ UNCHANGED <<user, counter, spc, callVars, held, sentVars>>

(* rx_user is polled second (try_recv: tried).  A message that is wanted   *)
(* is counted off in the next step, another one is stashed; an empty open  *)
(* channel leaves the call pending.                                        *)
PollUser ==
  /\ rpc = "user"
  /\ IF user # << >>
     THEN /\ user' = Tail(user)
          /\ IF Head(user).body \in want
             THEN held' = <<Head(user)>> /\ GoTo("count") /\ UNCHANGED stash
             ELSE Defer(Head(user)) /\ GoTo("seek") /\ UNCHANGED held
     ELSE /\ IF UserClosed \/ mode = "try" THEN ReturnNone ELSE GoTo("wait")
          /\ UNCHANGED <<user, stash, held>>
  /\ UNCHANGED <<sys, counter, spc, callVars, sentVars>>

CountOff ==
  /\ rpc = "count"
  /\ counter' = counter - 1
  /\ Return(mode, Head(held))
  /\ held' = << >>
  /\ UNCHANGED <<chanVars, spc, callVars, stash, sentVars>>

(* Mutants: closing the channels wakes nobody; user messages wake nobody. *)
WakeOnMessage ==
  /\ rpc = "wait"
  /\ sys # << >> \/ user # << >>
  /\ GoTo("sys")
  /\ UNCHANGED <<chanVars, counter, spc, callVars, stash, held, sentVars>>

WakeOnSys ==
  /\ rpc = "wait"
  /\ sys # << >> \/ SysClosed
  /\ GoTo("sys")
  /\ UNCHANGED <<chanVars, counter, spc, callVars, stash, held, sentVars>>

(* A pending call is woken by either channel and polls again. *)
Wake ==
  /\ rpc = "wait"
  /\ sys # << >> \/ user # << >> \/ SysClosed \/ UserClosed
  /\ GoTo("sys")
  /\ UNCHANGED <<chanVars, counter, spc, callVars, stash, held, sentVars>>

(* A pending call is dropped: the timeouts of PyMailbox.recv and           *)
(* PyMailbox.selective_recv.                                               *)
Cancel ==
  /\ rpc = "wait"
  /\ GoTo("idle")
  /\ UNCHANGED <<chanVars, counter, spc, callVars, stash, held, sentVars>>

(* The receiver is dropped with its actor, and what is queued with it. *)
DropReceiver ==
  /\ rpc = "idle"
  /\ rpc' = "dropped"
  /\ user' = << >> /\ sys' = << >> /\ stash' = << >>
  /\ UNCHANGED <<counter, spc, callVars, none, held, sentVars, gotVars>>
----------------------------------------------------------------------------
SenderNext ==
  \E s \in Senders :
    \/ SendUser(s)
    \/ \E b \in UserBody : PushUser(s, b)
    \/ RollbackUser(s)
    \/ \E b \in SysBody : SendSys(s, b)
    \/ DropSender(s)

CallStep == RecvStash \/ SeekSys \/ PollSys \/ PollUser \/ CountOff \/ Wake

Next ==
  \/ SenderNext
  \/ CallStep
  \/ \E op \in {"recv", "try"} : Recv(op)
  \/ \E M \in Matchers : SelectiveRecv(M)
  \/ Cancel
  \/ DropReceiver

Spec == Init /\ [][Next]_vars

(* The loop of every actor the runtime spawns: recv until None, then drop  *)
(* the receiver (spawn_handler_with_budget, spawn_observed_handler).       *)
LoopStep ==
  \/ ~none /\ Recv("recv")
  \/ CallStep
  \/ none /\ DropReceiver

(* System messages may come for ever.  When MaxSys of them have been       *)
(* returned the history forgets them, and their numbers are used again.    *)
Recount ==
  /\ sysSent = MaxSys /\ SysQueued = {} /\ ~Dropped
  /\ sysSent' = 0
  /\ got' = {m \in got : IsUser(m)} /\ passed' = {}
  /\ UNCHANGED <<chanVars, counter, spc, rpc, callVars, none, stash, held, userSent>>

LoopNext == SenderNext \/ LoopStep \/ Recount

(* The scheduler polls a task that can go on, and a send or a drop that    *)
(* has begun runs to its end: none of them waits for anything.             *)
LoopFairness ==
  /\ WF_vars(LoopStep)
  /\ \A s \in Senders :
       /\ WF_vars(\E b \in UserBody : PushUser(s, b))
       /\ WF_vars(RollbackUser(s))
       /\ WF_vars(spc[s] = "half" /\ DropSender(s))

LoopSpec == Init /\ [][LoopNext]_vars /\ LoopFairness
----------------------------------------------------------------------------
(* The counter behind mailbox_size (mailbox.rs:53) is the number of user   *)
(* messages in the channel and the stash, plus one for each send that has  *)
(* not reached the channel yet and one for a message on its way out.  It   *)
(* never falls below what is queued.                                       *)
CounterExact ==
  IF Dropped
  THEN counter >= Cardinality(InFlight)
  ELSE counter = Cardinality(UserQueued) + Cardinality(InFlight)

(* What the call under way accepts. *)
Accepts == IF rpc \in {"idle", "dropped"} THEN {} ELSE want

Promise == INSTANCE MailboxSpec WITH
  Wanted <- Matchers \cup {Body},
  users <- UserQueued,
  systems <- SysQueued,
  sent <- <<userSent, sysSent>>,
  call <- Accepts,
  returned <- got,
  open <- ~Dropped

(* The mailbox is two queues whose calls are atomic: whatever mix of calls, *)
(* cancellations and concurrent sends, a message is returned at most once   *)
(* and lost only with the receiver, deferring keeps the order of each kind  *)
(* (mailbox.rs:207), and a call returns the oldest message of a kind that   *)
(* it accepts, so that recv never overtakes and selective_recv overtakes    *)
(* only what its matcher has refused (mailbox.rs:214).                      *)
ImplementsQueues == Promise!Spec

(* System messages come first (mailbox.rs:137): one that was queued when   *)
(* recv or try_recv returned a user message arrived too late for that call *)
(* and is returned before the next user message.                           *)
SystemPassedOnce ==
  [][\A m \in got' \ got : IsUser(m) /\ mode' # "sel" => SysQueued' \cap passed = {}]_vars

(* stop() closes the mailbox (lib.rs:387): once every sender handle is     *)
(* gone the actor's loop ends.                                             *)
StopEndsLoop == SysClosed ~> Dropped

(* From some time on every call of recv finds a system message: rx_user is *)
(* not polled any more.                                                    *)
Flooded == []<>(SysQueued # {}) /\ <>[](rpc # "user")

(* A queued user message is returned to the actor's loop unless senders    *)
(* disappear altogether or system messages flood the mailbox: recv takes   *)
(* them first (mailbox.rs:162), without a limit, so that a stream of them  *)
(* starves the user channel, but only one that no call ever gets to the    *)
(* end of.  As long as calls find the system channel empty again and again *)
(* every user message gets its turn, and none is missed because the loop   *)
(* was waiting on both channels.                                           *)
QueuedIsServed ==
  \/ Flooded
  \/ \A n \in 1 .. MaxUser :
       (\E m \in UserQueued : m.n = n)
         ~> ((\E m \in got : IsUser(m) /\ m.n = n) \/ UserClosed)
============================================================================
