---------------------------- MODULE MailboxSpec ----------------------------
(***************************************************************************)
(* What a mailbox promises its users: two queues, one for user and one for *)
(* system messages, and calls that take a message out of one of them in a  *)
(* single step.  There are no channels, no stash, no counter and no await  *)
(* points here; Mailbox is shown to implement this module.                 *)
(*                                                                         *)
(* A message carries its number in the order of acceptance, so that a      *)
(* queue is the set of the messages in it.                                 *)
(***************************************************************************)
EXTENDS Integers

CONSTANTS UserBody, SysBody,
          Wanted       \* what a call may accept: sets of bodies

VARIABLES users,       \* accepted user messages that no call has returned
          systems,     \* the same for system messages
          sent,        \* how many messages of each kind have been accepted
          call,        \* what the call under way accepts; {} without one
          returned,    \* the messages that calls have returned
          open         \* the receiver has not been dropped

vars == <<users, systems, sent, call, returned, open>>

Init ==
  /\ users = {} /\ systems = {} /\ sent = <<0, 0>>
  /\ call = {} /\ returned = {} /\ open = TRUE

(* A send is accepted at once, behind everything accepted before. *)
SendUser(b) ==
  /\ open
  /\ users' = users \cup {[body |-> b, n |-> sent[1] + 1]}
  /\ sent' = <<sent[1] + 1, sent[2]>>
  /\ UNCHANGED <<systems, call, returned, open>>

SendSystem(b) ==
  /\ open
  /\ systems' = systems \cup {[body |-> b, n |-> sent[2] + 1]}
  /\ sent' = <<sent[1], sent[2] + 1>>
  /\ UNCHANGED <<users, call, returned, open>>

Begin(M) ==
  /\ open /\ call = {} /\ call' = M
  /\ UNCHANGED <<users, systems, sent, returned, open>>

(* A call that accepts M returns the oldest such message of one queue, and *)
(* nothing else moves.                                                     *)
Oldest(q, M, m) == m.body \in M /\ \A o \in q : o.body \in M => m.n <= o.n

Take(M) ==
  /\ open /\ call \in {M, {}} /\ call' = {}
  /\ \/ \E m \in users :
          /\ Oldest(users, M, m)
          /\ users' = users \ {m} /\ returned' = returned \cup {m}
          /\ UNCHANGED systems
     \/ \E m \in systems :
          /\ Oldest(systems, M, m)
          /\ systems' = systems \ {m} /\ returned' = returned \cup {m}
          /\ UNCHANGED users
  /\ UNCHANGED <<sent, open>>

(* A call returns None or is cancelled: the queues are as they were. *)
GiveUp ==
  /\ call # {} /\ call' = {}
  /\ UNCHANGED <<users, systems, sent, returned, open>>

(* Dropping the receiver loses what is queued, and only that does. *)
Drop ==
  /\ open /\ call = {}
  /\ open' = FALSE /\ users' = {} /\ systems' = {}
  /\ UNCHANGED <<sent, call, returned>>

Next ==
  \/ \E b \in UserBody : SendUser(b)
  \/ \E b \in SysBody : SendSystem(b)
  \/ \E M \in Wanted : Begin(M) \/ Take(M)
  \/ GiveUp \/ Drop

Spec == Init /\ [][Next]_vars
============================================================================
