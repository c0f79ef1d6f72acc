----------------------------- MODULE Discovery ------------------------------
(***************************************************************************)
(* How an actor is found and addressed: one node with its slab (Pid), its  *)
(* registry (Registry), its mailbox table and its resolve server, and a    *)
(* caller that holds on to what it found.  In the node's own process it    *)
(* uses send_named, stop and wait; on another node resolve_remote and then *)
(* send_remote.  What other callers do to the node, they may do at any     *)
(* time.  Names outlive the actors they stand for, pids outlive their      *)
(* slots, and a remote pid outlives the process that issued it.            *)
(*                                                                         *)
(* What is handed around is a pid.  A reference is that pid with the       *)
(* identity of the actor it was issued for: the start of the node and the  *)
(* number of the allocation.  The program sees the pid only.               *)
(***************************************************************************)
EXTENDS Pid, Registry

CONSTANTS Asked,       \* the names callers look up, registered or not
          ClientLimit, \* get_network_max_name_len of a remote caller's node
          ServerLimit, \* ... and of the node
          Scenes       \* bounds of the model: see scene

VARIABLES
  scene,      \* what a behaviour is made of: slots and actors since the
              \* node's start, starts of the node, and the names registered
  boot,       \* history: how often the node was started
  mailboxes,  \* DashMap<Pid, MailboxSender>, as [pid, n]: whose mailbox it is
  remote,     \* the caller is on another node
  pc,         \* its step
  asked,      \* the name in its call
  held,       \* the reference it was given, or Unbound
  sent,       \* what is on the wire of its connection
  handler,    \* the step of the connection's handler on the node
  answer,     \* the reference the handler found, before and on the wire
  seen,       \* history: all the name was bound to since the call began
  failed,     \* history: the call met an error
  strays      \* history: uses that reached another actor than was meant

nodeVars == <<scene, boot, mailboxes, names>>
callVars == <<remote, pc, asked, held, sent, handler, answer, seen, failed>>
allVars == <<vars, nodeVars, callVars, strays>>

Ref(n) == [pid |-> tickets[n].pid, n |-> n, boot |-> boot]

Actors == 1 .. Len(tickets)

StartState ==
  /\ Init /\ scene \in Scenes
  /\ names = NoNames
  /\ mailboxes = {}
  /\ boot = 1 /\ strays = {}
  /\ remote \in BOOLEAN
  /\ pc = "idle" /\ asked = << >> /\ held = Unbound
  /\ sent = "nothing" /\ handler = "none" /\ answer = Unbound
  /\ seen = {} /\ failed = FALSE
-----------------------------------------------------------------------------
(* Actors *)

(* spawn_actor: the slot and the mailbox, under the slab's mutex. *)
Spawn ==
  /\ Len(tickets) < scene.actors
  /\ AllocateReused \/ (AllocateNew /\ Len(entries) < scene.slots)
  /\ LET n == Len(tickets')
     IN  mailboxes' = {m \in mailboxes : m.pid # tickets'[n].pid}
                        \cup {[pid |-> tickets'[n].pid, n |-> n]}
  /\ UNCHANGED <<scene, boot, names, callVars, strays>>

(* The end of an actor: its mailbox goes first ... *)
Close(n) ==
  /\ \E m \in mailboxes : m.n = n
  /\ mailboxes' = {m \in mailboxes : m.pid # tickets[n].pid}
  /\ UNCHANGED <<vars, scene, boot, names, callVars, strays>>

(* ... and later, once it is closed or was stopped, its slot. *)
Free(n) ==
  /\ Live(tickets[n])
  /\ \A m \in mailboxes : m.n # n
  /\ Deallocate(tickets[n].pid)
  /\ UNCHANGED <<nodeVars, callVars, strays>>
-----------------------------------------------------------------------------
(* Names *)

Asking == pc \in {"connect", "check", "read"}

(* A call in progress when a binding changes. *)
Witness == seen' = IF Asking THEN seen \cup {resolve(asked)'} ELSE seen

Elsewhere == UNCHANGED <<vars, scene, boot, mailboxes, remote, pc, asked, held, sent, handler,
                         answer, failed, strays>>

(* register of any pid a caller may have: its actor may have ended. *)
Register(name, n) == register(name, Ref(n)) /\ Elsewhere /\ Witness

Unregister(name) ==
  names[name] # Unbound /\ unregister(name) /\ Elsewhere /\ Witness

(* The end of a call: back to its caller with a reference or None. *)
Return(ref, err) ==
  /\ pc' = IF ref = Unbound THEN "none" ELSE "use"
  /\ held' = ref
  /\ failed' = err

(* resolve in the node's own process, the first half of send_named. *)
Whereis(name) ==
  /\ pc = "idle" /\ ~remote
  /\ Return(resolve(name), FALSE)
  /\ asked' = name
  /\ seen' = {resolve(name)}
  /\ UNCHANGED <<vars, nodeVars, remote, sent, handler, answer, strays>>

(* wait(pid) is called by someone who holds the pid of an actor. *)
Await(n) ==
  /\ pc = "idle" /\ ~remote
  /\ pc' = "wait"
  /\ held' = Ref(n)
  /\ UNCHANGED <<vars, nodeVars, remote, asked, sent, handler, answer, seen, failed, strays>>

(* mutant: an actor without a mailbox counts as ended *)
PollMailbox ==
  /\ pc = "wait"
  /\ \A m \in mailboxes : m.pid # held.pid
  /\ pc' = "joined"
  /\ UNCHANGED <<vars, nodeVars, remote, asked, held, sent, handler, answer, seen, failed, strays>>

(* wait polls is_alive until the pid is not valid. *)
PollAlive ==
  /\ pc = "wait"
  /\ ~is_valid(held.pid)
  /\ pc' = "joined"
  /\ UNCHANGED <<vars, nodeVars, remote, asked, held, sent, handler, answer, seen, failed, strays>>
-----------------------------------------------------------------------------
(* Using a reference *)

Freed(ref) == frees[tickets[ref.n].idx + 1] - tickets[ref.n].nth

(* What the mailbox table has under the pid is used, whoever it belongs to. *)
Reach(ref) ==
  strays' = strays \cup
    {[restarted |-> ref.boot # boot,
      freed |-> IF ref.boot # boot THEN 0 ELSE Freed(ref)] :
     m \in {x \in mailboxes : x.pid = ref.pid /\ <<x.n, boot>> # <<ref.n, ref.boot>>}}

(* The call is over; the caller may start another one, on a new connection. *)
Settle ==
  /\ pc' = "idle"
  /\ held' = Unbound
  /\ seen' = {}
  /\ failed' = FALSE
  /\ UNCHANGED <<remote, asked, sent, handler, answer>>

(* send: the second half of send_named, or send_remote and the User branch *)
(* of handle_connection.  Nothing comes back if there is no such mailbox.  *)
Send ==
  /\ pc = "use"
  /\ Reach(held)
  /\ Settle
  /\ UNCHANGED <<vars, nodeVars>>

(* stop: the mailbox under the pid is removed. *)
Stop ==
  /\ pc = "use" /\ ~remote
  /\ Reach(held)
  /\ mailboxes' = {m \in mailboxes : m.pid # held.pid}
  /\ Settle
  /\ UNCHANGED <<vars, scene, boot, names>>

(* The caller drops what it has, or a message to a node is lost. *)
Forget ==
  /\ pc \in {"use", "none", "joined"}
  /\ Settle
  /\ UNCHANGED <<vars, nodeVars, strays>>
-----------------------------------------------------------------------------
(* resolve_remote, the caller's side *)

(* The call; its connection is new. *)
Resolve(name) ==
  /\ pc = "idle" /\ remote /\ handler = "none"
  /\ pc' = "connect"
  /\ asked' = name
  /\ seen' = {resolve(name)}
  /\ UNCHANGED <<vars, nodeVars, remote, held, sent, handler, answer, failed, strays>>

(* Connect and write the version and the type; the node spawns a handler. *)
Connect ==
  /\ pc = "connect"
  /\ pc' = "check"
  /\ sent' = "head"
  /\ handler' = "head"
  /\ UNCHANGED <<vars, nodeVars, remote, asked, held, answer, seen, failed, strays>>

(* The stream is dropped with the call, whatever was written. *)
HangUp(ref, err) ==
  /\ Return(ref, err)
  /\ sent' = "nothing"
  /\ answer' = Unbound
  /\ UNCHANGED <<vars, nodeVars, remote, asked, handler, seen, strays>>

(* Behind the header the length of the name is checked, and the name sent. *)
WriteName ==
  /\ pc = "check"
  /\ Len(asked) <= ClientLimit
  /\ pc' = "read"
  /\ sent' = "name"
  /\ UNCHANGED <<vars, nodeVars, remote, asked, held, handler, answer, seen, failed, strays>>

NameTooLong ==
  pc = "check" /\ Len(asked) > ClientLimit /\ HangUp(Unbound, TRUE)

(* resolve_remote_async: 0 means that the name was not found. *)
ReadAnswer ==
  /\ pc = "read" /\ sent = "answer"
  /\ HangUp(IF answer = Unbound \/ answer.pid = 0 THEN Unbound ELSE answer, FALSE)

(* mutant: the answer is awaited without a timeout *)
CallFailsEarly == pc \in {"connect", "check"} /\ HangUp(Unbound, TRUE)

(* Each connect, write and read may fail, and ends by a timeout at last:   *)
(* the error becomes None.                                                 *)
CallFails == pc \in {"connect", "check", "read"} /\ HangUp(Unbound, TRUE)

CallStep == Connect \/ WriteName \/ NameTooLong \/ ReadAnswer \/ CallFails
-----------------------------------------------------------------------------
(* handle_connection, the node's side.  Of a connection the caller has     *)
(* dropped only the end is left: what its handler may still do, a look at  *)
(* the registry and a write that fails, changes nothing.                   *)

AtStep(from, to) ==
  /\ handler = from /\ sent # "nothing"
  /\ handler' = to
  /\ UNCHANGED <<vars, nodeVars, remote, pc, asked, held, seen, failed, strays>>

(* The version and the type. *)
ReadHead == AtStep("head", "name") /\ UNCHANGED <<sent, answer>>

(* The length, which has a limit of its own here, and the name. *)
ReadName ==
  /\ sent = "name" /\ Len(asked) <= ServerLimit
  /\ AtStep("name", "find")
  /\ UNCHANGED <<sent, answer>>

(* mutant: the name of an actor that has ended counts as unknown *)
FindAlive ==
  /\ AtStep("find", "reply")
  /\ LET ref == resolve(asked)
     IN  answer' = IF ref # Unbound /\ ~is_valid(ref.pid) THEN Unbound ELSE ref
  /\ UNCHANGED sent

(* resolve, with 0 for a name that is not bound ... *)
Find ==
  /\ AtStep("find", "reply")
  /\ answer' = resolve(asked)
  /\ UNCHANGED sent

(* ... and the write of what was found, which may be old by then. *)
Reply ==
  /\ AtStep("reply", "next")
  /\ sent' = "answer"
  /\ UNCHANGED answer

(* A read fails: the caller is gone, is too slow or sent too long a name. *)
HandlerEnds ==
  /\ handler # "none"
  /\ handler' = "none"
  /\ UNCHANGED <<vars, nodeVars, remote, pc, asked, held, sent, answer, seen, failed, strays>>

HandlerStep == ReadHead \/ ReadName \/ Find \/ Reply \/ HandlerEnds
-----------------------------------------------------------------------------
(* The node's process ends and is started again: nothing is kept, and the  *)
(* slab issues the same pids again.                                        *)
Restart ==
  /\ boot < scene.boots
  /\ boot' = boot + 1
  /\ entries' = << >> /\ free_list' = << >> /\ frees' = << >> /\ tickets' = << >>
  /\ names' = NoNames /\ mailboxes' = {}
  /\ handler' = "none"
  /\ pc' = IF remote THEN pc ELSE "idle"
  /\ held' = IF remote THEN held ELSE Unbound
  /\ UNCHANGED <<scene, remote, asked, sent, answer, failed, strays>>
  /\ Witness

NodeStep ==
  \/ Spawn
  \/ \E n \in Actors : Close(n) \/ Free(n)
  \/ \E name \in Names : Unregister(name)
  \/ \E name \in scene.names, n \in Actors : Register(name, n)
  \/ Restart

UseStep ==
  \/ \E name \in Asked : Whereis(name) \/ Resolve(name)
  \/ \E n \in Actors : Await(n)
  \/ Send \/ Stop \/ Forget

Step == NodeStep \/ UseStep \/ PollAlive \/ CallStep \/ HandlerStep

Discover == StartState /\ [][Step]_allVars

(* The tasks of calls, handlers and wait are polled, and each wait in them *)
(* has a timeout.                                                          *)
FairDiscover ==
  /\ Discover
  /\ WF_allVars(CallStep)
  /\ WF_allVars(HandlerStep)
  /\ WF_allVars(PollAlive)
-----------------------------------------------------------------------------
(* A message or a stop reaches the actor its pid was issued for or nobody  *)
(* (lib.rs:388, :669, network.rs:167), however old the name or the pid is, *)
(* unless the slot was freed GenMod times since or, for a remote caller,   *)
(* the node was started anew.                                              *)
StraysExplained == \A s \in strays : s.restarted \/ s.freed >= GenMod

(* resolve_remote (lib.rs:351) answers with what the name was bound to at  *)
(* some moment of the call.  None means that it was not bound then, that   *)
(* the call failed, or that it was bound to the pid 0.                     *)
AnswerWasBound ==
  /\ pc = "use" => held \in seen
  /\ pc = "none" => failed \/ Unbound \in seen \/ \E r \in seen : r.pid = 0

(* A remote call and its handler on the node both end (network.rs:93),     *)
(* also when the name is refused behind the header or the node restarts.   *)
CallsEnd == []<>(~Asking /\ handler = "none")

Over(ref) == Freed(ref) > 0

(* wait (lib.rs:393) returns once the actor has ended and not before, also *)
(* if it was stopped earlier, and also if its slot has a new owner by      *)
(* then.                                                                   *)
WaitReturns ==
  /\ [](pc = "joined" => Over(held))
  /\ (pc = "wait" /\ Over(held)) ~> (pc # "wait" \/ Freed(held) >= GenMod)
=============================================================================
