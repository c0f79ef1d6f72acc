------------------------------ MODULE PeerPool ------------------------------
(***************************************************************************)
(* Remote sends to one peer (src/network.rs): the task of every            *)
(* Runtime::send_remote call, the entry of PEER_POOL for the peer's        *)
(* address, the writer task and the bounded channel of each connection,    *)
(* and handle_connection at the other end.                                 *)
(*                                                                         *)
(* A message is a model value; its frame is written and read whole.        *)
(* Faults names what may go wrong: "refuse" a connect that fails or times  *)
(* out, "break" a connection that dies with what is on it, "idle" the read *)
(* timeout of handle_connection on a connection nobody has written to,     *)
(* "stall" the write timeout of the writer on a peer that does not read.   *)
(***************************************************************************)
EXTENDS Integers, Sequences, FiniteSets

CONSTANTS Msgs,      \* messages, one send_remote call each
          MaxConns,  \* bound of the model: connections opened
          Cap,       \* capacity of a connection's channel: 1024 in the code
          Faults,    \* what may go wrong
          MaxDown    \* bound of the model: a connection fails while fewer are down

ASSUME PeerPoolAssumption ==
  /\ MaxConns \in Nat \ {0} /\ Cap \in Nat \ {0} /\ MaxDown \in Nat
  /\ Faults \subseteq {"refuse", "break", "idle", "stall"}

Conns == 1 .. MaxConns
NoConn == 0

VARIABLES
  pool,       \* the connection in PEER_POOL, or NoConn
  task,       \* of each message: the step, its connection, the number of tries
  chan,       \* the mpsc channel of each connection
  writer,     \* the writer task of each connection
  socket,     \* what a write on the connection meets
  wire,       \* frames written and not yet read
  server,     \* handle_connection at the peer
  delivered   \* history: how often the remote runtime was given each message

connVars == <<chan, writer, socket, wire, server>>
vars == <<pool, task, connVars, delivered>>

Elems(s) == {s[i] : i \in 1 .. Len(s)}

Init ==
  /\ pool = NoConn
  /\ task = [m \in Msgs |-> [pc |-> "idle", conn |-> NoConn, tries |-> 0]]
  /\ chan = [c \in Conns |-> << >>] /\ wire = [c \in Conns |-> << >>]
  /\ writer = [c \in Conns |-> "none"] /\ server = [c \in Conns |-> "none"]
  /\ socket = [c \in Conns |-> "ok"]
  /\ delivered = [m \in Msgs |-> 0]

GotoOn(m, pc, c) ==
  task' = [task EXCEPT ![m] = [pc |-> pc, conn |-> c, tries |-> task[m].tries]]
Goto(m, pc) == GotoOn(m, pc, task[m].conn)

(* Clones of a connection's sender: the pool's and those of the tasks. *)
Held(c) ==
  \/ pool = c
  \/ \E m \in Msgs : task[m].conn = c /\ task[m].pc \in {"insert", "send"}
-----------------------------------------------------------------------------
(* send_remote and get_or_connect_peer *)

(* PEER_POOL.get, for the first time or for the retry *)
Lookup(m, try) ==
  /\ task' = [task EXCEPT ![m] = [pc |-> IF pool = NoConn THEN "connect" ELSE "send",
                                  conn |-> pool, tries |-> try]]
  /\ UNCHANGED <<pool, connVars, delivered>>

(* send_remote is called: the frame is built, then the pool is asked. *)
Begin(m) == task[m].pc = "idle" /\ Lookup(m, 1)

Get(m) == task[m].pc = "get" /\ Lookup(m, 2)

(* TcpStream::connect and the version byte: the peer starts a handler. *)
Connect(m) ==
  /\ task[m].pc = "connect"
  /\ \E c \in Conns :
       /\ server[c] = "none" /\ \A d \in Conns : d < c => server[d] # "none"
       /\ server' = [server EXCEPT ![c] = "up"]
       /\ GotoOn(m, "insert", c)
  /\ UNCHANGED <<pool, chan, writer, socket, wire, delivered>>

Refused(m) ==
  /\ task[m].pc = "connect" /\ "refuse" \in Faults
  /\ Goto(m, "err")
  /\ UNCHANGED <<pool, connVars, delivered>>

(* PEER_POOL.insert, over whatever is there, and the writer is spawned. *)
Insert(m) ==
  /\ task[m].pc = "insert"
  /\ pool' = task[m].conn
  /\ writer' = [writer EXCEPT ![task[m].conn] = "run"]
  /\ Goto(m, "send")
  /\ UNCHANGED <<chan, socket, wire, server, delivered>>

(* mutant: a writer about to leave is retried after the message was queued *)
SendTwice(m) ==
  LET c == task[m].conn
  IN  /\ task[m].pc = "send" /\ writer[c] # "gone" /\ Len(chan[c]) < Cap
      /\ chan' = [chan EXCEPT ![c] = Append(@, m)]
      /\ Goto(m, IF writer[c] = "leave" /\ task[m].tries = 1 THEN "clear" ELSE "ok")
      /\ UNCHANGED <<pool, writer, socket, wire, server, delivered>>

(* mutant: waits for room even when the writer is gone *)
SendAwaits(m) ==
  LET c == task[m].conn
  IN  /\ task[m].pc = "send" /\ writer[c] # "gone" /\ Len(chan[c]) < Cap
      /\ chan' = [chan EXCEPT ![c] = Append(@, m)]
      /\ Goto(m, "ok")
      /\ UNCHANGED <<pool, writer, socket, wire, server, delivered>>

(* sender.send: waits for room; fails once the writer has dropped the      *)
(* receiver, the first time with a retry.                                  *)
Send(m) ==
  LET c == task[m].conn
  IN  /\ task[m].pc = "send"
      /\ \/ /\ writer[c] # "gone" /\ Len(chan[c]) < Cap
            /\ chan' = [chan EXCEPT ![c] = Append(@, m)]
            /\ Goto(m, "ok")
         \/ /\ writer[c] = "gone"
            /\ Goto(m, IF task[m].tries = 1 THEN "clear" ELSE "err")
            /\ UNCHANGED chan
      /\ UNCHANGED <<pool, writer, socket, wire, server, delivered>>

(* PEER_POOL.remove, whichever connection is in it by now, and once more. *)
Clear(m) ==
  /\ task[m].pc = "clear"
  /\ pool' = NoConn
  /\ Goto(m, "get")
  /\ UNCHANGED <<connVars, delivered>>

SendStep(m) == Get(m) \/ Connect(m) \/ Refused(m) \/ Insert(m) \/ Send(m) \/ Clear(m)
-----------------------------------------------------------------------------
(* A connection has failed: closed by the peer, or dead for its writer. *)
Failed(c) == server[c] = "down" \/ socket[c] = "dead"

MayFail(f) == f \in Faults /\ Cardinality({c \in Conns : Failed(c)}) < MaxDown

(* The writer task of a connection *)

(* A write reaches the wire, or times out with the frame incomplete: what  *)
(* was written before it is still read.  Once the peer has closed, the     *)
(* kernel takes one more write, for nothing, and refuses the next.         *)
Write(c) ==
  /\ writer[c] = "run" /\ chan[c] # << >>
  /\ chan' = [chan EXCEPT ![c] = Tail(@)]
  /\ \/ /\ socket[c] = "ok" /\ server[c] = "up"
        /\ wire' = [wire EXCEPT ![c] = Append(@, Head(chan[c]))]
        /\ UNCHANGED <<writer, socket>>
     \/ /\ socket[c] = "ok" /\ server[c] = "up" /\ MayFail("stall")
        /\ socket' = [socket EXCEPT ![c] = "dead"]
        /\ writer' = [writer EXCEPT ![c] = "leave"]
        /\ UNCHANGED wire
     \/ /\ socket[c] = "ok" /\ server[c] = "down"
        /\ socket' = [socket EXCEPT ![c] = "dead"]
        /\ UNCHANGED <<writer, wire>>
     \/ /\ socket[c] = "dead"
        /\ writer' = [writer EXCEPT ![c] = "leave"]
        /\ UNCHANGED <<socket, wire>>
  /\ UNCHANGED <<pool, task, server, delivered>>

(* mutant: ends when the pool has another connection *)
DrainReplaced(c) ==
  /\ writer[c] = "run" /\ pool # c
  /\ writer' = [writer EXCEPT ![c] = "leave"]
  /\ UNCHANGED <<pool, task, chan, socket, wire, server, delivered>>

(* recv returns None: the channel is empty and every sender is dropped. *)
Drained(c) ==
  /\ writer[c] = "run" /\ chan[c] = << >> /\ ~Held(c)
  /\ writer' = [writer EXCEPT ![c] = "leave"]
  /\ UNCHANGED <<pool, task, chan, socket, wire, server, delivered>>

(* mutant: the pool is left alone *)
LeaveEntry(c) ==
  /\ writer[c] = "leave"
  /\ writer' = [writer EXCEPT ![c] = "gone"]
  /\ chan' = [chan EXCEPT ![c] = << >>]
  /\ UNCHANGED <<pool, task, socket, wire, server, delivered>>

(* PEER_POOL.remove by address; the receiver is dropped after it, with     *)
(* what is still queued.                                                   *)
Leave(c) ==
  /\ writer[c] = "leave"
  /\ pool' = NoConn
  /\ writer' = [writer EXCEPT ![c] = "gone"]
  /\ chan' = [chan EXCEPT ![c] = << >>]
  /\ UNCHANGED <<task, socket, wire, server, delivered>>

WriterStep(c) == Write(c) \/ Drained(c) \/ Leave(c)
-----------------------------------------------------------------------------
(* The peer *)

(* handle_connection reads a User frame and calls Runtime::send. *)
Handle(c) ==
  /\ server[c] = "up" /\ wire[c] # << >>
  /\ wire' = [wire EXCEPT ![c] = Tail(@)]
  /\ delivered' = [delivered EXCEPT ![Head(wire[c])] = @ + 1]
  /\ UNCHANGED <<pool, task, chan, writer, socket, server>>

(* The read of the next header times out, or ends with the connection. *)
HandlerEnds(c) ==
  /\ server[c] = "up" /\ wire[c] = << >>
  /\ MayFail("idle") \/ writer[c] = "gone"
  /\ server' = [server EXCEPT ![c] = "down"]
  /\ UNCHANGED <<pool, task, chan, writer, socket, wire, delivered>>

(* The connection breaks. *)
Break(c) ==
  /\ MayFail("break") /\ server[c] = "up"
  /\ server' = [server EXCEPT ![c] = "down"]
  /\ wire' = [wire EXCEPT ![c] = << >>]
  /\ socket' = [socket EXCEPT ![c] = "dead"]
  /\ UNCHANGED <<pool, task, chan, writer, delivered>>

Next ==
  \/ \E m \in Msgs : Begin(m) \/ SendStep(m)
  \/ \E c \in Conns : WriterStep(c) \/ Handle(c) \/ HandlerEnds(c) \/ Break(c)

Spec == Init /\ [][Next]_vars

(* Every task that can go on is polled; connect, write and read have        *)
(* timeouts, so none of them blocks for good.                              *)
Fairness ==
  /\ \A m \in Msgs : WF_vars(SendStep(m))
  /\ \A c \in Conns : WF_vars(WriterStep(c)) /\ WF_vars(Handle(c))

FairSpec == Spec /\ Fairness
-----------------------------------------------------------------------------
(* Where a message is, outside its task. *)
Queued(m) ==
  {<<"chan", c>> : c \in {d \in Conns : m \in Elems(chan[d])}} \cup
  {<<"wire", c>> : c \in {d \in Conns : m \in Elems(wire[d])}}

(* send_remote puts its message on the way at most once, and not at all if *)
(* it returns an error: until it is delivered it is in one place at most,  *)
(* then in none (network.rs:259).                                          *)
AtMostOnce ==
  \A m \in Msgs :
    Cardinality(Queued(m)) + delivered[m] <= IF task[m].pc = "err" THEN 0 ELSE 1

(* PEER_POOL never holds a connection whose writer is gone: only a task    *)
(* that took its sender before can still meet a closed channel.            *)
NoDeadEntry == pool # NoConn => writer[pool] \in {"run", "leave"}

(* Every send_remote returns, also when it waits for room in the channel   *)
(* of a writer that fails (network.rs:260).                                *)
SendReturns == \A m \in Msgs : task[m].pc # "idle" ~> task[m].pc \in {"ok", "err"}

(* What send_remote accepted is delivered unless the very connection it    *)
(* was handed to is closed by the peer, breaks or is given up by its       *)
(* writer when a write times out (network.rs:118), also when that          *)
(* connection has lost its place in PEER_POOL to another one               *)
(* (network.rs:231).                                                       *)
AcceptedIsDelivered ==
  \A m \in Msgs :
    task[m].pc = "ok" ~>
      delivered[m] > 0 \/ \E c \in Conns : task[m].conn = c /\ Failed(c)
=============================================================================
