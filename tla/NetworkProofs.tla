--------------------------- MODULE NetworkProofs ---------------------------
(***************************************************************************)
(* Proofs about network.rs: remote sends (PeerPool), for any number of     *)
(* messages and connections, any capacity and any faults, and the remote   *)
(* monitor (Monitor), for every threshold and back-off.  The inductive     *)
(* invariant of the sends says that the channels and wires of all          *)
(* connections are disjoint and repeat nothing, and that a message is in   *)
(* one of them, or was delivered, only after its send_remote has returned  *)
(* Ok.                                                                     *)
(***************************************************************************)
EXTENDS PeerPool, Monitor, FiniteSetTheorems, SequenceTheorems, TLAPS

Types ==
  /\ pool \in 0 .. MaxConns
  /\ task \in [Msgs -> [pc : {"idle", "get", "connect", "insert", "send", "clear", "ok", "err"},
                        conn : 0 .. MaxConns, tries : {0, 1, 2}]]
  /\ chan \in [Conns -> Seq(Msgs)] /\ wire \in [Conns -> Seq(Msgs)]
  /\ writer \in [Conns -> {"none", "run", "leave", "gone"}]
  /\ delivered \in [Msgs -> Nat]

(* A task that holds a sender holds that of a connection. *)
HoldsInv == \A m \in Msgs : task[m].pc \in {"insert", "send"} => task[m].conn \in Conns

Distinct(s) == \A i, j \in 1 .. Len(s) : s[i] = s[j] => i = j

(* The message m is in no channel, or on no wire. *)
NotQueued(m) == \A c \in Conns : m \notin Elems(chan[c])
NotWired(m) == \A c \in Conns : m \notin Elems(wire[c])

(* No message is in two places. *)
ApartInv ==
  /\ \A c \in Conns : Distinct(chan[c]) /\ Distinct(wire[c])
  /\ \A c, d \in Conns : \A m \in Msgs :
       /\ m \in Elems(chan[c]) /\ m \in Elems(chan[d]) => c = d
       /\ m \in Elems(wire[c]) /\ m \in Elems(wire[d]) => c = d
       /\ m \in Elems(chan[c]) => m \notin Elems(wire[d])

(* Only accepted messages are anywhere, and delivered ones nowhere else. *)
AcceptedInv ==
  \A m \in Msgs :
    /\ delivered[m] \in {0, 1}
    /\ task[m].pc # "ok" => delivered[m] = 0
    /\ delivered[m] = 1 \/ task[m].pc # "ok" => NotQueued(m) /\ NotWired(m)

Inv == Types /\ HoldsInv /\ NoDeadEntry /\ ApartInv /\ AcceptedInv
-----------------------------------------------------------------------------
LEMMA PoolBounds == MaxConns \in Nat \ {0} /\ Cap \in Nat \ {0}
BY PeerPoolAssumption

LEMMA Updated ==
  ASSUME NEW S, NEW T, NEW f \in [S -> T], NEW x \in S, NEW y \in T
  PROVE  [f EXCEPT ![x] = y] \in [S -> T]
OBVIOUS

LEMMA EmptyElems == Elems(<< >>) = {} /\ Distinct(<< >>) /\ << >> \in Seq(Msgs)
BY DEF Elems, Distinct

LEMMA AppendElems ==
  ASSUME NEW s \in Seq(Msgs), NEW m \in Msgs
  PROVE  /\ Append(s, m) \in Seq(Msgs)
         /\ Elems(Append(s, m)) = Elems(s) \cup {m}
         /\ Distinct(s) /\ m \notin Elems(s) => Distinct(Append(s, m))
<1>1. /\ Append(s, m) \in Seq(Msgs) /\ Len(s) \in Nat
      /\ Len(Append(s, m)) = Len(s) + 1
      /\ \A i \in 1 .. Len(s) : Append(s, m)[i] = s[i]
      /\ Append(s, m)[Len(s) + 1] = m
  BY AppendProperties
<1>2. Elems(Append(s, m)) = Elems(s) \cup {m}
  <2>1. 1 .. Len(s) + 1 = (1 .. Len(s)) \cup {Len(s) + 1}
    BY <1>1
  <2> QED
    BY <1>1, <2>1 DEF Elems
<1>3. ASSUME Distinct(s), m \notin Elems(s) PROVE Distinct(Append(s, m))
  BY <1>1, <1>3 DEF Distinct, Elems
<1> QED
  BY <1>1, <1>2, <1>3

LEMMA TailElems ==
  ASSUME NEW s \in Seq(Msgs), s # << >>, Distinct(s)
  PROVE  /\ Tail(s) \in Seq(Msgs) /\ Distinct(Tail(s))
         /\ Head(s) \in Msgs /\ Head(s) \in Elems(s)
         /\ Elems(Tail(s)) = Elems(s) \ {Head(s)}
<1>1. /\ Tail(s) \in Seq(Msgs) /\ Head(s) \in Msgs
      /\ Len(s) \in Nat /\ Len(s) > 0 /\ Head(s) = s[1]
      /\ Len(Tail(s)) = Len(s) - 1
      /\ \A i \in 1 .. Len(Tail(s)) : Tail(s)[i] = s[i + 1]
  BY HeadTailProperties, EmptySeq
<1>2. Distinct(Tail(s))
  BY <1>1 DEF Distinct
<1>3. Head(s) \in Elems(s)
  BY <1>1 DEF Elems
<1>4. ASSUME NEW x PROVE x \in Elems(Tail(s)) <=> x \in Elems(s) /\ x # Head(s)
  <2>1. ASSUME x \in Elems(Tail(s)) PROVE x \in Elems(s) /\ x # Head(s)
    <3>1. PICK i \in 1 .. Len(Tail(s)) : x = Tail(s)[i]
      BY <2>1 DEF Elems
    <3>2. i + 1 \in 1 .. Len(s) /\ x = s[i + 1] /\ i + 1 # 1
      BY <1>1, <3>1
    <3> QED
      BY <1>1, <3>2 DEF Elems, Distinct
  <2>2. ASSUME x \in Elems(s), x # Head(s) PROVE x \in Elems(Tail(s))
    <3>1. PICK i \in 1 .. Len(s) : x = s[i]
      BY <2>2 DEF Elems
    <3>2. i - 1 \in 1 .. Len(Tail(s)) /\ x = Tail(s)[i - 1]
      BY <1>1, <2>2, <3>1
    <3> QED
      BY <3>2 DEF Elems
  <2> QED
    BY <2>1, <2>2
<1> QED
  BY <1>1, <1>2, <1>3, <1>4
-----------------------------------------------------------------------------
LEMMA InvInit == Init => Inv
BY PoolBounds, EmptyElems
DEF Init, Inv, Types, HoldsInv, NoDeadEntry, ApartInv, AcceptedInv, NotQueued, NotWired,
    NoConn, Conns

(* The steps of a task that hand its message to nobody. *)
LEMMA TaskKeeps ==
  ASSUME Inv, NEW m \in Msgs,
         Begin(m) \/ Get(m) \/ Connect(m) \/ Refused(m) \/ Insert(m) \/ Clear(m)
  PROVE  Inv'
<1> USE PoolBounds DEF Inv, Conns, NoConn
<1>1. /\ chan' = chan /\ wire' = wire /\ delivered' = delivered
      /\ \A n \in Msgs : task'[n].pc = "ok" <=> task[n].pc = "ok"
  <2>1. chan' = chan /\ wire' = wire /\ delivered' = delivered
    BY DEF Begin, Get, Lookup, Connect, Refused, Insert, Clear, connVars
  <2>2. task[m].pc # "ok"
    BY DEF Begin, Get, Connect, Refused, Insert, Clear
  <2>3. PICK pc \in {"get", "connect", "insert", "send", "err"} : \E c, try :
          task' = [task EXCEPT ![m] = [pc |-> pc, conn |-> c, tries |-> try]]
    BY DEF Begin, Get, Lookup, Connect, Refused, Insert, Clear, Goto, GotoOn
  <2>4. task'[m].pc = pc /\ \A n \in Msgs : n # m => task'[n] = task[n]
    BY <2>3 DEF Types
  <2> QED
    BY <2>1, <2>2, <2>4
<1>2. ApartInv' /\ AcceptedInv'
  BY <1>1 DEF ApartInv, AcceptedInv, NotQueued, NotWired
<1>3. CASE Begin(m) \/ Get(m)
  <2>1. PICK try \in {1, 2} : Lookup(m, try)
    BY <1>3 DEF Begin, Get
  <2>2. pool' = pool /\ writer' = writer
    BY <2>1 DEF Lookup, connVars
  <2>3. Types'
    BY <1>1, <2>1, <2>2 DEF Types, Lookup
  <2>4. HoldsInv'
    BY <2>1 DEF Types, HoldsInv, Lookup
  <2> QED
    BY <1>2, <2>2, <2>3, <2>4 DEF NoDeadEntry
<1>4. CASE Connect(m)
  BY <1>2, <1>4 DEF Types, HoldsInv, NoDeadEntry, Connect, GotoOn
<1>5. CASE Refused(m)
  BY <1>2, <1>5 DEF Types, HoldsInv, NoDeadEntry, Refused, Goto, GotoOn, connVars
<1>6. CASE Insert(m)
  <2>1. /\ task[m].conn \in Conns /\ pool' = task[m].conn
        /\ writer' = [writer EXCEPT ![task[m].conn] = "run"]
        /\ task' = [task EXCEPT ![m] = [pc |-> "send", conn |-> task[m].conn,
                                       tries |-> task[m].tries]]
    BY <1>6 DEF HoldsInv, Insert, Goto, GotoOn
  <2>2. Types'
    <3>1. task[m].conn \in 0 .. MaxConns /\ task[m].tries \in {0, 1, 2}
      BY DEF Types
    <3>2. [pc |-> "send", conn |-> task[m].conn, tries |-> task[m].tries]
            \in [pc : {"idle", "get", "connect", "insert", "send", "clear", "ok", "err"},
                 conn : 0 .. MaxConns, tries : {0, 1, 2}]
      BY <3>1
    <3> QED
      BY Zenon, <1>1, <2>1, <3>1, <3>2 DEF Types
  <2>3. HoldsInv'
    BY <2>1 DEF Types, HoldsInv
  <2>4. NoDeadEntry'
    BY <2>1 DEF Types, NoDeadEntry
  <2> QED
    BY <1>2, <2>2, <2>3, <2>4
<1>7. CASE Clear(m)
  <2>1. /\ pool' = NoConn /\ writer' = writer
        /\ task' = [task EXCEPT ![m] = [pc |-> "get", conn |-> task[m].conn,
                                       tries |-> task[m].tries]]
    BY <1>7 DEF Clear, Goto, GotoOn, connVars
  <2>2. Types'
    BY <1>1, <2>1 DEF Types
  <2>3. HoldsInv'
    BY <2>1 DEF Types, HoldsInv
  <2> QED
    BY <1>2, <2>1, <2>2, <2>3 DEF NoDeadEntry
<1> QED
  BY <1>3, <1>4, <1>5, <1>6, <1>7

LEMMA SendKeeps ==
  ASSUME Inv, NEW m \in Msgs, Send(m)
  PROVE  Inv'
<1> USE PoolBounds DEF Inv, Conns, NoConn
<1> DEFINE c == task[m].conn
<1>1. c \in Conns /\ task[m].pc = "send" /\ chan[c] \in Seq(Msgs)
  BY DEF Types, HoldsInv, Send
<1>2. CASE chan' = chan
  <2>1. Types' /\ HoldsInv' /\ NoDeadEntry'
    <3>1. PICK pc \in {"ok", "err", "clear"} :
            task' = [task EXCEPT ![m] = [pc |-> pc, conn |-> c, tries |-> task[m].tries]]
      BY DEF Send, Goto, GotoOn
    <3>2. pool' = pool /\ writer' = writer /\ wire' = wire /\ delivered' = delivered
      BY DEF Send
    <3>3. Types'
      BY <1>1, <1>2, <3>1, <3>2 DEF Types
    <3>4. HoldsInv'
      BY <3>1 DEF Types, HoldsInv
    <3> QED
      BY <3>2, <3>3, <3>4 DEF NoDeadEntry
  <2>2. \A n \in Msgs : task'[n].pc = "ok" <=> task[n].pc = "ok"
    <3>1. chan[c] # Append(chan[c], m)
      BY <1>1, AppendProperties
    <3>2. chan' # [chan EXCEPT ![c] = Append(@, m)]
      BY <1>1, <1>2, <3>1 DEF Types
    <3>3. \E pc \in {"err", "clear"} : Goto(m, pc)
      BY <3>2 DEF Send
    <3> QED
      BY <1>1, <3>3 DEF Types, Goto, GotoOn
  <2>3. wire' = wire /\ delivered' = delivered
    BY DEF Send
  <2> QED
    BY <1>2, <2>1, <2>2, <2>3 DEF ApartInv, AcceptedInv, NotQueued, NotWired
<1>3. CASE chan' = [chan EXCEPT ![c] = Append(@, m)] /\ Goto(m, "ok")
  <2>1. /\ Append(chan[c], m) \in Seq(Msgs)
        /\ Elems(Append(chan[c], m)) = Elems(chan[c]) \cup {m}
        /\ Distinct(chan[c]) /\ m \notin Elems(chan[c]) => Distinct(Append(chan[c], m))
    BY <1>1, AppendElems
  <2>2. Types' /\ HoldsInv' /\ NoDeadEntry'
    BY Zenon, <1>1, <1>3, <2>1 DEF Types, HoldsInv, NoDeadEntry, Send, Goto, GotoOn
  <2>3. NotQueued(m) /\ NotWired(m) /\ delivered[m] = 0
    BY <1>1 DEF AcceptedInv
  <2>4. /\ wire' = wire /\ delivered' = delivered
        /\ \A d \in Conns : chan'[d] = IF d = c THEN Append(chan[c], m) ELSE chan[d]
        /\ \A n \in Msgs : n # m => task'[n] = task[n]
        /\ task'[m].pc = "ok"
    BY <1>1, <1>3 DEF Types, Send, Goto, GotoOn
  <2> HIDE DEF c
  <2>5. ApartInv'
    <3>1. \A d \in Conns : Distinct(chan'[d]) /\ Distinct(wire'[d])
      BY <1>1, <2>1, <2>3, <2>4 DEF ApartInv, NotQueued
    <3>2. \A d \in Conns, n \in Msgs :
            n \in Elems(chan'[d]) <=> n \in Elems(chan[d]) \/ (d = c /\ n = m)
      BY <1>1, <2>1, <2>4
    <3> QED
      BY <2>3, <2>4, <3>1, <3>2 DEF ApartInv, NotQueued, NotWired
  <2>6. AcceptedInv'
    BY <1>1, <2>1, <2>3, <2>4 DEF AcceptedInv, NotQueued, NotWired
  <2> QED
    BY <2>2, <2>5, <2>6
<1> QED
  BY <1>2, <1>3 DEF Send

(* The first message of a channel moves to the wire, or is lost. *)
LEMMA WriteKeeps ==
  ASSUME Inv, NEW c \in Conns, Write(c)
  PROVE  Inv'
<1> USE PoolBounds DEF Inv, Conns, NoConn
<1> DEFINE m == Head(chan[c])
<1>1. /\ chan[c] \in Seq(Msgs) /\ wire[c] \in Seq(Msgs) /\ chan[c] # << >>
      /\ Distinct(chan[c]) /\ Distinct(wire[c])
  BY DEF Types, ApartInv, Write
<1>2. /\ Tail(chan[c]) \in Seq(Msgs) /\ Distinct(Tail(chan[c]))
      /\ m \in Msgs /\ m \in Elems(chan[c])
      /\ Elems(Tail(chan[c])) = Elems(chan[c]) \ {m}
  BY <1>1, TailElems
<1>3. /\ task' = task /\ delivered' = delivered /\ pool' = pool
      /\ \A d \in Conns : chan'[d] = IF d = c THEN Tail(chan[c]) ELSE chan[d]
  BY DEF Types, Write
<1>4. HoldsInv' /\ NoDeadEntry'
  <2>1. \A d \in Conns : writer'[d] \in {writer[d], "leave"}
    BY Zenon DEF Types, Write
  <2> QED
    BY <1>3, <2>1 DEF Types, HoldsInv, NoDeadEntry
<1>5. CASE wire' = wire
  <2>1. Types'
    BY Zenon, <1>2, <1>3, <1>5 DEF Types, Write
  <2>2. ApartInv' /\ AcceptedInv'
    BY <1>2, <1>3, <1>5 DEF ApartInv, AcceptedInv, NotQueued, NotWired
  <2> QED
    BY <1>4, <2>1, <2>2
<1>6. CASE wire' = [wire EXCEPT ![c] = Append(@, m)]
  <2>1. m \notin Elems(wire[c])
    BY <1>2 DEF ApartInv
  <2>2. /\ Append(wire[c], m) \in Seq(Msgs) /\ Distinct(Append(wire[c], m))
        /\ Elems(Append(wire[c], m)) = Elems(wire[c]) \cup {m}
    BY <1>1, <1>2, <2>1, AppendElems
  <2>3. Types'
    BY Zenon, <1>2, <1>3, <1>6, <2>2 DEF Types, Write
  <2>4. \A d \in Conns : wire'[d] = IF d = c THEN Append(wire[c], m) ELSE wire[d]
    BY <1>6 DEF Types
  <2>5. ApartInv'
    BY <1>2, <1>3, <2>2, <2>4 DEF ApartInv
  <2>6. AcceptedInv'
    BY <1>2, <1>3, <2>2, <2>4 DEF AcceptedInv, NotQueued, NotWired
  <2> QED
    BY <1>4, <2>3, <2>5, <2>6
<1> QED
  BY <1>5, <1>6 DEF Write

LEMMA LeaveKeeps ==
  ASSUME Inv, NEW c \in Conns, Drained(c) \/ Leave(c)
  PROVE  Inv'
<1> USE PoolBounds DEF Inv, Conns, NoConn
<1>1. CASE Drained(c)
  <2>1. /\ UNCHANGED <<pool, task, chan, wire, delivered>>
        /\ \A d \in Conns : writer'[d] \in {writer[d], "leave"}
    BY <1>1 DEF Types, Drained
  <2>2. Types'
    BY Zenon, <1>1, <2>1 DEF Types, Drained
  <2>3. HoldsInv' /\ NoDeadEntry'
    BY <2>1 DEF Types, HoldsInv, NoDeadEntry
  <2> QED
    BY <2>1, <2>2, <2>3 DEF ApartInv, AcceptedInv, NotQueued, NotWired
<1>2. CASE Leave(c)
  <2>1. /\ task' = task /\ delivered' = delivered /\ wire' = wire /\ pool' = NoConn
        /\ \A d \in Conns : chan'[d] = IF d = c THEN << >> ELSE chan[d]
    BY <1>2 DEF Types, Leave
  <2>2. Types' /\ HoldsInv' /\ NoDeadEntry'
    BY <1>2, <2>1, EmptyElems DEF Types, HoldsInv, NoDeadEntry, Leave
  <2>3. ApartInv' /\ AcceptedInv'
    BY <2>1, EmptyElems DEF ApartInv, AcceptedInv, NotQueued, NotWired
  <2> QED
    BY <2>2, <2>3
<1> QED
  BY <1>1, <1>2

LEMMA PeerKeeps ==
  ASSUME Inv, NEW c \in Conns, Handle(c) \/ HandlerEnds(c) \/ Break(c)
  PROVE  Inv'
<1> USE PoolBounds DEF Inv, Conns, NoConn
<1>1. /\ task' = task /\ chan' = chan /\ pool' = pool /\ writer' = writer
  BY DEF Handle, HandlerEnds, Break
<1>2. HoldsInv' /\ NoDeadEntry'
  BY <1>1 DEF HoldsInv, NoDeadEntry
<1>3. CASE Handle(c)
  <2>1. PICK m \in Msgs :
          /\ m = Head(wire[c]) /\ m \in Elems(wire[c])
          /\ Tail(wire[c]) \in Seq(Msgs) /\ Distinct(Tail(wire[c]))
          /\ Elems(Tail(wire[c])) = Elems(wire[c]) \ {m}
    BY Zenon, <1>3, TailElems DEF Types, ApartInv, Handle
  <2>2. /\ \A d \in Conns : wire'[d] = IF d = c THEN Tail(wire[c]) ELSE wire[d]
        /\ \A n \in Msgs : delivered'[n] = IF n = m THEN delivered[m] + 1 ELSE delivered[n]
    BY <1>3, <2>1 DEF Types, Handle
  <2>3. Types'
    <3>1. /\ wire' = [wire EXCEPT ![c] = Tail(wire[c])]
          /\ delivered' = [delivered EXCEPT ![m] = delivered[m] + 1]
      BY Zenon, <1>3, <2>1 DEF Handle
    <3>2. m \in Msgs /\ Tail(wire[c]) \in Seq(Msgs)
      BY Zenon, <2>1
    <3>3. delivered[m] + 1 \in Nat
      BY <3>2 DEF Types
    <3> QED
      BY Zenon, <1>1, <3>1, <3>2, <3>3, Updated DEF Types
  <2>4. ApartInv'
    <3>1. \A d \in Conns : Distinct(wire'[d]) /\ Elems(wire'[d]) \subseteq Elems(wire[d])
      BY <2>1, <2>2 DEF ApartInv
    <3> QED
      BY <1>1, <3>1 DEF ApartInv
  <2>5. delivered[m] = 0 /\ task[m].pc = "ok"
    BY <2>1 DEF AcceptedInv, NotWired
  <2>6. AcceptedInv'
    <3>1. NotQueued(m)' /\ NotWired(m)'
      BY <1>1, <2>1, <2>2 DEF ApartInv, NotQueued, NotWired
    <3> QED
      BY <1>1, <2>1, <2>2, <2>5, <3>1 DEF AcceptedInv, NotQueued, NotWired
  <2> QED
    BY <1>2, <2>3, <2>4, <2>6
<1>4. CASE HandlerEnds(c)
  BY Zenon, <1>1, <1>2, <1>4 DEF Types, ApartInv, AcceptedInv, NotQueued, NotWired, HandlerEnds
<1>5. CASE Break(c)
  <2>1. /\ delivered' = delivered
        /\ \A d \in Conns : wire'[d] = IF d = c THEN << >> ELSE wire[d]
    BY <1>5 DEF Types, Break
  <2>2. Types'
    BY <1>1, <1>5, <2>1, EmptyElems DEF Types, Break
  <2>3. ApartInv' /\ AcceptedInv'
    BY <1>1, <2>1, EmptyElems DEF ApartInv, AcceptedInv, NotQueued, NotWired
  <2> QED
    BY <1>2, <2>2, <2>3
<1> QED
  BY <1>3, <1>4, <1>5

THEOREM Invariance == Spec => []Inv
<1>1. Inv /\ [Next]_vars => Inv'
  <2> SUFFICES ASSUME Inv, [Next]_vars PROVE Inv'
    OBVIOUS
  <2>1. CASE UNCHANGED vars
    BY <2>1 DEF Inv, Types, HoldsInv, NoDeadEntry, ApartInv, AcceptedInv, NotQueued, NotWired,
                vars, connVars
  <2>2. ASSUME NEW m \in Msgs, Begin(m) \/ SendStep(m) PROVE Inv'
    BY <2>2, TaskKeeps, SendKeeps DEF SendStep
  <2>3. ASSUME NEW c \in Conns, WriterStep(c) \/ Handle(c) \/ HandlerEnds(c) \/ Break(c)
        PROVE  Inv'
    BY <2>3, WriteKeeps, LeaveKeeps, PeerKeeps DEF WriterStep
  <2> QED
    BY <2>1, <2>2, <2>3 DEF Next
<1> QED
  BY InvInit, <1>1, PTL DEF Spec

(* PEER_POOL never holds a connection whose writer task has ended          *)
(* (network.rs:231), with any number of concurrent send_remote calls.      *)
THEOREM PoolIsAlive == Spec => []NoDeadEntry
BY Invariance, PTL DEF Inv

(* The retry of send_remote (network.rs:259) never duplicates a message,   *)
(* and an error means that nothing was sent, for any number of messages,   *)
(* connections and failures.                                               *)
THEOREM SentAtMostOnce == Spec => []AtMostOnce
<1>1. Inv => AtMostOnce
  <2> SUFFICES ASSUME Inv, NEW m \in Msgs
               PROVE  Cardinality(Queued(m)) + delivered[m]
                        <= IF task[m].pc = "err" THEN 0 ELSE 1
    BY DEF AtMostOnce
  <2>1. CASE NotQueued(m) /\ NotWired(m)
    <3>1. Queued(m) = {}
      BY <2>1 DEF Queued, NotQueued, NotWired
    <3>2. Cardinality(Queued(m)) = 0
      BY <3>1, FS_EmptySet
    <3> QED
      BY <3>2 DEF Inv, AcceptedInv
  <2>2. CASE ~(NotQueued(m) /\ NotWired(m))
    <3>1. delivered[m] = 0 /\ task[m].pc = "ok"
      BY <2>2 DEF Inv, AcceptedInv
    <3>2. \E x : Queued(m) = {x}
      <4>1. ASSUME NEW c \in Conns, m \in Elems(chan[c]) PROVE Queued(m) = {<<"chan", c>>}
        BY <4>1 DEF Inv, ApartInv, Queued
      <4>2. ASSUME NEW c \in Conns, m \in Elems(wire[c]) PROVE Queued(m) = {<<"wire", c>>}
        BY <4>2 DEF Inv, ApartInv, Queued
      <4> QED
        BY Zenon, <2>2, <4>1, <4>2 DEF NotQueued, NotWired
    <3>3. Cardinality(Queued(m)) = 1
      BY <3>2, FS_Singleton
    <3> QED
      BY <3>1, <3>3
  <2> QED
    BY <2>1, <2>2
<1> QED
  BY Invariance, <1>1, PTL
-----------------------------------------------------------------------------
(* The task of monitor_remote, which shares no state with the sends. *)

(* The local counter is the streak, and the monitor does nothing more once *)
(* it has reported.                                                        *)
StreakInv ==
  /\ failures \in Nat /\ streak = failures
  /\ notified => step = "end"
  /\ NotifiedAfterStreak

(* A pid is stopped and reported only after Threshold probes in a row have *)
(* failed (network.rs:305), whatever the node and the actor do meanwhile.  *)
THEOREM StreakBeforeReport == MonitorSpec => []NotifiedAfterStreak
<1> USE MonitorAssumption DEF StreakInv, NotifiedAfterStreak
<1>1. MonitorInit => StreakInv
  BY DEF MonitorInit
<1>2. StreakInv /\ [MonitorNext]_monitorVars => StreakInv'
  <2> SUFFICES ASSUME StreakInv, [MonitorNext]_monitorVars PROVE StreakInv'
    OBVIOUS
  <2>1. CASE Check \/ Sleep \/ StopPid \/ Notify
    BY <2>1 DEF Check, Sleep, StopPid, Notify
  <2>2. CASE ProbeOk
    BY <2>2 DEF ProbeOk
  <2>3. CASE ProbeFails
    BY <2>3 DEF ProbeFails, Fail, Least
  <2>4. CASE NodeFlips \/ ActorEnds \/ UNCHANGED monitorVars
    BY <2>4 DEF NodeFlips, ActorEnds, monitorVars
  <2> QED
    BY <2>1, <2>2, <2>3, <2>4 DEF MonitorNext, MonitorStep
<1>3. StreakInv => NotifiedAfterStreak
  OBVIOUS
<1> QED
  BY <1>1, <1>2, <1>3, PTL DEF MonitorSpec
=============================================================================
