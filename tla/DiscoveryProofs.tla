-------------------------- MODULE DiscoveryProofs ---------------------------
(***************************************************************************)
(* The slab allocator's pids and the references to them that the rest of   *)
(* the runtime keeps, for every width of index and generation and every    *)
(* number of slots, frees, actors, names and restarts.                     *)
(*                                                                         *)
(* First Pid.  None of its invariants is inductive alone: Inv adds that a  *)
(* slot's generation counts its frees modulo GenMod, that a ticket carries *)
(* the pid its slot had at the time, and that the tickets of one slot are  *)
(* told apart by nth.                                                      *)
(*                                                                         *)
(* Then StraysExplained and AnswerWasBound of Discovery.  The first rests  *)
(* on the slab's invariant: every reference of the present start of the    *)
(* node carries the pid of its allocation, wherever it is kept, and every  *)
(* mailbox in the table belongs to a live allocation.  The second follows  *)
(* a call and its handler step by step.                                    *)
(*                                                                         *)
(* Last the listings of the registry, for all names and prefixes.          *)
(***************************************************************************)
EXTENDS Discovery, TLAPS

(* Sequences, as used below *)
LEMMA ElementIn ==
  ASSUME NEW S, NEW seq \in Seq(S), NEW n \in 1 .. Len(seq)
  PROVE  seq[n] \in S
OBVIOUS

LEMMA NonEmpty ==
  ASSUME NEW S, NEW seq \in Seq(S), seq # << >>
  PROVE  Len(seq) \in Nat \ {0}
OBVIOUS

LEMMA FrontOf ==
  ASSUME NEW S, NEW seq \in Seq(S), NEW m \in 1 .. Len(seq) + 1, NEW n \in m - 1 .. Len(seq)
  PROVE  /\ SubSeq(seq, m, n) \in Seq(S) /\ Len(SubSeq(seq, m, n)) = n - m + 1
         /\ \A i \in 1 .. n - m + 1 : SubSeq(seq, m, n)[i] = seq[m + i - 1]
OBVIOUS

(* Generation of a slot that has been freed n times. *)
GenAfter(n) == (1 + n) % GenMod

GenCountsFrees ==
  \A i \in 1 .. Len(entries) : entries[i].generation = GenAfter(frees[i])

TicketRight(t, es, fs) ==
  /\ t.idx < Len(es)
  /\ t.nth <= fs[t.idx + 1]
  /\ t.nth = fs[t.idx + 1] => es[t.idx + 1].occupied
  /\ t.pid = make_pid(t.idx, GenAfter(t.nth))

TicketsRight ==
  \A n \in 1 .. Len(tickets) : TicketRight(tickets[n], entries, frees)

TicketsDistinct ==
  \A m, n \in 1 .. Len(tickets) :
    m # n /\ tickets[m].idx = tickets[n].idx => tickets[m].nth # tickets[n].nth

(* The inductive invariant. *)
Inv == TypeOK /\ FreeListExact /\ GenCountsFrees /\ TicketsRight /\ TicketsDistinct
----------------------------------------------------------------------------
(* Division with remainder: quotient and remainder exist and are unique,   *)
(* and no proper multiple of g lies between -g and g.                      *)
LEMMA DivMod ==
  ASSUME NEW a \in Int, NEW g \in Nat, g > 0
  PROVE  a \div g \in Int /\ a % g \in 0 .. g - 1 /\ a = g * (a \div g) + (a % g)
<1>1. a \div g \in Int /\ a % g \in 0 .. g - 1
  OBVIOUS
<1>2. a = g * (a \div g) + (a % g)
  OBVIOUS
<1> QED BY <1>1, <1>2

LEMMA DivModUnique ==
  ASSUME NEW g \in Nat, g > 0, NEW q \in Int, NEW r \in 0 .. g - 1
  PROVE  (q * g + r) % g = r /\ (q * g + r) \div g = q
OBVIOUS

LEMMA SmallMultiple ==
  ASSUME NEW g \in Nat, g > 0, NEW x \in Int, g * x < g, g * x > -g
  PROVE  x = 0
OBVIOUS

(* split_pid inverts make_pid (pid.rs:71-77). *)
LEMMA SplitInvertsMake ==
  ASSUME NEW idx \in 0 .. IdxMod - 1, NEW gen \in Nat
  PROVE  /\ pid_index(make_pid(idx, gen)) = idx
         /\ pid_generation(make_pid(idx, gen)) = gen
BY PidAssumption DEF make_pid, pid_index, pid_generation

(* A generation is a u32, and freeing bumps it (pid.rs:56). *)
LEMMA GenAfterFree ==
  ASSUME NEW n \in Nat
  PROVE  /\ GenAfter(n) \in 0 .. GenMod - 1
         /\ GenAfter(n) \in Nat
         /\ wrapping_add1(GenAfter(n)) = GenAfter(n + 1)
<1>1. GenAfter(n) \in 0 .. GenMod - 1 /\ GenAfter(n) \in Nat
  BY PidAssumption DEF GenAfter
<1>2. (((1 + n) % GenMod) + 1) % GenMod = (1 + (n + 1)) % GenMod
  <2> DEFINE q == (1 + n) \div GenMod
             r == (1 + n) % GenMod
  <2>1. q \in Int /\ r \in 0 .. GenMod - 1 /\ 1 + n = GenMod * q + r
    BY PidAssumption, DivMod
  <2>2. (r + 1) % GenMod = IF r = GenMod - 1 THEN 0 ELSE r + 1
    BY <2>1, PidAssumption
  <2> HIDE DEF q, r
  <2>3. CASE r = GenMod - 1
    <3>1. 1 + (n + 1) = (q + 1) * GenMod + 0
      BY <2>1, <2>3, PidAssumption
    <3>2. ((q + 1) * GenMod + 0) % GenMod = 0
      BY <2>1, PidAssumption, DivModUnique
    <3> QED BY <2>2, <2>3, <3>1, <3>2 DEF r
  <2>4. CASE r # GenMod - 1
    <3>1. 1 + (n + 1) = q * GenMod + (r + 1) /\ r + 1 \in 0 .. GenMod - 1
      BY <2>1, <2>4, PidAssumption
    <3>2. (q * GenMod + (r + 1)) % GenMod = r + 1
      BY <2>1, <3>1, PidAssumption, DivModUnique
    <3> QED BY <2>2, <2>4, <3>1, <3>2 DEF r
  <2> QED BY <2>3, <2>4
<1> QED BY <1>1, <1>2 DEF GenAfter, wrapping_add1

(* Fewer than GenMod frees apart, equal generations mean equal counts: the *)
(* arithmetic that makes a generation tell two owners of a slot apart.     *)
LEMMA SameGeneration ==
  ASSUME NEW m \in Nat, NEW n \in Nat, m <= n, n - m < GenMod,
         GenAfter(m) = GenAfter(n)
  PROVE  m = n
<1> DEFINE p == (1 + m) \div GenMod
           q == (1 + n) \div GenMod
           r == (1 + m) % GenMod
<1>1. p \in Int /\ r \in Int /\ 1 + m = GenMod * p + r
  BY PidAssumption, DivMod
<1>2. q \in Int /\ 1 + n = GenMod * q + r
  BY PidAssumption, DivMod DEF GenAfter
<1> HIDE DEF p, q, r
<1>3. n - m = GenMod * (q - p)
  BY <1>1, <1>2, PidAssumption
<1>4. q - p = 0
  BY <1>1, <1>2, <1>3, PidAssumption, SmallMultiple
<1> QED BY <1>3, <1>4, PidAssumption

(* What the invariant says of one ticket and its slot. *)
LEMMA TicketFacts ==
  ASSUME Inv, NEW n \in 1 .. Len(tickets)
  PROVE  /\ tickets[n].idx \in 0 .. IdxMod - 1 /\ tickets[n].idx \in Nat
         /\ tickets[n].nth \in Nat
         /\ GenAfter(tickets[n].nth) \in Nat
         /\ TicketRight(tickets[n], entries, frees)
         /\ Len(entries) \in Nat /\ tickets[n].idx + 1 \in 1 .. Len(entries)
         /\ frees[tickets[n].idx + 1] \in Nat
         /\ entries[tickets[n].idx + 1].generation = GenAfter(frees[tickets[n].idx + 1])
<1>1. PICK t \in Ticket : t = tickets[n]
  <2>1. tickets \in Seq(Ticket)
    BY DEF Inv, TypeOK
  <2> QED BY <2>1, ElementIn
<1>2. t.idx \in 0 .. IdxMod - 1 /\ t.idx \in Nat /\ t.nth \in Nat
  BY PidAssumption DEF Ticket
<1>3. GenAfter(t.nth) \in Nat
  BY Zenon, <1>2, GenAfterFree
<1>4. TicketRight(t, entries, frees)
  BY <1>1 DEF Inv, TicketsRight
<1>5. Len(entries) \in Nat /\ t.idx + 1 \in 1 .. Len(entries)
  <2>1. t.idx < Len(entries) /\ Len(entries) \in Nat
    BY <1>4 DEF Inv, TypeOK, TicketRight
  <2> QED BY <1>2, <2>1
<1>6. frees[t.idx + 1] \in Nat
  BY <1>5 DEF Inv, TypeOK
<1>7. entries[t.idx + 1].generation = GenAfter(frees[t.idx + 1])
  BY <1>5 DEF Inv, GenCountsFrees
<1> QED BY <1>1, <1>2, <1>3, <1>4, <1>5, <1>6, <1>7

LEMMA InitInv == Init => Inv
BY PidAssumption DEF Init, Inv, TypeOK, FreeListExact, GenCountsFrees, TicketsRight,
     TicketsDistinct
----------------------------------------------------------------------------
(* allocate from the free list keeps the invariant. *)
LEMMA ReusedKeepsInv ==
  ASSUME Inv, AllocateReused
  PROVE  Inv'
<1> DEFINE k   == Len(free_list)
           idx == free_list[k]
           e   == entries[idx + 1]
           t   == [pid |-> make_pid(idx, e.generation), idx |-> idx, nth |-> frees[idx + 1]]
<1>1. /\ k \in Nat \ {0}
      /\ idx \in 0 .. IdxMod - 1
      /\ idx < Len(entries) /\ ~e.occupied
  <2>1. k \in Nat \ {0}
    BY NonEmpty DEF Inv, TypeOK, AllocateReused
  <2>2. free_list \in Seq(0 .. IdxMod - 1) /\ k \in 1 .. Len(free_list)
    BY <2>1 DEF Inv, TypeOK
  <2>3. idx \in 0 .. IdxMod - 1
    BY Zenon, <2>2, ElementIn
  <2> QED BY <2>1, <2>3 DEF Inv, FreeListExact
<1>2. /\ free_list' = SubSeq(free_list, 1, k - 1)
      /\ entries' = [entries EXCEPT ![idx + 1] = Occupy(@)]
      /\ tickets' = Append(tickets, t)
      /\ frees' = frees
  BY DEF AllocateReused, Issue
<1>3. /\ Len(entries) \in Nat /\ idx + 1 \in 1 .. Len(entries)
      /\ frees[idx + 1] \in Nat /\ e \in Entry
      /\ e.generation = GenAfter(frees[idx + 1])
  BY <1>1 DEF Inv, TypeOK, GenCountsFrees
<1>4. t \in Ticket
  BY <1>1, <1>3, PidAssumption DEF Ticket, Entry, make_pid
<1>5. /\ free_list' \in Seq(0 .. IdxMod - 1)
       /\ Len(free_list') = k - 1
       /\ \A i \in 1 .. k - 1 : free_list'[i] = free_list[i]
  <2>1. \A i \in 1 .. k - 1 : free_list[i] \in 0 .. IdxMod - 1
    <3>1. free_list \in Seq(0 .. IdxMod - 1) /\ \A i \in 1 .. k - 1 : i \in 1 .. Len(free_list)
      BY <1>1 DEF Inv, TypeOK
    <3> QED BY Zenon, <3>1, ElementIn
  <2>2. k - 1 \in Int /\ 1 \in Int
    BY <1>1
  <2> HIDE DEF k
  <2>3. /\ SubSeq(free_list, 1, k - 1) \in Seq(0 .. IdxMod - 1)
        /\ Len(SubSeq(free_list, 1, k - 1)) = IF 1 <= k - 1 THEN k - 1 - 1 + 1 ELSE 0
        /\ \A i \in 1 .. k - 1 - 1 + 1 : SubSeq(free_list, 1, k - 1)[i] = free_list[1 + i - 1]
    BY <2>1, <2>2, FrontOf
  <2> QED BY <2>3, <1>1, <1>2
<1> HIDE DEF t
<1>6. TypeOK'
  <2>1. entries' \in Seq(Entry) /\ Len(entries') = Len(entries)
    BY <1>2, <1>3 DEF Inv, TypeOK, Entry, Occupy
  <2>2. free_list' \in Seq(0 .. IdxMod - 1)
    BY <1>5
  <2>3. tickets' \in Seq(Ticket)
    BY <1>2, <1>4 DEF Inv, TypeOK
  <2> QED BY <2>1, <2>2, <2>3, <1>2 DEF Inv, TypeOK
<1>7. FreeListExact'
  <2>1. Len(free_list') = k - 1 /\ \A i \in 1 .. k - 1 : free_list'[i] = free_list[i]
    BY <1>5
  <2>2. \A i \in 1 .. k - 1 : free_list[i] # idx
    BY <1>1 DEF Inv, FreeListExact
  <2>3. /\ Len(entries') = Len(entries)
        /\ \A j \in 1 .. Len(entries) : j # idx + 1 => entries'[j] = entries[j]
        /\ entries'[idx + 1] = Occupy(e)
    BY <1>2, <1>3 DEF Inv, TypeOK
  <2>4. \A i, j \in 1 .. k - 1 : i # j => free_list'[i] # free_list'[j]
    BY <2>1, <1>1 DEF Inv, FreeListExact
  <2>5. ASSUME NEW x \in 0 .. IdxMod - 1
        PROVE  (\E i \in 1 .. k - 1 : free_list'[i] = x)
                 <=> (x < Len(entries') /\ ~entries'[x + 1].occupied)
    <3>1. (\E i \in 1 .. k : free_list[i] = x)
            <=> (x < Len(entries) /\ ~entries[x + 1].occupied)
      BY DEF Inv, FreeListExact
    <3>2. CASE x = idx
      BY <3>2, <2>1, <2>2, <2>3, <1>3 DEF Occupy
    <3>3. CASE x # idx
      <4>1. (\E i \in 1 .. k - 1 : free_list'[i] = x) <=> (\E i \in 1 .. k : free_list[i] = x)
        BY <3>3, <2>1, <1>1
      <4>2. x < Len(entries) => entries'[x + 1].occupied = entries[x + 1].occupied
        BY <3>3, <2>3, <1>3, <1>1
      <4> QED BY <4>1, <4>2, <3>1, <2>3
    <3> QED BY <3>2, <3>3
  <2> QED BY <2>1, <2>4, <2>5 DEF FreeListExact
<1>8. /\ Len(entries') = Len(entries)
      /\ \A j \in 1 .. Len(entries) :
           /\ entries'[j].generation = entries[j].generation
           /\ entries[j].occupied => entries'[j].occupied
      /\ entries'[idx + 1].occupied
  BY <1>2, <1>3 DEF Inv, TypeOK, Entry, Occupy
<1>9. GenCountsFrees'
  BY <1>8, <1>2 DEF Inv, TypeOK, GenCountsFrees
<1>10. /\ Len(tickets') = Len(tickets) + 1 /\ Len(tickets) \in Nat
      /\ tickets'[Len(tickets) + 1] = t
      /\ \A n \in 1 .. Len(tickets) : tickets'[n] = tickets[n] /\ tickets[n] \in Ticket
  BY <1>2, <1>4 DEF Inv, TypeOK
<1>11. TicketsRight'
  <2>1. TicketRight(t, entries', frees')
    BY <1>1, <1>2, <1>3, <1>8 DEF TicketRight, t, make_pid, GenAfter
  <2>2. \A n \in 1 .. Len(tickets) : TicketRight(tickets[n], entries', frees')
    BY <1>2, <1>8, <1>10 DEF Inv, TicketsRight, TicketRight, Ticket
  <2> QED BY <2>1, <2>2, <1>10 DEF TicketsRight
<1>12. TicketsDistinct'
  <2>1. \A n \in 1 .. Len(tickets) : tickets[n].idx = idx => tickets[n].nth # t.nth
    BY <1>1 DEF Inv, TicketsRight, TicketRight, t
  <2> QED BY <2>1, <1>10 DEF Inv, TicketsDistinct, t
<1> QED BY <1>6, <1>7, <1>9, <1>11, <1>12 DEF Inv

(* allocate of a new slot keeps the invariant: no ticket names it yet. *)
LEMMA NewKeepsInv ==
  ASSUME Inv, AllocateNew
  PROVE  Inv'
<1> DEFINE k == Len(entries)
           t == [pid |-> make_pid(k, 1), idx |-> k, nth |-> 0]
<1>1. /\ k \in Nat /\ k \in 0 .. IdxMod - 1
      /\ free_list = << >> /\ free_list' = free_list
      /\ entries' = Append(entries, [generation |-> 1, occupied |-> TRUE])
      /\ frees' = Append(frees, 0)
      /\ tickets' = Append(tickets, t)
  <2>1. k \in Nat /\ k \in 0 .. IdxMod - 1
    BY PidAssumption DEF Inv, TypeOK, AllocateNew
  <2> QED BY <2>1 DEF AllocateNew, Issue
<1>2. /\ [generation |-> 1, occupied |-> TRUE] \in Entry
      /\ t \in Ticket /\ t.idx = k /\ t.nth = 0 /\ t.pid = make_pid(k, 1)
      /\ GenAfter(0) = 1
  <2>1. [generation |-> 1, occupied |-> TRUE] \in Entry
    BY PidAssumption DEF Entry
  <2>2. make_pid(k, 1) \in Nat
    BY <1>1, PidAssumption DEF make_pid
  <2>3. (0 * GenMod + 1) % GenMod = 1
    BY PidAssumption, DivModUnique
  <2>4. GenAfter(0) = 1
    BY <2>3, PidAssumption DEF GenAfter
  <2> QED BY <1>1, <2>1, <2>2, <2>4 DEF Ticket
<1> HIDE DEF t
<1>3. /\ entries' \in Seq(Entry) /\ Len(entries') = k + 1
      /\ frees' \in Seq(Nat) /\ Len(frees') = k + 1
      /\ \A i \in 1 .. k : entries'[i] = entries[i] /\ frees'[i] = frees[i]
      /\ entries'[k + 1] = [generation |-> 1, occupied |-> TRUE] /\ frees'[k + 1] = 0
  BY <1>1, <1>2 DEF Inv, TypeOK
<1>4. /\ tickets' \in Seq(Ticket) /\ Len(tickets) \in Nat
      /\ Len(tickets') = Len(tickets) + 1
      /\ \A n \in 1 .. Len(tickets) : tickets'[n] = tickets[n] /\ tickets[n] \in Ticket
      /\ tickets'[Len(tickets) + 1] = t
  BY <1>1, <1>2 DEF Inv, TypeOK
<1>5. TypeOK'
  BY <1>1, <1>3, <1>4, PidAssumption DEF Inv, TypeOK
<1>6. FreeListExact'
  <2>1. Len(free_list) = 0 /\ free_list' = free_list
    BY <1>1, NonEmpty
  <2>2. \A x \in 0 .. IdxMod - 1 : x < k => entries[x + 1].occupied
    BY <2>1 DEF Inv, FreeListExact
  <2>3. \A x \in 0 .. IdxMod - 1 : x < Len(entries') => entries'[x + 1].occupied
    BY <2>2, <1>1, <1>3
  <2> QED BY <2>1, <2>3 DEF FreeListExact
<1>7. GenCountsFrees'
  BY <1>1, <1>2, <1>3 DEF Inv, GenCountsFrees
<1>8. TicketsRight'
  <2>1. TicketRight(t, entries', frees')
    BY <1>1, <1>2, <1>3 DEF TicketRight
  <2>2. ASSUME NEW n \in 1 .. Len(tickets) PROVE TicketRight(tickets[n], entries', frees')
    <3>1. /\ tickets[n].idx + 1 \in 1 .. k /\ tickets[n].idx \in Nat
          /\ TicketRight(tickets[n], entries, frees)
      BY TicketFacts
    <3> QED BY <3>1, <1>1, <1>3 DEF TicketRight
  <2> QED BY <2>1, <2>2, <1>4 DEF TicketsRight
<1>9. TicketsDistinct'
  <2>1. \A n \in 1 .. Len(tickets) : tickets[n].idx # k
    BY <1>1, TicketFacts, PidAssumption
  <2> QED BY <2>1, <1>2, <1>4 DEF Inv, TicketsDistinct
<1> QED BY <1>5, <1>6, <1>7, <1>8, <1>9 DEF Inv

(* deallocate keeps the invariant, whatever pid it is called with. *)
LEMMA DeallocateKeepsInv ==
  ASSUME Inv, NEW pid \in PidSpace, Deallocate(pid)
  PROVE  Inv'
<1> DEFINE idx == pid_index(pid)
           e   == entries[idx + 1]
           f   == [generation |-> wrapping_add1(e.generation), occupied |-> FALSE]
<1>1. CASE ~is_valid(pid)
  BY <1>1 DEF Deallocate, vars, Inv, TypeOK, FreeListExact, GenCountsFrees, TicketsRight,
       TicketsDistinct
<1>2. CASE is_valid(pid)
  <2>1. /\ idx \in 0 .. IdxMod - 1 /\ idx < Len(entries) /\ e.occupied
        /\ entries' = [entries EXCEPT ![idx + 1] = f]
        /\ free_list' = Append(free_list, idx)
        /\ frees' = [frees EXCEPT ![idx + 1] = @ + 1]
        /\ tickets' = tickets
    BY <1>2, PidAssumption DEF Deallocate, is_valid, PidSpace, pid_index
  <2> HIDE DEF idx
  <2>2. /\ Len(entries) \in Nat /\ idx + 1 \in 1 .. Len(entries)
        /\ frees[idx + 1] \in Nat /\ e.generation = GenAfter(frees[idx + 1])
    BY <2>1 DEF Inv, TypeOK, GenCountsFrees
  <2>3. f \in Entry /\ f.generation = GenAfter(frees[idx + 1] + 1) /\ ~f.occupied
    <3>1. wrapping_add1(e.generation) = GenAfter(frees[idx + 1] + 1)
      BY Zenon, <2>2, GenAfterFree
    <3>2. frees[idx + 1] + 1 \in Nat
      BY <2>2
    <3>3. GenAfter(frees[idx + 1] + 1) \in 0 .. GenMod - 1
      BY <3>2, GenAfterFree
    <3> QED BY <3>1, <3>3 DEF Entry
  <2> HIDE DEF f
  <2>4. /\ entries' \in Seq(Entry) /\ Len(entries') = Len(entries)
        /\ frees' \in Seq(Nat) /\ Len(frees') = Len(entries)
        /\ \A i \in 1 .. Len(entries) :
             i # idx + 1 => entries'[i] = entries[i] /\ frees'[i] = frees[i]
        /\ entries'[idx + 1] = f /\ frees'[idx + 1] = frees[idx + 1] + 1
    BY <2>1, <2>2, <2>3 DEF Inv, TypeOK
  <2>5. /\ free_list' \in Seq(0 .. IdxMod - 1) /\ Len(free_list) \in Nat
        /\ Len(free_list') = Len(free_list) + 1
        /\ \A i \in 1 .. Len(free_list) : free_list'[i] = free_list[i]
        /\ free_list'[Len(free_list) + 1] = idx
    BY <2>1 DEF Inv, TypeOK
  <2>6. TypeOK'
    BY <2>1, <2>4, <2>5 DEF Inv, TypeOK
  <2>7. FreeListExact'
    <3>1. \A i \in 1 .. Len(free_list) : free_list[i] # idx
      BY <2>1 DEF Inv, FreeListExact
    <3>2. \A i, j \in 1 .. Len(free_list') : i # j => free_list'[i] # free_list'[j]
      BY <3>1, <2>5 DEF Inv, FreeListExact
    <3>3. ASSUME NEW x \in 0 .. IdxMod - 1
          PROVE  (\E i \in 1 .. Len(free_list') : free_list'[i] = x)
                   <=> (x < Len(entries') /\ ~entries'[x + 1].occupied)
      <4>1. (\E i \in 1 .. Len(free_list) : free_list[i] = x)
              <=> (x < Len(entries) /\ ~entries[x + 1].occupied)
        BY DEF Inv, FreeListExact
      <4>2. CASE x = idx
        BY <4>2, <2>1, <2>3, <2>4, <2>5
      <4>3. CASE x # idx
        <5>1. (\E i \in 1 .. Len(free_list') : free_list'[i] = x)
                <=> (\E i \in 1 .. Len(free_list) : free_list[i] = x)
          BY <4>3, <2>5
        <5>2. x < Len(entries) => entries'[x + 1] = entries[x + 1]
          BY <4>3, <2>1, <2>2, <2>4
        <5> QED BY <5>1, <5>2, <4>1, <2>4
      <4> QED BY <4>2, <4>3
    <3> QED BY <3>2, <3>3 DEF FreeListExact
  <2>8. GenCountsFrees'
    BY Zenon, <2>2, <2>3, <2>4 DEF Inv, GenCountsFrees
  <2>9. TicketsRight'
    <3>1. SUFFICES ASSUME NEW n \in 1 .. Len(tickets)
                   PROVE  TicketRight(tickets[n], entries', frees')
      BY Zenon, <2>1 DEF TicketsRight
    <3>2. /\ tickets[n].idx \in Nat /\ tickets[n].nth \in Nat
          /\ TicketRight(tickets[n], entries, frees)
          /\ tickets[n].idx + 1 \in 1 .. Len(entries)
      BY TicketFacts
    <3>3. CASE tickets[n].idx = idx
      BY <3>2, <3>3, <2>2, <2>4 DEF TicketRight
    <3>4. CASE tickets[n].idx # idx
      <4>1. tickets[n].idx + 1 # idx + 1
        BY <3>2, <3>4, <2>1, PidAssumption
      <4> QED BY <3>2, <4>1, <2>4 DEF TicketRight
    <3> QED BY <3>3, <3>4
  <2>10. TicketsDistinct'
    BY <2>1 DEF Inv, TicketsDistinct
  <2> QED BY <2>6, <2>7, <2>8, <2>9, <2>10 DEF Inv
<1> QED BY <1>1, <1>2
----------------------------------------------------------------------------
(* The invariant is inductive ... *)
LEMMA StepKeepsInv == Inv /\ [Next]_vars => Inv'
<1> SUFFICES ASSUME Inv, [Next]_vars PROVE Inv'
  OBVIOUS
<1>1. CASE AllocateReused
  BY <1>1, ReusedKeepsInv
<1>2. CASE AllocateNew
  BY <1>2, NewKeepsInv
<1>3. ASSUME NEW pid \in PidSpace, Deallocate(pid) PROVE Inv'
  BY <1>3, DeallocateKeepsInv
<1>4. CASE UNCHANGED vars
  BY <1>4 DEF vars, Inv, TypeOK, FreeListExact, GenCountsFrees, TicketsRight, TicketsDistinct
<1> QED BY <1>1, <1>2, <1>3, <1>4 DEF Next

(* ... and holds in every reachable state of the allocator. *)
THEOREM Invariance == Spec => []Inv
BY InitInv, StepKeepsInv, PTL DEF Spec

(* The fields of SlabAllocator keep their types: in particular a           *)
(* generation stays below GenMod and a slot index below IdxMod.            *)
THEOREM TypeCorrect == Spec => []TypeOK
<1>1. Inv => TypeOK
  BY DEF Inv
<1> QED BY <1>1, Invariance, PTL

(* allocate and deallocate (pid.rs:30-60) keep free_list the exact set of  *)
(* free slots, without repetition.                                         *)
THEOREM FreeListCorrect == Spec => []FreeListExact
<1>1. Inv => FreeListExact
  BY DEF Inv
<1> QED BY <1>1, Invariance, PTL

(* The invariant makes is_valid exact. *)
LEMMA InvValid == Inv => ValidMeansOwnAllocation
<1>1. SUFFICES ASSUME Inv, NEW n \in 1 .. Len(tickets),
                      frees[tickets[n].idx + 1] - tickets[n].nth < GenMod
               PROVE  is_valid(tickets[n].pid) <=> Live(tickets[n])
  BY DEF ValidMeansOwnAllocation
<1> DEFINE t == tickets[n]
           i == t.idx + 1
<1>2. /\ t.idx \in 0 .. IdxMod - 1 /\ t.nth \in Nat /\ GenAfter(t.nth) \in Nat
      /\ TicketRight(t, entries, frees) /\ frees[i] \in Nat
      /\ entries[i].generation = GenAfter(frees[i])
  BY <1>1, TicketFacts
<1>5. pid_index(t.pid) = t.idx /\ pid_generation(t.pid) = GenAfter(t.nth)
  BY <1>2, SplitInvertsMake DEF TicketRight
<1>6. is_valid(t.pid) <=> entries[i].occupied /\ GenAfter(frees[i]) = GenAfter(t.nth)
  BY <1>2, <1>5 DEF is_valid, TicketRight
<1>7. GenAfter(frees[i]) = GenAfter(t.nth) <=> frees[i] = t.nth
  BY <1>1, <1>2, SameGeneration DEF TicketRight
<1> QED BY <1>6, <1>7 DEF Live

(* is_valid (pid.rs:63) accepts a pid that is fewer than GenMod frees old  *)
(* exactly while the allocation that issued it is live.                    *)
THEOREM StalePidsRefused == Spec => []ValidMeansOwnAllocation
BY InvValid, Invariance, PTL

(* The invariant keeps the pids in use apart. *)
LEMMA InvDistinct == Inv => LivePidsDistinct
<1>1. SUFFICES ASSUME Inv, NEW m \in 1 .. Len(tickets), NEW n \in 1 .. Len(tickets), m # n,
                      Live(tickets[m]), Live(tickets[n]), tickets[m].pid = tickets[n].pid
               PROVE  FALSE
  BY DEF LivePidsDistinct
<1>2. ASSUME NEW l \in 1 .. Len(tickets) PROVE pid_index(tickets[l].pid) = tickets[l].idx
  <2>1. /\ tickets[l].idx \in 0 .. IdxMod - 1 /\ GenAfter(tickets[l].nth) \in Nat
        /\ tickets[l].pid = make_pid(tickets[l].idx, GenAfter(tickets[l].nth))
    BY <1>1, TicketFacts DEF TicketRight
  <2> QED BY <2>1, SplitInvertsMake
<1>4. tickets[m].idx = tickets[n].idx
  BY <1>1, <1>2
<1>5. tickets[m].nth = tickets[n].nth
  BY <1>1, <1>4 DEF Live
<1> QED BY <1>1, <1>4, <1>5 DEF Inv, TicketsDistinct

(* allocate (pid.rs:30) never hands out a pid that a live actor holds. *)
THEOREM NoSharedPid == Spec => []LivePidsDistinct
BY InvDistinct, Invariance, PTL

(* Pid 0, "no such name" on the wire (network.rs:186), is not handed out   *)
(* before slot 0 has been freed GenMod - 1 times.                          *)
THEOREM ZeroIsReserved == Spec => []ZeroOnlyAfterWrap
<1>1. Inv => ZeroOnlyAfterWrap
  <2>1. SUFFICES ASSUME Inv, NEW n \in 1 .. Len(tickets), tickets[n].pid = 0
                 PROVE  tickets[n].idx = 0 /\ tickets[n].nth >= GenMod - 1
    BY DEF ZeroOnlyAfterWrap
  <2>2. /\ tickets[n].idx \in 0 .. IdxMod - 1 /\ tickets[n].nth \in Nat
        /\ GenAfter(tickets[n].nth) \in Nat
        /\ tickets[n].pid = make_pid(tickets[n].idx, GenAfter(tickets[n].nth))
    BY <2>1, TicketFacts DEF TicketRight
  <2>3. 0 % IdxMod = 0 /\ 0 \div IdxMod = 0
    <3>1. (0 * IdxMod + 0) % IdxMod = 0 /\ (0 * IdxMod + 0) \div IdxMod = 0
      BY PidAssumption, DivModUnique
    <3> QED BY <3>1, PidAssumption
  <2>4. tickets[n].idx = 0 /\ GenAfter(tickets[n].nth) = 0
    BY <2>1, <2>2, <2>3, SplitInvertsMake DEF pid_index, pid_generation
  <2>5. ASSUME tickets[n].nth < GenMod - 1 PROVE FALSE
    <3>1. 1 + tickets[n].nth \in 0 .. GenMod - 1
      BY <2>2, <2>5, PidAssumption
    <3>2. (0 * GenMod + (1 + tickets[n].nth)) % GenMod = 1 + tickets[n].nth
      BY <3>1, PidAssumption, DivModUnique
    <3>3. GenAfter(tickets[n].nth) = 1 + tickets[n].nth
      BY <3>2, <2>2, PidAssumption DEF GenAfter
    <3> QED BY <3>3, <2>2, <2>4
  <2> QED BY <2>2, <2>4, <2>5, PidAssumption
<1> QED BY <1>1, Invariance, PTL
-----------------------------------------------------------------------------
(* References to pids *)

RefRight(ref, ts, b) ==
  ref # Unbound =>
    /\ ref.boot \in Nat /\ ref.boot <= b
    /\ ref.boot = b => ref.n \in 1 .. Len(ts) /\ ref.pid = ts[ref.n].pid

RefsRight ==
  /\ boot \in Nat
  /\ names = [x \in Names |-> names[x]]
  /\ \A x \in Names : RefRight(names[x], tickets, boot)
  /\ RefRight(held, tickets, boot)
  /\ RefRight(answer, tickets, boot)
  /\ pc = "use" => held # Unbound

BoxRight(m, ts, es, fs) ==
  /\ m.n \in 1 .. Len(ts)
  /\ m.pid = ts[m.n].pid
  /\ es[ts[m.n].idx + 1].occupied
  /\ fs[ts[m.n].idx + 1] = ts[m.n].nth

BoxesRight == \A m \in mailboxes : BoxRight(m, tickets, entries, frees)

(* The inductive invariant. *)
DiscInv == Inv /\ RefsRight /\ BoxesRight /\ StraysExplained
-----------------------------------------------------------------------------
(* A pid that was issued is one deallocate can be called with. *)
LEMMA IssuedInSpace ==
  ASSUME Inv, NEW n \in 1 .. Len(tickets)
  PROVE  tickets[n].pid \in PidSpace
<1> DEFINE g == GenAfter(tickets[n].nth)
           i == tickets[n].idx
<1>1. i \in 0 .. IdxMod - 1 /\ tickets[n].nth \in Nat /\ tickets[n].pid = g * IdxMod + i
  BY TicketFacts DEF TicketRight, make_pid
<1>2. g \in 0 .. GenMod - 1
  BY Zenon, <1>1, GenAfterFree
<1> HIDE DEF g, i
<1>3. g * IdxMod >= 0 /\ g * IdxMod <= (GenMod - 1) * IdxMod
  BY <1>2, PidAssumption
<1>4. (GenMod - 1) * IdxMod = GenMod * IdxMod - IdxMod /\ GenMod * IdxMod \in Nat /\ g * IdxMod \in Nat
  BY <1>2, PidAssumption
<1>5. PICK a \in Nat, b \in Nat : a = g * IdxMod /\ b = GenMod * IdxMod
  BY Zenon, <1>4
<1>6. /\ tickets[n].pid = a + i /\ a <= b - IdxMod /\ PidSpace = 0 .. b - 1
  BY Zenon, <1>1, <1>3, <1>4, <1>5 DEF PidSpace
<1>7. IdxMod \in Nat
  BY Zenon, PidAssumption
<1> QED
  BY <1>1, <1>6, <1>7

(* Every step is a step of the slab, a restart, or leaves the slab alone. *)
LEMMA SlabKept ==
  ASSUME DiscInv, [Step]_allVars
  PROVE  Inv'
<1>1. CASE Spawn
  BY <1>1, ReusedKeepsInv, NewKeepsInv DEF Spawn, DiscInv
<1>2. ASSUME NEW n \in Actors, Free(n) PROVE Inv'
  BY <1>2, IssuedInSpace, DeallocateKeepsInv DEF Free, DiscInv, Actors
<1>3. CASE Restart
  BY <1>3, PidAssumption
  DEF Restart, Inv, TypeOK, FreeListExact, GenCountsFrees, TicketsRight, TicketsDistinct
<1>4. CASE UNCHANGED vars
  BY <1>4, StepKeepsInv DEF DiscInv
<1>5. ASSUME NEW n \in Actors, Close(n) PROVE UNCHANGED vars
  BY <1>5 DEF Close
<1>6. ASSUME NEW x \in Names, Unregister(x) PROVE UNCHANGED vars
  BY <1>6 DEF Unregister, Elsewhere
<1>7. ASSUME NEW x \in scene.names, NEW n \in Actors, Register(x, n) PROVE UNCHANGED vars
  BY <1>7 DEF Register, Elsewhere
<1>8. CASE UseStep
  BY Zenon, <1>8, <1>4 DEF UseStep, Whereis, Resolve, Await, Send, Stop, Forget
<1>9. CASE PollAlive \/ CallStep \/ HandlerStep
  BY Zenon, <1>9, <1>4
  DEF PollAlive, CallStep, Connect, WriteName, NameTooLong, ReadAnswer, CallFails, HangUp,
      HandlerStep, ReadHead, ReadName, Find, Reply, HandlerEnds, AtStep
<1>10. CASE UNCHANGED allVars
  BY <1>10, <1>4 DEF allVars
<1> QED
  BY <1>1, <1>2, <1>3, <1>4, <1>5, <1>6, <1>7, <1>8, <1>9, <1>10 DEF Step, NodeStep

(* What became of the tickets and the start of the node. *)
LEMMA RefKept ==
  ASSUME NEW ref, NEW ts, NEW us, NEW b, RefRight(ref, ts, b),
         \/ us = ts
         \/ Len(ts) \in Nat /\ Len(us) = Len(ts) + 1 /\ \A k \in 1 .. Len(ts) : us[k] = ts[k]
  PROVE  RefRight(ref, us, b)
BY DEF RefRight

LEMMA FreshRef ==
  ASSUME DiscInv, NEW n \in Actors
  PROVE  RefRight(Ref(n), tickets, boot)
BY DEF DiscInv, RefsRight, RefRight, Ref, Actors

(* A spawn adds a ticket behind the others. *)
LEMMA SpawnAppends ==
  ASSUME DiscInv, Spawn
  PROVE  /\ Len(tickets) \in Nat /\ Len(tickets') = Len(tickets) + 1
         /\ \A k \in 1 .. Len(tickets) : tickets'[k] = tickets[k]
<1>1. tickets \in Seq(Ticket)
  BY DEF DiscInv, Inv, TypeOK
<1>2. \E t : tickets' = Append(tickets, t)
  BY DEF Spawn, AllocateReused, AllocateNew, Issue
<1> QED
  BY <1>1, <1>2

(* The names, the caller's reference and the answer on the wire stay right. *)
LEMMA RefsKept ==
  ASSUME DiscInv, [Step]_allVars
  PROVE  RefsRight'
<1> USE DEF DiscInv
<1>1. CASE UNCHANGED <<boot, names, held, answer, pc>> /\ (tickets' = tickets \/ Spawn)
  <2>1. \/ tickets' = tickets
        \/ /\ Len(tickets) \in Nat /\ Len(tickets') = Len(tickets) + 1
           /\ \A k \in 1 .. Len(tickets) : tickets'[k] = tickets[k]
    BY Zenon, <1>1, SpawnAppends
  <2> QED
    BY Zenon, <1>1, <2>1, RefKept DEF RefsRight
<1>2. ASSUME NEW n \in Actors, Free(n) PROVE RefsRight'
  BY Zenon, <1>1, <1>2 DEF Free, Deallocate, nodeVars, callVars, vars
<1>3. CASE Restart
  <2>1. boot' = boot + 1 /\ boot \in Nat /\ names' = NoNames /\ answer' = answer
        /\ (remote => pc' = pc /\ held' = held) /\ (~remote => pc' = "idle" /\ held' = Unbound)
    BY Zenon, <1>3 DEF Restart, RefsRight
  <2>2. ASSUME NEW ref, RefRight(ref, tickets, boot) PROVE RefRight(ref, tickets', boot')
    BY <2>1, <2>2 DEF RefRight
  <2>3. RefRight(Unbound, tickets', boot')
    BY Zenon DEF RefRight
  <2> QED
    BY <2>1, <2>2, <2>3 DEF RefsRight, NoNames
<1>4. ASSUME NEW n \in Actors, Close(n) PROVE RefsRight'
  BY Zenon, <1>1, <1>4 DEF Close, callVars, vars
<1>5. ASSUME NEW x \in Names, Unregister(x) PROVE RefsRight'
  BY Zenon, <1>5 DEF Unregister, unregister, Elsewhere, vars, RefsRight, RefRight
<1>6. ASSUME NEW x \in scene.names, NEW n \in Actors, Register(x, n) PROVE RefsRight'
  <2>1. names' = [names EXCEPT ![x] = Ref(n)] /\ UNCHANGED <<tickets, boot, held, answer, pc>>
    BY Zenon, <1>6 DEF Register, register, Elsewhere, vars
  <2>2. RefRight(Ref(n), tickets, boot)
    BY Zenon, FreshRef
  <2> QED
    BY Zenon, <2>1, <2>2 DEF RefsRight
<1>7. CASE UseStep
  <2>1. ASSUME NEW x \in Asked, Whereis(x) PROVE RefsRight'
    BY Zenon, <2>1 DEF Whereis, Return, resolve, nodeVars, vars, RefsRight, RefRight
  <2>2. ASSUME NEW n \in Actors, Await(n) PROVE RefsRight'
    BY Zenon, <2>2, FreshRef DEF Await, nodeVars, vars, RefsRight
  <2>3. CASE Send \/ Stop \/ Forget
    BY Zenon, <2>3 DEF Send, Stop, Forget, Settle, nodeVars, vars, RefsRight, RefRight
  <2>4. ASSUME NEW x \in Asked, Resolve(x) PROVE RefsRight'
    BY Zenon, <2>4 DEF Resolve, nodeVars, vars, RefsRight
  <2> QED
    BY Zenon, <1>7, <2>1, <2>2, <2>3, <2>4 DEF UseStep
<1>8. CASE PollAlive \/ Connect \/ WriteName
  BY Zenon, <1>8 DEF PollAlive, Connect, WriteName, nodeVars, vars, RefsRight
<1>9. CASE NameTooLong \/ ReadAnswer \/ CallFails
  BY Zenon, <1>9 DEF NameTooLong, ReadAnswer, CallFails, HangUp, Return, nodeVars, vars, RefsRight, RefRight
<1>10. CASE ReadHead \/ ReadName \/ Reply \/ HandlerEnds
  BY Zenon, <1>10 DEF ReadHead, ReadName, Reply, HandlerEnds, AtStep, nodeVars, vars, RefsRight
<1>11. CASE Find
  BY Zenon, <1>11 DEF Find, AtStep, resolve, nodeVars, vars, RefsRight, RefRight
<1>12. CASE UNCHANGED allVars
  BY Zenon, <1>12, <1>1 DEF allVars, nodeVars, callVars, vars
<1>13. CASE Spawn
  BY Zenon, <1>13, <1>1 DEF Spawn, callVars
<1> QED
  BY Zenon, <1>2, <1>3, <1>4, <1>5, <1>6, <1>7, <1>8, <1>9, <1>10, <1>11, <1>12, <1>13
  DEF Step, NodeStep, CallStep, HandlerStep

(* A spawn leaves the live allocations live, and its own is live. *)
LEMMA SpawnKeepsBoxes ==
  ASSUME DiscInv, Spawn
  PROVE  BoxesRight'
<1> DEFINE n == Len(tickets')
<1>1. Inv /\ Inv'
  BY Zenon, ReusedKeepsInv, NewKeepsInv DEF Spawn, DiscInv
<1>2. /\ Len(tickets) \in Nat /\ n = Len(tickets) + 1
      /\ \A k \in 1 .. Len(tickets) : tickets'[k] = tickets[k]
  BY Zenon, SpawnAppends
<1>3. /\ \A i \in 1 .. Len(entries) : frees'[i] = frees[i]
                                     /\ (entries[i].occupied => entries'[i].occupied)
      /\ entries'[tickets'[n].idx + 1].occupied
      /\ frees'[tickets'[n].idx + 1] = tickets'[n].nth
  <2>0. /\ entries \in Seq(Entry) /\ frees \in Seq(Nat) /\ tickets \in Seq(Ticket)
        /\ free_list \in Seq(0 .. IdxMod - 1) /\ Len(frees) = Len(entries)
    BY Zenon, <1>1 DEF Inv, TypeOK
  <2>1. CASE AllocateReused
    <3> DEFINE idx == free_list[Len(free_list)]
           t   == [pid |-> make_pid(idx, entries[idx + 1].generation), idx |-> idx,
                   nth |-> frees[idx + 1]]
    <3>0. Len(free_list) \in 1 .. Len(free_list)
      BY <2>0, <2>1, NonEmpty DEF AllocateReused
    <3>1. Len(free_list) \in 1 .. Len(free_list) /\ idx \in 0 .. IdxMod - 1
      BY Zenon, <2>0, <3>0, ElementIn
    <3>2. idx < Len(entries) /\ idx + 1 \in 1 .. Len(entries)
      BY <2>0, <3>1, <1>1 DEF Inv, FreeListExact
    <3>3. /\ entries' = [entries EXCEPT ![idx + 1] = Occupy(@)] /\ frees' = frees
          /\ tickets' = Append(tickets, t)
      BY Zenon, <2>1 DEF AllocateReused, Issue
    <3>4. tickets'[n] = t
      BY <2>0, <3>3
    <3> HIDE DEF idx
    <3>5. \A i \in 1 .. Len(entries) : entries[i].occupied => entries'[i].occupied
      BY <2>0, <3>2, <3>3 DEF Occupy
    <3>6. entries'[idx + 1].occupied
      BY <2>0, <3>2, <3>3 DEF Occupy
    <3> QED
      BY <3>3, <3>4, <3>5, <3>6
  <2>2. CASE AllocateNew
    BY <2>0, <2>2 DEF AllocateNew, Issue
  <2> QED
    BY Zenon, <2>1, <2>2 DEF Spawn
<1>4. ASSUME NEW m \in mailboxes PROVE BoxRight(m, tickets', entries', frees')
  <2>1. BoxRight(m, tickets, entries, frees)
    BY Zenon DEF DiscInv, BoxesRight
  <2>2. tickets[m.n].idx + 1 \in 1 .. Len(entries)
    BY Zenon, <1>1, <2>1, TicketFacts DEF BoxRight, TicketRight
  <2> QED
    BY <1>2, <1>3, <2>1, <2>2 DEF BoxRight
<1>5. BoxRight([pid |-> tickets'[n].pid, n |-> n], tickets', entries', frees')
  BY <1>2, <1>3 DEF BoxRight
<1> QED
  BY Zenon, <1>4, <1>5 DEF Spawn, BoxesRight

(* The slot that is freed is no mailbox's: the owner's is gone, and no     *)
(* other live allocation has that slot.                                    *)
LEMMA FreeKeepsBoxes ==
  ASSUME DiscInv, NEW n \in Actors, Free(n)
  PROVE  BoxesRight'
<1> DEFINE i == tickets[n].idx + 1
<1>1. Inv /\ Live(tickets[n]) /\ mailboxes' = mailboxes
  BY Zenon DEF DiscInv, Free, nodeVars
<1>2. ASSUME NEW m \in mailboxes PROVE BoxRight(m, tickets', entries', frees')
  <2>1. BoxRight(m, tickets, entries, frees) /\ m.n # n
    BY Zenon DEF DiscInv, BoxesRight, Free
  <2>2. /\ tickets[m.n].idx \in Nat /\ tickets[n].idx \in Nat
        /\ tickets[m.n].idx + 1 \in 1 .. Len(entries)
    BY Zenon, <1>1, <2>1, TicketFacts DEF BoxRight, TicketRight, Actors
  <2>3. tickets[m.n].idx # tickets[n].idx
    BY Zenon, <1>1, <2>1 DEF BoxRight, Live, Inv, TicketsDistinct, Actors
  <2>4. pid_index(tickets[n].pid) = tickets[n].idx
    <3>1. /\ tickets[n].idx \in 0 .. IdxMod - 1 /\ GenAfter(tickets[n].nth) \in Nat
          /\ tickets[n].pid = make_pid(tickets[n].idx, GenAfter(tickets[n].nth))
      BY Zenon, <1>1, TicketFacts DEF TicketRight, Actors
    <3> QED
      BY Zenon, <3>1, SplitInvertsMake
  <2>5. /\ tickets' = tickets
        /\ \A k \in 1 .. Len(entries) :
             k # i => frees'[k] = frees[k] /\ entries'[k] = entries[k]
    <3>1. entries \in Seq(Entry) /\ frees \in Seq(Nat) /\ Len(frees) = Len(entries)
      BY Zenon, <1>1 DEF Inv, TypeOK
    <3>2. CASE is_valid(tickets[n].pid)
      <4>1. /\ \E e : entries' = [entries EXCEPT ![i] = e]
            /\ \E c : frees' = [frees EXCEPT ![i] = c]
            /\ tickets' = tickets
        BY Zenon, <2>4, <3>2 DEF Free, Deallocate
      <4> HIDE DEF i
      <4> QED
        BY <3>1, <4>1
    <3>3. CASE ~is_valid(tickets[n].pid)
      BY Zenon, <3>3 DEF Free, Deallocate, vars
    <3> QED
      BY Zenon, <3>2, <3>3
  <2> DEFINE j == tickets[m.n].idx + 1
  <2>6. j # i /\ j \in 1 .. Len(entries)
    BY <2>2, <2>3
  <2> HIDE DEF i, j
  <2>8. frees'[j] = frees[j] /\ entries'[j] = entries[j]
    BY Zenon, <2>5, <2>6
  <2>7. tickets' = tickets
    BY Zenon, <2>5
  <2> QED
    BY Zenon, <2>1, <2>7, <2>8 DEF BoxRight, j
<1> QED
  BY Zenon, <1>1, <1>2 DEF BoxesRight

(* Every mailbox in the table stays with its live owner. *)
LEMMA BoxesKept ==
  ASSUME DiscInv, [Step]_allVars
  PROVE  BoxesRight'
<1>1. CASE UNCHANGED vars /\ mailboxes' \subseteq mailboxes
  BY Zenon, <1>1 DEF vars, DiscInv, BoxesRight
<1>2. CASE Restart
  BY Zenon, <1>2 DEF Restart, BoxesRight
<1>3. ASSUME NEW n \in Actors, Close(n) PROVE BoxesRight'
  BY Zenon, <1>3, <1>1 DEF Close
<1>4. ASSUME NEW x, Unregister(x) \/ \E n \in Actors : Register(x, n) PROVE BoxesRight'
  BY Zenon, <1>4, <1>1 DEF Unregister, Register, Elsewhere
<1>5. CASE UseStep
  BY Zenon, <1>5, <1>1 DEF UseStep, Whereis, Resolve, Await, Send, Stop, Forget, nodeVars
<1>6. CASE PollAlive \/ CallStep \/ HandlerStep
  BY Zenon, <1>6, <1>1
  DEF PollAlive, CallStep, Connect, WriteName, NameTooLong, ReadAnswer, CallFails, HangUp,
      HandlerStep, ReadHead, ReadName, Find, Reply, HandlerEnds, AtStep, nodeVars
<1>7. CASE UNCHANGED allVars
  BY Zenon, <1>7, <1>1 DEF allVars, nodeVars
<1> QED
  BY Zenon, <1>2, <1>3, <1>4, <1>5, <1>6, <1>7, SpawnKeepsBoxes, FreeKeepsBoxes DEF Step, NodeStep

(* A use that reaches another actor's mailbox in the present start of the  *)
(* node has an old pid: were its slot freed fewer than GenMod times since, *)
(* is_valid would hold of it as it does of the mailbox's owner, so that    *)
(* both allocations would be live under one pid.                           *)
LEMMA ReachExplained ==
  ASSUME DiscInv, NEW ref, ref # Unbound, RefRight(ref, tickets, boot), ref.boot = boot,
         NEW m \in mailboxes, m.pid = ref.pid, m.n # ref.n
  PROVE  Freed(ref) >= GenMod
<1>1. Inv /\ ref.n \in 1 .. Len(tickets) /\ ref.pid = tickets[ref.n].pid
  BY Zenon DEF DiscInv, RefRight
<1>2. m.n \in 1 .. Len(tickets) /\ m.pid = tickets[m.n].pid /\ Live(tickets[m.n])
  BY Zenon DEF DiscInv, BoxesRight, BoxRight, Live
<1>3. frees[tickets[m.n].idx + 1] - tickets[m.n].nth < GenMod
  <2>1. tickets[m.n].nth \in Nat
    BY Zenon, <1>1, <1>2, TicketFacts
  <2> QED
    BY <1>2, <2>1, PidAssumption DEF Live
<1>4. is_valid(ref.pid)
  BY Zenon, <1>1, <1>2, <1>3, InvValid DEF ValidMeansOwnAllocation
<1>5. ~Live(tickets[ref.n])
  BY Zenon, <1>1, <1>2, InvDistinct DEF LivePidsDistinct
<1>6. ~(Freed(ref) < GenMod)
  BY Zenon, <1>1, <1>4, <1>5, InvValid DEF ValidMeansOwnAllocation, Freed
<1>7. Freed(ref) \in Int
  <2>1. /\ tickets[ref.n].nth \in Nat /\ frees[tickets[ref.n].idx + 1] \in Nat
    BY Zenon, <1>1, TicketFacts
  <2> QED
    BY <2>1 DEF Freed
<1> QED
  BY <1>6, <1>7, PidAssumption

(* send and stop add only strays that have their reason. *)
LEMMA StraysKept ==
  ASSUME DiscInv, [Step]_allVars
  PROVE  StraysExplained'
<1>1. CASE UNCHANGED strays
  BY Zenon, <1>1 DEF DiscInv, StraysExplained
<1>2. CASE Send \/ Stop
  <2>1. Reach(held) /\ held # Unbound /\ RefRight(held, tickets, boot)
    BY Zenon, <1>2 DEF Send, Stop, DiscInv, RefsRight
  <2>2. ASSUME NEW x \in mailboxes, x.pid = held.pid, <<x.n, boot>> # <<held.n, held.boot>>,
               held.boot = boot
        PROVE  Freed(held) >= GenMod
    BY Zenon, <2>1, <2>2, ReachExplained
  <2>3. ASSUME NEW s \in strays' PROVE s.restarted \/ s.freed >= GenMod
    <3>1. CASE s \in strays
      BY Zenon, <3>1 DEF DiscInv, StraysExplained
    <3>2. CASE s \notin strays
      <4>1. PICK x \in mailboxes :
              /\ x.pid = held.pid /\ <<x.n, boot>> # <<held.n, held.boot>>
              /\ s = [restarted |-> held.boot # boot,
                      freed |-> IF held.boot # boot THEN 0 ELSE Freed(held)]
        BY Zenon, <2>1, <2>3, <3>2 DEF Reach
      <4>2. s.restarted = (held.boot # boot)
        BY Zenon, <4>1
      <4>3. held.boot = boot => s.freed = Freed(held)
        BY Zenon, <4>1
      <4> QED
        BY Zenon, <2>2, <4>1, <4>2, <4>3
    <3> QED
      BY Zenon, <3>1, <3>2
  <2> QED
    BY Zenon, <2>3 DEF StraysExplained
<1>3. CASE NodeStep
  BY Zenon, <1>3, <1>1 DEF NodeStep, Spawn, Close, Free, Unregister, Register, Elsewhere, Restart
<1>4. CASE UseStep
  BY Zenon, <1>4, <1>1, <1>2 DEF UseStep, Whereis, Resolve, Await, Forget
<1>5. CASE PollAlive \/ CallStep \/ HandlerStep
  BY Zenon, <1>5, <1>1
  DEF PollAlive, CallStep, Connect, WriteName, NameTooLong, ReadAnswer, CallFails, HangUp,
      HandlerStep, ReadHead, ReadName, Find, Reply, HandlerEnds, AtStep
<1>6. CASE UNCHANGED allVars
  BY Zenon, <1>6, <1>1 DEF allVars
<1> QED
  BY Zenon, <1>3, <1>4, <1>5, <1>6 DEF Step

(* A message or a stop reaches the actor its pid was issued for or nobody  *)
(* (lib.rs:388, :669, network.rs:167), unless the slot was freed GenMod    *)
(* times since or the node restarted, for every number of slots, actors,   *)
(* names and restarts.                                                     *)
THEOREM NoUnexplainedStray == Discover => []StraysExplained
<1>1. StartState => DiscInv
  <2> SUFFICES ASSUME StartState PROVE DiscInv
    BY Zenon
  <2>1. Inv
    BY Zenon, InitInv DEF StartState
  <2> QED
    BY Zenon, <2>1 DEF StartState, DiscInv, RefsRight, RefRight, NoNames, BoxesRight, StraysExplained
<1>2. DiscInv /\ [Step]_allVars => DiscInv'
  BY Zenon, SlabKept, RefsKept, BoxesKept, StraysKept DEF DiscInv
<1>3. DiscInv => StraysExplained
  BY Zenon DEF DiscInv
<1> QED
  BY <1>1, <1>2, <1>3, PTL DEF Discover
-----------------------------------------------------------------------------
(* What a call knows: the present binding of its name is always among      *)
(* those it has seen, and so is the answer, from the moment its handler    *)
(* has it.                                                                 *)
CallInv ==
  /\ Asking => remote /\ resolve(asked) \in seen
  /\ ~Asking => sent = "nothing"
  /\ pc = "connect" => sent = "nothing"
  /\ pc = "check" => sent # "nothing"
  /\ Asking /\ sent # "nothing" /\ (handler = "reply" \/ sent = "answer") => answer \in seen
  /\ AnswerWasBound

(* A change of the registry, or of the whole node. *)
LEMMA NodeKeepsCall ==
  ASSUME CallInv, NodeStep
  PROVE  CallInv'
<1> USE DEF CallInv, Asking, AnswerWasBound
<1>1. CASE Spawn \/ \E n \in Actors : Close(n) \/ Free(n)
  BY Zenon, <1>1 DEF Spawn, Close, Free, nodeVars, callVars, resolve
<1>2. CASE Elsewhere /\ Witness
  BY Zenon, <1>2 DEF Elsewhere, Witness
<1>3. CASE Restart
  BY Zenon, <1>3 DEF Restart, Witness
<1> QED
  BY Zenon, <1>1, <1>2, <1>3 DEF NodeStep, Register, Unregister

(* A step of the caller. *)
LEMMA CallerKeepsCall ==
  ASSUME CallInv, UseStep \/ PollAlive \/ CallStep
  PROVE  CallInv'
<1> USE DEF CallInv, Asking, AnswerWasBound
<1>1. ASSUME NEW name \in Asked, Whereis(name)
      PROVE  CallInv'
  BY Zenon, <1>1 DEF Whereis, Return
<1>2. ASSUME NEW name \in Asked, Resolve(name)
      PROVE  CallInv'
  BY Zenon, <1>2 DEF Resolve, nodeVars, resolve
<1>3. CASE PollAlive \/ \E n \in Actors : Await(n)
  BY Zenon, <1>3 DEF Await, PollAlive
<1>4. CASE Send \/ Stop \/ Forget
  BY Zenon, <1>4 DEF Send, Stop, Forget, Settle
<1>5. CASE Connect
  BY Zenon, <1>5 DEF Connect, nodeVars, resolve
<1>6. CASE WriteName
  BY Zenon, <1>6 DEF WriteName, nodeVars, resolve
<1>7. CASE NameTooLong \/ CallFails
  BY Zenon, <1>7 DEF NameTooLong, CallFails, HangUp, Return
<1>8. CASE ReadAnswer
  BY Zenon, <1>8 DEF ReadAnswer, HangUp, Return
<1> QED
  BY Zenon, <1>1, <1>2, <1>3, <1>4, <1>5, <1>6, <1>7, <1>8 DEF UseStep, CallStep

(* A step of the handler. *)
LEMMA HandlerKeepsCall ==
  ASSUME CallInv, HandlerStep
  PROVE  CallInv'
<1> USE DEF CallInv, Asking, AnswerWasBound, AtStep, nodeVars, resolve
<1>1. CASE ReadHead \/ ReadName
  BY Zenon, <1>1 DEF ReadHead, ReadName
<1>2. CASE Find
  BY Zenon, <1>2 DEF Find
<1>3. CASE Reply
  BY Zenon, <1>3 DEF Reply
<1>4. CASE HandlerEnds
  BY Zenon, <1>4 DEF HandlerEnds
<1> QED
  BY Zenon, <1>1, <1>2, <1>3, <1>4 DEF HandlerStep

(* resolve_remote answers with a binding the name had during the call, and *)
(* None has one of three causes (lib.rs:351), for any names, limits and    *)
(* number of registrations, ends of actors and restarts in between.        *)
THEOREM AnswersWereBound == Discover => []AnswerWasBound
<1>1. StartState => CallInv
  BY Zenon DEF StartState, CallInv, Asking, AnswerWasBound
<1>2. CallInv /\ [Step]_allVars => CallInv'
  <2> SUFFICES ASSUME CallInv, [Step]_allVars PROVE CallInv'
    BY Zenon
  <2>1. CASE UNCHANGED allVars
    BY Zenon, <2>1 DEF allVars, nodeVars, callVars, CallInv, Asking, AnswerWasBound, resolve
  <2> QED
    BY Zenon, <2>1, NodeKeepsCall, CallerKeepsCall, HandlerKeepsCall DEF Step
<1>3. CallInv => AnswerWasBound
  BY Zenon DEF CallInv
<1> QED
  BY <1>1, <1>2, <1>3, PTL DEF Discover
-----------------------------------------------------------------------------
(* The listings of the registry.  Their definitions choose a position, the *)
(* last that is not a slash and the last that is: both exist, since every  *)
(* set of natural numbers has a least element, and a greatest one if it is *)
(* bounded.  The least one comes from the library's theorem that finite    *)
(* sets are well-founded under inclusion.                                  *)
INSTANCE FiniteSetTheorems
INSTANCE WellFoundedInduction

LEMMA Least ==
  ASSUME NEW S \in SUBSET Nat, S # {}
  PROVE  \E n \in S : \A m \in S : n <= m
<1> DEFINE R == StrictSubsetOrdering(Nat)
           T == {0 .. n : n \in S}
<1>1. IsWellFoundedOn(R, FiniteSubsetsOf(Nat))
  BY FS_StrictSubsetOrderingWellFounded
<1>2. T \subseteq FiniteSubsetsOf(Nat)
  <2>1. ASSUME NEW n \in S PROVE 0 .. n \in SUBSET Nat /\ IsFiniteSet(0 .. n)
    BY FS_Interval
  <2> QED
    BY <2>1 DEF FiniteSubsetsOf
<1>3. T # {}
  BY Zenon
<1>4. PICK x \in T : \A y \in T : ~(<<y, x>> \in R)
  BY Zenon, <1>1, <1>2, <1>3, WFMin
<1>5. PICK n \in S : x = 0 .. n
  OBVIOUS
<1>6. ASSUME NEW m \in S, m < n PROVE FALSE
  <2>1. 0 .. m \in T /\ 0 .. m \in SUBSET Nat /\ 0 .. n \in SUBSET Nat
    OBVIOUS
  <2>2. 0 .. m \subseteq 0 .. n /\ n \notin 0 .. m /\ n \in 0 .. n
    BY <1>6
  <2>3. <<0 .. m, 0 .. n>> \in R
    BY <2>1, <2>2 DEF StrictSubsetOrdering
  <2> QED
    BY Zenon, <1>4, <1>5, <2>1, <2>3
<1> QED
  BY <1>6

LEMMA Greatest ==
  ASSUME NEW S \in SUBSET Nat, S # {}, NEW b \in Nat, \A n \in S : n <= b
  PROVE  \E n \in S : \A m \in S : m <= n
<1> DEFINE T == {k \in 0 .. b : b - k \in S}
<1>1. T \in SUBSET Nat
  OBVIOUS
<1>2. \A n \in S : b - n \in T
  OBVIOUS
<1>3. T # {}
  BY Zenon, <1>2
<1>4. PICK k \in T : \A m \in T : k <= m
  BY Zenon, <1>1, <1>3, Least
<1> QED
  BY <1>2, <1>4
(* The first l characters of a name. *)
LEMMA Front ==
  ASSUME NEW s \in Seq(Char), NEW l \in 0 .. Len(s)
  PROVE  /\ SubSeq(s, 1, l) \in Seq(Char) /\ Len(SubSeq(s, 1, l)) = l
         /\ \A i \in 1 .. l : SubSeq(s, 1, l)[i] = s[i]
OBVIOUS

LEMMA FrontIs ==
  ASSUME NEW s \in Seq(Char), NEW m \in Seq(Char), NEW l \in 0 .. Len(s)
  PROVE  m = SubSeq(s, 1, l) <=> Len(m) = l /\ \A i \in 1 .. l : m[i] = s[i]
<1>1. /\ SubSeq(s, 1, l) \in Seq(Char) /\ Len(SubSeq(s, 1, l)) = l
      /\ \A i \in 1 .. l : SubSeq(s, 1, l)[i] = s[i]
  BY Zenon, Front
<1> DEFINE f == SubSeq(s, 1, l)
<1> HIDE DEF f
<1>2. ASSUME Len(m) = l, \A i \in 1 .. l : m[i] = s[i] PROVE m = f
  BY <1>1, <1>2 DEF f
<1> QED
  BY <1>1, <1>2 DEF f

(* norm gives a name's front. *)
LEMMA NormIsFront ==
  ASSUME NEW s \in Seq(Char)
  PROVE  norm(s) \in Seq(Char)
<1> DEFINE P(k) == /\ \A i \in k + 1 .. Len(s) : Slash(s, i)
                   /\ k > 0 => ~Slash(s, k)
           T == {k \in 0 .. Len(s) : \A i \in k + 1 .. Len(s) : Slash(s, i)}
<1>0. Len(s) \in Nat
  OBVIOUS
<1>1. T \in SUBSET Nat /\ Len(s) \in T
  BY <1>0
<1>2. PICK k \in T : \A m \in T : k <= m
  BY Zenon, <1>1, Least
<1>3. k > 0 => ~Slash(s, k)
  <2> SUFFICES ASSUME k > 0, Slash(s, k) PROVE FALSE
    OBVIOUS
  <2>1. k \in Nat /\ k <= Len(s) /\ \A i \in k + 1 .. Len(s) : Slash(s, i)
    BY <1>0
  <2>2. ASSUME NEW i \in (k - 1) + 1 .. Len(s) PROVE Slash(s, i)
    <3>1. i = k \/ i \in k + 1 .. Len(s)
      BY <1>0, <2>1
    <3> QED
      BY Zenon, <2>1, <3>1
  <2>3. k - 1 \in T
    BY <1>0, <2>1, <2>2
  <2>4. k <= k - 1
    BY Zenon, <1>2, <2>3
  <2> QED
    BY <2>1, <2>4
<1>4. \E j \in 0 .. Len(s) : P(j)
  BY <1>3
<1>5. (CHOOSE j \in 0 .. Len(s) : P(j)) \in 0 .. Len(s)
  BY Zenon, <1>4
<1>6. norm(s) = SubSeq(s, 1, CHOOSE j \in 0 .. Len(s) : P(j))
  BY DEF norm
<1> HIDE DEF P, T
<1> QED
  BY Zenon, <1>5, <1>6, Front

(* The front of l characters stands above a name when the next character   *)
(* is a slash, and the root always does.                                   *)
LEMMA AboveIs ==
  ASSUME NEW s \in Seq(Char), NEW m \in Seq(Char)
  PROVE  m \in Above(s) <=>
           \/ Len(m) = 0
           \/ /\ Len(m) + 1 \in 1 .. Len(s) /\ s[Len(m) + 1] = "/"
              /\ \A i \in 1 .. Len(m) : m[i] = s[i]
<1>0. Len(s) \in Nat /\ Len(m) \in Nat /\ DOMAIN s = 1 .. Len(s)
  OBVIOUS
<1>1. m \in Above(s) <=> m = << >> \/ \E j \in 1 .. Len(s) : s[j] = "/" /\ m = SubSeq(s, 1, j - 1)
  BY Zenon, <1>0 DEF Above, Slash
<1>2. m = << >> <=> Len(m) = 0
  OBVIOUS
<1>3. ASSUME NEW j \in 1 .. Len(s)
      PROVE  m = SubSeq(s, 1, j - 1) <=> Len(m) = j - 1 /\ \A i \in 1 .. j - 1 : m[i] = s[i]
  <2>1. j - 1 \in 0 .. Len(s)
    BY <1>0
  <2> QED
    BY Zenon, <2>1, FrontIs
<1>4. (\E j \in 1 .. Len(s) : s[j] = "/" /\ m = SubSeq(s, 1, j - 1)) <=>
        /\ Len(m) + 1 \in 1 .. Len(s) /\ s[Len(m) + 1] = "/"
        /\ \A i \in 1 .. Len(m) : m[i] = s[i]
  <2>1. ASSUME NEW j \in 1 .. Len(s), s[j] = "/", Len(m) = j - 1,
               \A i \in 1 .. j - 1 : m[i] = s[i]
        PROVE  /\ Len(m) + 1 \in 1 .. Len(s) /\ s[Len(m) + 1] = "/"
               /\ \A i \in 1 .. Len(m) : m[i] = s[i]
    BY <1>0, <2>1
  <2>2. ASSUME Len(m) + 1 \in 1 .. Len(s), s[Len(m) + 1] = "/",
               \A i \in 1 .. Len(m) : m[i] = s[i]
        PROVE  \E j \in 1 .. Len(s) :
                 s[j] = "/" /\ Len(m) = j - 1 /\ \A i \in 1 .. j - 1 : m[i] = s[i]
    BY <1>0, <2>2
  <2> QED
    BY Zenon, <1>3, <2>1, <2>2
<1> QED
  BY Zenon, <1>1, <1>2, <1>4

(* The parent of a name is its front before the last slash. *)
LEMMA ParentIs ==
  ASSUME NEW s \in Seq(Char), NEW m \in Seq(Char)
  PROVE  m = Parent(s) <=>
           /\ m \in Above(s)
           /\ \A j \in 1 .. Len(s) : s[j] = "/" => j <= Len(m) + 1
<1>0. Len(s) \in Nat /\ Len(m) \in Nat /\ DOMAIN s = 1 .. Len(s)
  OBVIOUS
<1> DEFINE Max(p) == \A q \in Above(s) : Len(q) <= Len(p)
           T == {n \in 0 .. Len(s) : n = 0 \/ s[n] = "/"}
<1>1. PICK n \in T : \A k \in T : k <= n
  <2>1. T \in SUBSET Nat /\ 0 \in T /\ \A k \in T : k <= Len(s)
    BY <1>0
  <2> HIDE DEF T
  <2> QED
    BY Zenon, <1>0, <2>1, Greatest
<1> DEFINE l == IF n = 0 THEN 0 ELSE n - 1
           f == SubSeq(s, 1, l)
<1>2. /\ n \in 0 .. Len(s) /\ l \in 0 .. Len(s) /\ (n = 0 \/ (l + 1 = n /\ s[l + 1] = "/"))
      /\ \A j \in 1 .. Len(s) : s[j] = "/" => j <= l + 1
  BY <1>0, <1>1
<1>3. f \in Seq(Char) /\ Len(f) = l /\ \A i \in 1 .. l : f[i] = s[i]
  BY Zenon, <1>2, Front
<1> HIDE DEF l, f, T
<1>4. f \in Above(s)
  <2>1. \/ Len(f) = 0
        \/ /\ Len(f) + 1 \in 1 .. Len(s) /\ s[Len(f) + 1] = "/"
           /\ \A i \in 1 .. Len(f) : f[i] = s[i]
    BY <1>0, <1>2, <1>3 DEF l
  <2> QED
    BY Zenon, <1>3, <2>1, AboveIs
<1>5. ASSUME NEW q \in Above(s) PROVE q \in Seq(Char) /\ Len(q) \in 0 .. l
  <2>1. q = << >> \/ \E j \in 1 .. Len(s) : s[j] = "/" /\ q = SubSeq(s, 1, j - 1)
    BY Zenon, <1>0 DEF Above, Slash
  <2>2. CASE q = << >>
    BY <1>2, <2>2
  <2>3. ASSUME NEW j \in 1 .. Len(s), s[j] = "/", q = SubSeq(s, 1, j - 1)
        PROVE  q \in Seq(Char) /\ Len(q) \in 0 .. l
    <3>1. j - 1 \in 0 .. Len(s) /\ j - 1 \in 0 .. l
      BY <1>0, <1>2, <2>3
    <3> QED
      BY Zenon, <2>3, <3>1, Front
  <2> QED
    BY Zenon, <2>1, <2>2, <2>3
<1>6. ASSUME NEW q \in Above(s), Len(q) = l PROVE q = f
  <2>1. q \in Seq(Char) /\ \A i \in 1 .. Len(q) : q[i] = s[i]
    BY <1>5, <1>6, AboveIs
  <2> QED
    BY <1>2, <1>3, <1>6, <2>1
<1>7. \A p \in Above(s) : Max(p) <=> p = f
  <2>1. ASSUME NEW p \in Above(s), Max(p) PROVE p = f
    <3>1. Len(p) = l
      BY <1>2, <1>3, <1>4, <1>5, <2>1
    <3> QED
      BY <1>6, <3>1
  <2>2. Max(f)
    BY <1>2, <1>3, <1>5
  <2> QED
    BY Zenon, <2>1, <2>2
<1>8. Parent(s) = f
  <2>1. Parent(s) = CHOOSE p \in Above(s) : Max(p)
    BY DEF Parent
  <2> HIDE DEF Max
  <2> QED
    BY Zenon, <1>4, <1>7, <2>1
<1>9. ASSUME m \in Above(s), \A j \in 1 .. Len(s) : s[j] = "/" => j <= Len(m) + 1
      PROVE  m = f
  <2>1. n <= Len(m) + 1 /\ Len(m) \in 0 .. l
    BY <1>0, <1>2, <1>5, <1>9
  <2>2. Len(m) = l
    BY <1>0, <1>2, <2>1 DEF l
  <2> QED
    BY <1>6, <1>9, <2>2
<1> QED
  BY <1>2, <1>3, <1>4, <1>8, <1>9

LEMMA StartsIs ==
  ASSUME NEW key \in Seq(Char), NEW m \in Seq(Char)
  PROVE  starts_with(key, m) <=>
           Len(m) \in 0 .. Len(key) /\ \A i \in 1 .. Len(m) : m[i] = key[i]
<1>1. starts_with(key, m) <=> Len(m) \in 0 .. Len(key) /\ m = SubSeq(key, 1, Len(m))
  BY DEF starts_with
<1>2. \A l \in 0 .. Len(key) :
        m = SubSeq(key, 1, l) <=> Len(m) = l /\ \A i \in 1 .. l : m[i] = key[i]
  BY Zenon, FrontIs
<1> QED
  BY <1>1, <1>2

(* A key is below a prefix, in the sense of list_children, when the        *)
(* normalized prefix is above it.                                          *)
LEMMA BelowIs ==
  ASSUME NEW key \in Seq(Char), NEW prefix \in Seq(Char)
  PROVE  starts_with(key, matcher(prefix)) <=> norm(prefix) \in Above(key)
<1> DEFINE n == norm(prefix)
<1>1. n \in Seq(Char)
  BY Zenon, NormIsFront
<1> HIDE DEF n
<1>2. CASE n = << >>
  <2>1. matcher(prefix) = << >>
    BY <1>2 DEF matcher, n
  <2>2. starts_with(key, << >>)
    BY DEF starts_with
  <2>3. n \in Above(key)
    BY Zenon, <1>2 DEF Above
  <2> QED
    BY Zenon, <2>1, <2>2, <2>3 DEF n
<1>3. CASE n # << >>
  <2> DEFINE m == Append(n, "/")
  <2>1. matcher(prefix) = m
    BY <1>3 DEF matcher, n
  <2>2. /\ m \in Seq(Char) /\ Len(n) \in Nat /\ Len(n) # 0 /\ Len(m) = Len(n) + 1
        /\ \A i \in 1 .. Len(n) : m[i] = n[i]
        /\ m[Len(n) + 1] = "/"
    BY <1>1, <1>3, RegistryAssumption
  <2> HIDE DEF m
  <2>3. starts_with(key, m) <=>
          Len(m) \in 0 .. Len(key) /\ \A i \in 1 .. Len(m) : m[i] = key[i]
    BY Zenon, <2>2, StartsIs
  <2>4. (Len(m) \in 0 .. Len(key) /\ \A i \in 1 .. Len(m) : m[i] = key[i]) <=>
          /\ Len(n) + 1 \in 1 .. Len(key) /\ key[Len(n) + 1] = "/"
          /\ \A i \in 1 .. Len(n) : n[i] = key[i]
    BY <2>2
  <2>5. n \in Above(key) <=>
          /\ Len(n) + 1 \in 1 .. Len(key) /\ key[Len(n) + 1] = "/"
          /\ \A i \in 1 .. Len(n) : n[i] = key[i]
    BY Zenon, <1>1, <2>2, AboveIs
  <2> QED
    BY Zenon, <2>1, <2>3, <2>4, <2>5 DEF n
<1> QED
  BY Zenon, <1>2, <1>3

(* What list_direct_children looks at behind the prefix has no slash when  *)
(* there is none behind the parent's.                                      *)
LEMMA TailIs ==
  ASSUME NEW key \in Seq(Char), NEW prefix \in Seq(Char), norm(prefix) \in Above(key)
  PROVE  (\A i \in DOMAIN Tail1(key, prefix) : ~Slash(Tail1(key, prefix), i)) <=>
           \A j \in 1 .. Len(key) : key[j] = "/" => j <= Len(norm(prefix)) + 1
<1> DEFINE n == norm(prefix)
           t == Tail1(key, prefix)
<1>1. n \in Seq(Char)
  BY Zenon, NormIsFront
<1>2. Len(n) \in Nat /\ Len(key) \in Nat
  BY <1>1
<1>3. CASE n # << >>
  <2> DEFINE k == Len(n) + 1
  <2>1. k \in 1 .. Len(key)
    BY <1>1, <1>2, <1>3, AboveIs
  <2>2. matcher(prefix) = Append(n, "/") /\ Append(n, "/") # << >> /\ Len(Append(n, "/")) = k
    BY <1>1, <1>3 DEF matcher
  <2>3. t = SubSeq(key, k + 1, Len(key))
    BY Zenon, <2>2 DEF Tail1
  <2>4. /\ DOMAIN t = 1 .. Len(key) - k
        /\ \A i \in 1 .. Len(key) - k : t[i] = key[k + i]
    BY <1>2, <2>1, <2>3
  <2> HIDE DEF n, t, k
  <2>5. (\A i \in DOMAIN t : ~Slash(t, i)) <=> \A j \in 1 .. Len(key) : key[j] = "/" => j <= k
    <3>1. ASSUME \A i \in 1 .. Len(key) - k : key[k + i] # "/",
                 NEW j \in 1 .. Len(key), key[j] = "/", j > k
          PROVE  FALSE
      <4>1. j - k \in 1 .. Len(key) - k /\ k + (j - k) = j
        BY <2>1, <3>1
      <4> QED
        BY Zenon, <3>1, <4>1
    <3>2. ASSUME \A j \in 1 .. Len(key) : key[j] = "/" => j <= k,
                 NEW i \in 1 .. Len(key) - k, key[k + i] = "/"
          PROVE  FALSE
      BY <1>2, <2>1, <3>2
    <3>3. \A j \in 1 .. Len(key) : j > k \/ j <= k
      BY <1>2, <2>1
    <3> QED
      BY Zenon, <2>4, <3>1, <3>2, <3>3 DEF Slash
  <2> QED
    BY Zenon, <2>5 DEF n, t, k
<1>4. CASE n = << >>
  <2>1. matcher(prefix) = << >> /\ Len(n) = 0
    BY <1>4 DEF matcher
  <2>2. starts_with(key, <<"/">>) <=> Len(key) > 0 /\ key[1] = "/"
    <3> DEFINE d == <<"/">>
    <3>1. d \in Seq(Char) /\ Len(d) = 1 /\ d[1] = "/"
      BY RegistryAssumption
    <3> HIDE DEF d
    <3>2. starts_with(key, d) <=>
            Len(d) \in 0 .. Len(key) /\ \A i \in 1 .. Len(d) : d[i] = key[i]
      BY Zenon, <3>1, StartsIs
    <3>3. starts_with(key, d) <=> Len(key) > 0 /\ key[1] = "/"
      BY <1>2, <3>1, <3>2
    <3> QED
      BY Zenon, <3>3 DEF d
  <2>3. CASE Len(key) > 0 /\ key[1] = "/"
    <3>1. t = Tail(key)
      BY Zenon, <2>1, <2>2, <2>3 DEF Tail1
    <3>2. /\ DOMAIN t = 1 .. Len(key) - 1
          /\ \A i \in 1 .. Len(key) - 1 : t[i] = key[i + 1]
      BY <1>2, <2>3, <3>1
    <3> HIDE DEF t, n
    <3>3. (\A i \in DOMAIN t : ~Slash(t, i)) <=> \A j \in 1 .. Len(key) : key[j] = "/" => j <= 1
      <4>1. ASSUME \A i \in 1 .. Len(key) - 1 : key[i + 1] # "/",
                   NEW j \in 1 .. Len(key), key[j] = "/", j > 1
            PROVE  FALSE
        <5>1. j - 1 \in 1 .. Len(key) - 1 /\ (j - 1) + 1 = j
          BY <1>2, <4>1
        <5> QED
          BY Zenon, <4>1, <5>1
      <4>2. ASSUME \A j \in 1 .. Len(key) : key[j] = "/" => j <= 1,
                   NEW i \in 1 .. Len(key) - 1, key[i + 1] = "/"
            PROVE  FALSE
        BY <1>2, <4>2
      <4>3. \A j \in 1 .. Len(key) : j > 1 \/ j <= 1
        BY <1>2
      <4> QED
        BY Zenon, <3>2, <4>1, <4>2, <4>3 DEF Slash
    <3> QED
      BY <2>1, <3>3 DEF t, n
  <2>4. CASE ~(Len(key) > 0 /\ key[1] = "/")
    <3>1. t = key
      BY Zenon, <2>1, <2>2, <2>4 DEF Tail1
    <3>2. \A j \in 1 .. Len(key) : key[j] = "/" => ~(j <= 1)
      BY <1>2, <2>4
    <3>3. DOMAIN key = 1 .. Len(key) /\ 0 + 1 = 1
      OBVIOUS
    <3> HIDE DEF t, n
    <3> QED
      BY Zenon, <2>1, <3>1, <3>2, <3>3 DEF Slash, t, n
  <2> QED
    BY Zenon, <2>3, <2>4
<1> QED
  BY Zenon, <1>3, <1>4

LEMMA ListingTree == ListingIsTree
<1> SUFFICES ASSUME NEW prefix \in Listed
             PROVE  /\ list_children(prefix) = {key \in Keys : norm(prefix) \in Above(key)}
                    /\ list_direct_children(prefix) = {key \in Keys : norm(prefix) = Parent(key)}
  BY Zenon DEF ListingIsTree
<1>1. prefix \in Seq(Char) /\ \A key \in Keys : key \in Seq(Char)
  BY Zenon, RegistryAssumption DEF Keys
<1>2. ASSUME NEW key \in Keys
      PROVE  starts_with(key, matcher(prefix)) <=> norm(prefix) \in Above(key)
  BY Zenon, <1>1, BelowIs
<1>3. ASSUME NEW key \in Keys
      PROVE  norm(prefix) = Parent(key) <=>
               /\ norm(prefix) \in Above(key)
               /\ \A i \in DOMAIN Tail1(key, prefix) : ~Slash(Tail1(key, prefix), i)
  <2>1. norm(prefix) \in Seq(Char)
    BY Zenon, <1>1, NormIsFront
  <2>2. norm(prefix) = Parent(key) <=>
          /\ norm(prefix) \in Above(key)
          /\ \A j \in 1 .. Len(key) : key[j] = "/" => j <= Len(norm(prefix)) + 1
    BY Zenon, <1>1, <2>1, ParentIs
  <2> QED
    BY Zenon, <1>1, <2>2, TailIs
<1>4. list_children(prefix) = {key \in Keys : norm(prefix) \in Above(key)}
  BY Zenon, <1>2 DEF list_children
<1>5. list_direct_children(prefix) = {key \in Keys : norm(prefix) = Parent(key)}
  BY Zenon, <1>2, <1>3 DEF list_direct_children, list_children
<1> QED
  BY Zenon, <1>4, <1>5

(* What list_children (registry.rs:40) and list_direct_children (:67) give *)
(* is the tree of paths, whatever names are registered and whatever prefix *)
(* is asked for, with or without slashes at its end, for relative names    *)
(* and for names with empty parts alike.                                   *)
THEOREM ListingsAreTree == Discover => []ListingIsTree
BY ListingTree, PTL
=============================================================================
