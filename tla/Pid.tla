-------------------------------- MODULE Pid --------------------------------
(***************************************************************************)
(* The generational slab allocator of src/pid.rs.  Every call happens      *)
(* under Runtime.slab's mutex, so an operation is one step.                *)
(*                                                                         *)
(* A slot is reused last-in first-out and its generation is bumped, modulo *)
(* the width of a u32, each time it is freed.  The history variables frees *)
(* and tickets give every allocation an identity that never wraps, against *)
(* which the 64-bit identifier the program hands out is judged.            *)
(***************************************************************************)
EXTENDS Integers, Sequences, FiniteSets

CONSTANTS GenMod,      \* number of generations: 2^32 in the code
          IdxMod,      \* number of slot indexes a pid can carry: 2^32 in the code
          MaxFrees     \* bound of the model: how often one slot is freed

ASSUME PidAssumption ==
  /\ GenMod \in Nat /\ GenMod > 1
  /\ IdxMod \in Nat \ {0}
  /\ MaxFrees \in Nat

VARIABLES entries,     \* Vec<Entry>; slot idx is entries[idx + 1]
          free_list,   \* Vec<usize>, used as a stack
          frees,       \* history: how often each slot has been freed
          tickets      \* history: every allocation made, in order

vars == <<entries, free_list, frees, tickets>>

Entry == [generation : 0 .. GenMod - 1, occupied : BOOLEAN]

Occupy(e) == [generation |-> e.generation, occupied |-> TRUE]

make_pid(idx, gen) == gen * IdxMod + idx

pid_index(pid) == pid % IdxMod

pid_generation(pid) == pid \div IdxMod

Ticket == [pid : Nat, idx : 0 .. IdxMod - 1, nth : Nat]

PidSpace == 0 .. GenMod * IdxMod - 1

(* Mutant: the generation is not bumped. *)
keep_generation(gen) == gen

wrapping_add1(gen) == (gen + 1) % GenMod

is_valid(pid) ==
  LET idx == pid_index(pid)
  IN  /\ idx < Len(entries)
      /\ entries[idx + 1].occupied
      /\ entries[idx + 1].generation = pid_generation(pid)

Init ==
  /\ entries = << >>
  /\ free_list = << >>
  /\ frees = << >>
  /\ tickets = << >>

(* A ticket names one allocation: the pid that was returned, the slot, and *)
(* how often the slot had been freed by then.                              *)
Issue(idx, gen, nth) ==
  tickets' = Append(tickets, [pid |-> make_pid(idx, gen), idx |-> idx, nth |-> nth])

(* Mutant: the free list is read without being popped. *)
AllocatePeeked ==
  /\ free_list # << >>
  /\ LET idx == free_list[Len(free_list)]
     IN  /\ entries' = [entries EXCEPT ![idx + 1] = Occupy(@)]
         /\ Issue(idx, entries[idx + 1].generation, frees[idx + 1])
  /\ UNCHANGED <<free_list, frees>>

(* allocate, free_list not empty: pop it and occupy that slot. *)
AllocateReused ==
  /\ free_list # << >>
  /\ LET idx == free_list[Len(free_list)]
     IN  /\ free_list' = SubSeq(free_list, 1, Len(free_list) - 1)
         /\ entries' = [entries EXCEPT ![idx + 1] = Occupy(@)]
         /\ Issue(idx, entries[idx + 1].generation, frees[idx + 1])
  /\ UNCHANGED frees

(* Mutant: a new slot starts with generation 0. *)
AllocateFromZero ==
  /\ free_list = << >>
  /\ Len(entries) < IdxMod
  /\ entries' = Append(entries, [generation |-> 0, occupied |-> TRUE])
  /\ frees' = Append(frees, 0)
  /\ Issue(Len(entries), 0, 0)
  /\ UNCHANGED free_list

(* allocate, free_list empty: push a new entry of generation 1. *)
AllocateNew ==
  /\ free_list = << >>
  /\ Len(entries) < IdxMod
  /\ entries' = Append(entries, [generation |-> 1, occupied |-> TRUE])
  /\ frees' = Append(frees, 0)
  /\ Issue(Len(entries), 1, 0)
  /\ UNCHANGED free_list

(* deallocate(pid) for any pid a caller may still hold: the early returns  *)
(* refuse an index out of range, a free slot and another generation.       *)
Deallocate(pid) ==
  LET idx == pid_index(pid)
  IN  IF is_valid(pid)
      THEN /\ frees[idx + 1] < MaxFrees
           /\ entries' = [entries EXCEPT
                ![idx + 1] = [generation |-> wrapping_add1(@.generation),
                              occupied |-> FALSE]]
           /\ free_list' = Append(free_list, idx)
           /\ frees' = [frees EXCEPT ![idx + 1] = @ + 1]
           /\ UNCHANGED tickets
      ELSE UNCHANGED vars

Next ==
  \/ AllocateReused
  \/ AllocateNew
  \/ \E pid \in PidSpace : Deallocate(pid)

Spec == Init /\ [][Next]_vars
----------------------------------------------------------------------------
(* Type invariant: the Vec fields of SlabAllocator hold slots, indexes and *)
(* the histories their counts.                                             *)
TypeOK ==
  /\ entries \in Seq(Entry)
  /\ Len(entries) <= IdxMod
  /\ free_list \in Seq(0 .. IdxMod - 1)
  /\ frees \in Seq(Nat)
  /\ Len(frees) = Len(entries)
  /\ tickets \in Seq(Ticket)

(* free_list (pid.rs:17) holds exactly the unoccupied slots and none of    *)
(* them twice: allocate can neither hand out a slot in use nor leak one.   *)
FreeListExact ==
  /\ \A i, j \in 1 .. Len(free_list) : i # j => free_list[i] # free_list[j]
  /\ \A idx \in 0 .. IdxMod - 1 :
       (\E i \in 1 .. Len(free_list) : free_list[i] = idx)
         <=> (idx < Len(entries) /\ ~entries[idx + 1].occupied)

(* The allocation t stands for has not been freed. *)
Live(t) == entries[t.idx + 1].occupied /\ frees[t.idx + 1] = t.nth

(* is_valid (pid.rs:63) answers for the allocation a pid was issued for,   *)
(* and for no other one of the same slot, for as long as the slot has been *)
(* freed fewer than GenMod times since: stale pids are refused, live ones  *)
(* never are.                                                              *)
ValidMeansOwnAllocation ==
  \A n \in 1 .. Len(tickets) :
    LET t == tickets[n]
    IN  frees[t.idx + 1] - t.nth < GenMod => (is_valid(t.pid) <=> Live(t))

(* Two allocations that are live at once never share a pid (pid.rs:30).    *)
LivePidsDistinct ==
  \A m, n \in 1 .. Len(tickets) :
    m # n /\ Live(tickets[m]) /\ Live(tickets[n])
      => tickets[m].pid # tickets[n].pid

(* Pid 0, which the resolve protocol uses for "no such name"               *)
(* (network.rs:186), is not handed out before slot 0 has been freed        *)
(* GenMod - 1 times.                                                       *)
ZeroOnlyAfterWrap ==
  \A n \in 1 .. Len(tickets) :
    tickets[n].pid = 0 => tickets[n].idx = 0 /\ tickets[n].nth >= GenMod - 1
============================================================================
