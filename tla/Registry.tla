------------------------------ MODULE Registry ------------------------------
(***************************************************************************)
(* The NameRegistry of src/registry.rs: a concurrent map from names to     *)
(* pids.  Each operation that changes it is one call on the map, hence one *)
(* step; the listings, which iterate, are stated for a map at rest.  A     *)
(* name is a sequence of characters, of which only "/" matters; what it is *)
(* bound to is left to the module that extends this one.                   *)
(***************************************************************************)
EXTENDS Integers, Sequences

CONSTANTS Char,        \* what names are made of
          Names,       \* the names that are registered
          Listed,      \* the prefixes that are listed
          Unbound      \* resolve's None

ASSUME RegistryAssumption == "/" \in Char /\ Names \cup Listed \subseteq Seq(Char)

VARIABLE names         \* DashMap<String, Pid>

NoNames == [n \in Names |-> Unbound]

Keys == {n \in Names : names[n] # Unbound}

(* register overwrites. *)
register(name, ref) == names' = [names EXCEPT ![name] = ref]

unregister(name) == names' = [names EXCEPT ![name] = Unbound]

resolve(name) == IF name \in Names THEN names[name] ELSE Unbound

Slash(s, i) == s[i] = "/"

starts_with(s, m) == Len(m) <= Len(s) /\ SubSeq(s, 1, Len(m)) = m

(* the prefix without the slashes at its end; "" and "/" give the root *)
norm(prefix) ==
  SubSeq(prefix, 1, CHOOSE k \in 0 .. Len(prefix) :
                      /\ \A i \in k + 1 .. Len(prefix) : Slash(prefix, i)
                      /\ k > 0 => ~Slash(prefix, k))

(* the prefix with one "/" behind it, or nothing for the root *)
matcher(prefix) ==
  IF norm(prefix) = << >> THEN << >> ELSE Append(norm(prefix), "/")

list_children(prefix) == {key \in Keys : starts_with(key, matcher(prefix))}

(* what is left of a key behind the prefix; the root loses one leading "/" *)
Tail1(key, prefix) ==
  LET m == matcher(prefix)
  IN  IF m # << >> THEN SubSeq(key, Len(m) + 1, Len(key))
      ELSE IF starts_with(key, <<"/">>) THEN Tail(key) ELSE key

(* mutant: grandchildren are not left out *)
list_all_levels(prefix) == list_children(prefix)

list_direct_children(prefix) ==
  {key \in list_children(prefix) :
     \A i \in DOMAIN Tail1(key, prefix) : ~Slash(Tail1(key, prefix), i)}
-----------------------------------------------------------------------------
(* The paths above a name: what stands before each of its slashes, and the *)
(* root.                                                                   *)
Above(key) == {<< >>} \cup {SubSeq(key, 1, i - 1) : i \in {j \in DOMAIN key : Slash(key, j)}}

Parent(key) == CHOOSE p \in Above(key) : \A q \in Above(key) : Len(q) <= Len(p)

(* The listings (registry.rs:40, :67) are the tree of paths: list_children *)
(* gives the names that have the prefix above them and                     *)
(* list_direct_children those that have it as their parent, with or        *)
(* without slashes at the end of the prefix, for relative names and for    *)
(* names with empty parts alike.                                           *)
ListingIsTree ==
  \A prefix \in Listed :
    /\ list_children(prefix) = {key \in Keys : norm(prefix) \in Above(key)}
    /\ list_direct_children(prefix) = {key \in Keys : norm(prefix) = Parent(key)}
=============================================================================
