----------------------------- MODULE MCMailbox -----------------------------
(* Instances of the mailbox: matchers that accept one payload, the system  *)
(* message, or both of these.                                              *)
EXTENDS Mailbox, TLC

CONSTANTS s1, s2, u, v, x

MCMatchers == {{v}, {x}, {v, x}}

MCSymmetry == Permutations(Senders)
============================================================================
