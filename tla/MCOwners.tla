------------------------------ MODULE MCOwners ------------------------------
(***************************************************************************)
(* Owners on a small instance.  Objects of a kind, and lists, may be       *)
(* exchanged for one another; descriptors may not, the kernel gives the    *)
(* lowest one.                                                             *)
(***************************************************************************)
EXTENDS Owners, TLC

OwnersSymmetry ==
  Permutations(Streams) \cup Permutations(Servers)
    \cup Permutations(Resolvers) \cup Permutations(Lists)
=============================================================================
