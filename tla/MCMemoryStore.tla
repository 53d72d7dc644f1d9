--------------------------- MODULE MCMemoryStore ---------------------------
(***************************************************************************)
(* Instances of MemoryStore for TLC: one contended path, two or three      *)
(* simultaneous Store calls, a TTL and a namespace policy that fall due    *)
(* within the clock.                                                       *)
(***************************************************************************)
EXTENDS MemoryStore, TLC

MCMaxAge == [p \in Paths |-> 0]
MCNoMaxAge == [p \in Paths |-> NULL]
MCExpiries == {NULL, 1}
MCNoExpiry == {NULL}

Symmetry == Permutations(Writers)
=============================================================================
