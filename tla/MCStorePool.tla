---------------------------- MODULE MCStorePool ----------------------------
(* Instances of StorePool for TLC. *)
EXTENDS StorePool, TLC

CONSTANTS c1, c2, c3, p1, p2, p3

ConnSymmetry == Permutations({c1, c2, c3})

PageSymmetry == Permutations({p1, p2})
============================================================================
