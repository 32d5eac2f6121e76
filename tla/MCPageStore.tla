------------------------------ MODULE MCPageStore ------------------------------
(* Small instances of PageStore for TLC. *)
EXTENDS PageStore, TLC

CONSTANTS t1, t2, p1, p2, b1, b2

Symmetry == Permutations(Tenants) \union Permutations(Paths)

================================================================================
