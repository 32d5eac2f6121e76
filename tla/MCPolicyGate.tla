----------------------------- MODULE MCPolicyGate -----------------------------
(* Small instances of PolicyGate for TLC. *)
EXTENDS PolicyGate, TLC

CONSTANTS t1, t2, p1, p2, r1, r2

MCRight == (t1 :> p1) @@ (t2 :> p2)

Symmetry == Permutations(Requests)

================================================================================
