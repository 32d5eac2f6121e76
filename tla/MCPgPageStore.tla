----------------------------- MODULE MCPgPageStore -----------------------------
(* A small instance of PgPageStore for TLC. *)
EXTENDS PgPageStore

CONSTANTS t1, t2, w1, w2, p1, p2, b1, b2

================================================================================
