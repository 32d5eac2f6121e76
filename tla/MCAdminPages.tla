------------------------------ MODULE MCAdminPages ------------------------------
(* Small instances of AdminPages for TLC. *)
EXTENDS AdminPages

CONSTANTS t1, t2, p1, p2, p3, b1, raw

(* raw is a body the form cannot hold as it is stored. *)
ShownBody(b) == b1

(* It is how the first page is stored. *)
RawPage == [path |-> p1, body |-> raw]

================================================================================
