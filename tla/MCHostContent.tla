------------------------------ MODULE MCHostContent ------------------------------
(* Small instances of HostContent for TLC. *)
EXTENDS HostContent, TLC

CONSTANTS w1, w2, c1, c2, r1, plain, fancy, rough

\* One content has the file at the path, the other the application.  Each has a
\* malformed template that is good in the other; the host configures one of them.
MCFiles == (c1 :> {Exact, plain, rough}) @@ (c2 :> {Shell, plain, fancy, rough})
MCMalformed == (c1 :> {rough}) @@ (c2 :> {plain})

================================================================================
