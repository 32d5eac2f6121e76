---------------------------- MODULE MCMediaUploads ----------------------------
(* Small instances of MediaUploads for TLC. *)
EXTENDS MediaUploads, TLC

CONSTANTS u1, u2, d1, n1, n2

Symmetry == Permutations(Uploads) \union Permutations(Names)

================================================================================
