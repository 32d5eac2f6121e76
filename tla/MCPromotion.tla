------------------------------ MODULE MCPromotion ------------------------------
(* Small instances of Promotion for TLC. *)
EXTENDS Promotion, TLC

CONSTANTS review, prod, p1, p2, page, raw, image, shell, spare, bare, full, odd

\* full has a file at p1 and no image; odd has a shell that no page uses.
MCKind == [f \in Assets \union Paths |->
  CASE f \in {shell, spare} -> "shell" [] f \in Paths -> "document" [] OTHER -> "plain"]
MCFiles == [b \in Bundles |->
  CASE b = bare -> {image, shell} [] b = full -> {shell, p1} [] b = odd -> {image, shell, spare}]
MCShellOf == [x \in Bodies |-> IF x = page THEN shell ELSE Absent]

\* Read at p1, page shows the image and its shell links to p2.
MCLinks == [x \in Sources |-> [base \in Bases |->
  IF x = shell /\ base = p1 THEN {{p2}} ELSE {}]]
MCNeeds == [x \in Sources |-> [base \in Bases |->
  CASE x = page /\ base = p1 -> {image}
    [] x = spare /\ base = NoBase -> {Nowhere}
    [] OTHER -> {}]]

================================================================================
