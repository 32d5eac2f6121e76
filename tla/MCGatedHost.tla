----------------------------- MODULE MCGatedHost ------------------------------
(* Small instances of GatedHost for TLC. *)
EXTENDS GatedHost, TLC

CONSTANTS s1, s2, s3, h1, h2, pa, r1, p1, p2

MCPreview == pa :> s1
MCTenants == <<s1, s2>>
MCDomains == {[id |-> 3, tenant |-> 1, host |-> h1, kind |-> "vanity"],
                [id |-> 4, tenant |-> 1, host |-> h2, kind |-> "vanity"]}
MCPrimary == (s1 :> h1) @@ (s2 :> NoHost) @@ (s3 :> NoHost)
MCAliases == (s1 :> {h2}) @@ (s2 :> {}) @@ (s3 :> {})
MCRight == (s1 :> p1) @@ (s2 :> p2)

================================================================================
