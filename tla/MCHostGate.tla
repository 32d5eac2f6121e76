------------------------------ MODULE MCHostGate ------------------------------
(* Small instances of HostGate for TLC. *)
EXTENDS HostGate, TLC

CONSTANTS s1, s2, s3, h1, h2, pa, r1

MCPreview == pa :> s1
MCTenants == <<s1, s2>>
MCDomains == {[id |-> 3, tenant |-> 1, host |-> h1, kind |-> "vanity"],
                [id |-> 4, tenant |-> 1, host |-> h2, kind |-> "vanity"]}
MCPrimary == (s1 :> h1) @@ (s2 :> NoHost) @@ (s3 :> NoHost)
MCAliases == (s1 :> {h2}) @@ (s2 :> {}) @@ (s3 :> {})

================================================================================
