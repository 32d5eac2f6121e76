------------------------------ MODULE PageLedger ------------------------------
(***************************************************************************)
(* What a managed page store promises its callers, whatever stores the     *)
(* pages: the states of a tenant form a ledger that only grows, one state  *)
(* per committed write, and a write may change several pages at once but   *)
(*   - leaves no two pages of the tenant at one path,                      *)
(*   - gives every page it saves a version above all the page ever had,    *)
(*   - saves only pages whose id no other tenant ever had.                 *)
(* A caller may hold any state of the ledger, and the (id, version) it     *)
(* holds then names one content for ever.                                  *)
(***************************************************************************)
EXTENDS Integers, Sequences

CONSTANTS Tenants, ID, Absent

VARIABLE ledger  \* ledger[t][n + 1][i]: page i of tenant t at revision n

Init == ledger = [t \in Tenants |-> <<[i \in ID |-> Absent]>>]

DistinctPaths(s) ==
  \A i, j \in ID :
    s[i] # Absent /\ s[j] # Absent /\ s[i].content.path = s[j].content.path => i = j

Had(t, i) == {n \in DOMAIN ledger[t] : ledger[t][n][i] # Absent}

(* The state s of t saves page i. *)
FreshSave(t, i, s) ==
  /\ \A n \in Had(t, i) : ledger[t][n][i].version < s[i].version
  /\ \A u \in Tenants \ {t} : Had(u, i) = {}

Write(t) ==
  LET last == ledger[t][Len(ledger[t])]
      s == ledger'[t][Len(ledger[t]) + 1]
  IN /\ Len(ledger'[t]) = Len(ledger[t]) + 1
     /\ ledger' = [ledger EXCEPT ![t] = Append(@, s)]
     /\ s # last
     /\ DistinctPaths(s)
     /\ \A i \in ID : s[i] \in {Absent, last[i]} \/ FreshSave(t, i, s)

Next == \E t \in Tenants : Write(t)

Spec == Init /\ [][Next]_ledger

================================================================================
