---------------------------- MODULE HostGateProofs ----------------------------
(* What holds of the tenant directory, its lookups and the requests through  *)
(* the gate, for every number of tenants, hosts, readers and changes, proved. *)
EXTENDS GatedHost, TLAPS

--------------------------------------------------------------------------------
(* The directory. *)

(* Every id in use or retired has been given out. *)
IDsAreGiven ==
  /\ DOMAIN tenants \union retired \subseteq 1..nextID
  /\ \A d \in domains : d.id \in 1..nextID

StoreTypeOK ==
  /\ DOMAIN tenants \subseteq IDs /\ tenants \in [DOMAIN tenants -> Slugs]
  /\ domains \subseteq Domain
  /\ nextID \in 0..MaxID
  /\ retired \subseteq IDs
  /\ provisioning \subseteq Provision
  /\ changes \in 0..MaxChanges

StoreInv == StoreTypeOK /\ DirectoryIsSound /\ IDsAreGiven

store == <<tenants, domains, nextID, retired, provisioning>>

LEMMA ListedTenants ==
  ASSUME NEW id \in DOMAIN tenants
  PROVE  <<id, tenants[id]>> \in Listed
BY DEF Listed

LEMMA StoreInit == DirectoryInit => StoreInv
<1> SUFFICES ASSUME DirectoryInit PROVE StoreInv
  OBVIOUS
<1>1. /\ tenants = SeedTenants /\ domains = SeedDomains /\ nextID = Seeded /\ retired = {}
      /\ provisioning = {} /\ changes = 0
  BY DEF DirectoryInit
<1>2. 1..Seeded \subseteq IDs /\ Seeded \in 0..MaxID /\ MaxChanges \in Nat
  BY SeedAssumption, DirectoryAssumption DEF IDs
<1>3. SeedDomains \subseteq Domain
  <2>1. ASSUME NEW d \in SeedDomains PROVE d \in Domain
    <3>1. d \in [id : 1..Seeded, tenant : DOMAIN SeedTenants, host : Hosts, kind : Kinds]
      BY SeedAssumption
    <3>2. DOMAIN SeedTenants \subseteq IDs
      BY <1>2, SeedAssumption
    <3> QED
      BY <1>2, <3>1, <3>2 DEF Domain
  <2> QED
    BY <2>1
<1>4. StoreTypeOK
  BY <1>1, <1>2, <1>3, SeedAssumption DEF StoreTypeOK
<1>5. DirectoryIsSound
  BY <1>1, SeedAssumption DEF DirectoryIsSound
<1>6. IDsAreGiven
  BY <1>1, SeedAssumption DEF IDsAreGiven
<1> QED
  BY <1>4, <1>5, <1>6 DEF StoreInv

LEMMA NewIDIsNew ==
  ASSUME StoreInv, NewID \in IDs
  PROVE  /\ NewID \notin DOMAIN tenants /\ NewID \notin retired
         /\ \A d \in domains : d.id # NewID
         /\ NewID \in 0..MaxID /\ NewID = nextID + 1 /\ NewID \in 1..NewID
         /\ 1..nextID \subseteq 1..NewID
BY DirectoryAssumption DEF StoreInv, IDsAreGiven, StoreTypeOK, NewID, IDs

LEMMA CreateTenantStep ==
  ASSUME StoreInv, NEW s \in Slugs, CreateTenant(s)
  PROVE  StoreInv'
<1>1. /\ NewID \in IDs /\ SlugFree(s, DOMAIN tenants) /\ nextID' = NewID
      /\ tenants' = [id \in DOMAIN tenants \union {NewID} |-> IF id = NewID THEN s ELSE tenants[id]]
      /\ provisioning' = provisioning \union {[tenant |-> NewID, slug |-> s]}
      /\ domains' = domains /\ retired' = retired
      /\ changes < MaxChanges /\ changes' = changes + 1
  BY DEF CreateTenant, Observed
<1>2. /\ NewID \notin DOMAIN tenants /\ NewID \notin retired
      /\ NewID \in 0..MaxID /\ NewID \in 1..NewID
      /\ 1..nextID \subseteq 1..NewID
  BY <1>1, NewIDIsNew
<1> DEFINE new == NewID
<1>3. new = NewID
  OBVIOUS
<1> HIDE DEF new
<1>4. /\ DOMAIN tenants' = DOMAIN tenants \union {new} /\ tenants'[new] = s
      /\ \A id \in DOMAIN tenants : tenants'[id] = tenants[id]
  BY <1>1, <1>2, <1>3
<1>5. StoreTypeOK'
  <2>1. tenants' \in [DOMAIN tenants' -> Slugs] /\ DOMAIN tenants' \subseteq IDs
    BY <1>1, <1>2, <1>3, <1>4 DEF StoreInv, StoreTypeOK
  <2>2. provisioning' \subseteq Provision
    BY <1>1, <1>3 DEF StoreInv, StoreTypeOK, Provision
  <2>3. changes' \in 0..MaxChanges
    BY <1>1, DirectoryAssumption DEF StoreInv, StoreTypeOK
  <2> QED
    BY <1>1, <1>2, <2>1, <2>2, <2>3 DEF StoreInv, StoreTypeOK
<1>6. DirectoryIsSound'
  BY <1>1, <1>2, <1>3, <1>4 DEF StoreInv, DirectoryIsSound, SlugFree
<1>7. IDsAreGiven'
  BY <1>1, <1>2, <1>3, <1>4 DEF StoreInv, IDsAreGiven
<1> QED
  BY <1>5, <1>6, <1>7 DEF StoreInv

LEMMA AddDomainStep ==
  ASSUME StoreInv, NEW t, NEW h \in Hosts, NEW k \in Kinds, AddDomain(t, h, k),
         UNCHANGED <<tenants, retired>>, provisioning' \subseteq provisioning,
         changes < MaxChanges, changes' = changes + 1
  PROVE  StoreInv'
<1> DEFINE new == [id |-> NewID, tenant |-> t, host |-> h, kind |-> k]
<1>1. /\ NewID \in IDs /\ t \in DOMAIN tenants /\ (\A d \in domains : d.host # h)
      /\ nextID' = NewID /\ domains' = domains \union {new}
  BY DEF AddDomain, DomainAllowed, TenantExists, HostFree
<1>2. /\ \A d \in domains : d.id # NewID
      /\ NewID \in 0..MaxID /\ NewID \in 1..NewID
      /\ 1..nextID \subseteq 1..NewID
  BY <1>1, NewIDIsNew
<1>3. new \in Domain /\ new.id = NewID /\ new.host = h /\ new.tenant = t
  BY <1>1 DEF StoreInv, StoreTypeOK, Domain
<1> HIDE DEF new
<1>4. changes' \in 0..MaxChanges
  BY DirectoryAssumption DEF StoreInv, StoreTypeOK
<1>5. StoreTypeOK'
  BY <1>1, <1>2, <1>3, <1>4 DEF StoreInv, StoreTypeOK
<1>6. DirectoryIsSound'
  BY <1>1, <1>2, <1>3 DEF StoreInv, DirectoryIsSound
<1>7. IDsAreGiven'
  BY <1>1, <1>2, <1>3 DEF StoreInv, IDsAreGiven
<1> QED
  BY <1>5, <1>6, <1>7 DEF StoreInv

LEMMA UpdateTenantStep ==
  ASSUME StoreInv, NEW t \in IDs, NEW s \in Slugs, UpdateTenant(t, s)
  PROVE  StoreInv'
<1>1. /\ t \in DOMAIN tenants /\ (\A id \in DOMAIN tenants \ {t} : tenants[id] # s)
      /\ tenants' = [tenants EXCEPT ![t] = s]
      /\ UNCHANGED <<domains, nextID, retired, provisioning>>
      /\ changes < MaxChanges /\ changes' = changes + 1
  BY DEF UpdateTenant, Observed, TenantExists, SlugFree
<1>2. /\ DOMAIN tenants' = DOMAIN tenants
      /\ tenants' \in [DOMAIN tenants' -> Slugs]
      /\ \A id \in DOMAIN tenants : tenants'[id] = IF id = t THEN s ELSE tenants[id]
  BY <1>1 DEF StoreInv, StoreTypeOK
<1>3. changes' \in 0..MaxChanges
  BY <1>1, DirectoryAssumption DEF StoreInv, StoreTypeOK
<1>4. StoreTypeOK'
  BY <1>1, <1>2, <1>3 DEF StoreInv, StoreTypeOK
<1>5. DirectoryIsSound'
  BY <1>1, <1>2 DEF StoreInv, DirectoryIsSound
<1>6. IDsAreGiven'
  BY <1>1, <1>2 DEF StoreInv, IDsAreGiven
<1> QED
  BY <1>4, <1>5, <1>6 DEF StoreInv

LEMMA DeleteTenantStep ==
  ASSUME StoreInv, NEW t \in IDs, DeleteTenant(t)
  PROVE  StoreInv'
<1>1. /\ t \in DOMAIN tenants /\ tenants' = [id \in DOMAIN tenants \ {t} |-> tenants[id]]
      /\ domains' = {d \in domains : d.tenant # t} /\ retired' = retired \union {t}
      /\ UNCHANGED <<nextID, provisioning>>
      /\ changes < MaxChanges /\ changes' = changes + 1
  BY DEF DeleteTenant, Observed, TenantExists, WithoutDomainsOf
<1>2. /\ DOMAIN tenants' = DOMAIN tenants \ {t}
      /\ tenants' \in [DOMAIN tenants' -> Slugs]
      /\ \A id \in DOMAIN tenants' : tenants'[id] = tenants[id]
  BY <1>1 DEF StoreInv, StoreTypeOK
<1>3. changes' \in 0..MaxChanges
  BY <1>1, DirectoryAssumption DEF StoreInv, StoreTypeOK
<1>4. StoreTypeOK'
  BY <1>1, <1>2, <1>3 DEF StoreInv, StoreTypeOK
<1>5. DirectoryIsSound'
  BY <1>1, <1>2 DEF StoreInv, DirectoryIsSound
<1>6. IDsAreGiven'
  BY <1>1, <1>2 DEF StoreInv, IDsAreGiven
<1> QED
  BY <1>4, <1>5, <1>6 DEF StoreInv

LEMMA DeleteDomainStep ==
  ASSUME StoreInv, NEW t, NEW d, DeleteDomain(t, d)
  PROVE  StoreInv'
<1>1. /\ domains' = domains \ {d} /\ UNCHANGED <<tenants, nextID, retired, provisioning>>
      /\ changes < MaxChanges /\ changes' = changes + 1
  BY DEF DeleteDomain, Observed
<1>2. changes' \in 0..MaxChanges
  BY <1>1, DirectoryAssumption DEF StoreInv, StoreTypeOK
<1> QED
  BY <1>1, <1>2 DEF StoreInv, StoreTypeOK, DirectoryIsSound, IDsAreGiven

LEMMA AdministerStep == ASSUME StoreInv, Administer PROVE StoreInv'
<1>1. ASSUME NEW p \in provisioning, ProvisionPreview(p) PROVE StoreInv'
  <2>1. PICK h \in PreviewHosts(p.slug) : AddDomain(p.tenant, h, "preview")
    BY <1>1 DEF ProvisionPreview
  <2>2. h \in Hosts
    BY DirectoryAssumption DEF PreviewHosts
  <2> QED
    BY <1>1, <2>1, <2>2, AddDomainStep DEF ProvisionPreview, Observed, Kinds
<1>2. ASSUME NEW p \in provisioning, SkipPreview(p) PROVE StoreInv'
  BY <1>2 DEF SkipPreview, StoreInv, StoreTypeOK, DirectoryIsSound, IDsAreGiven
<1>3. ASSUME NEW t \in IDs, NEW h \in Hosts, NEW k \in Kinds \union {""}, CreateDomain(t, h, k)
      PROVE  StoreInv'
  BY <1>3, AddDomainStep DEF CreateDomain, KindGiven, Observed, Kinds
<1> QED
  BY <1>1, <1>2, <1>3, CreateTenantStep, UpdateTenantStep, DeleteTenantStep, DeleteDomainStep
     DEF Administer

--------------------------------------------------------------------------------
(* Owners: who has a host at one moment. *)

LEMMA OwnerAmong ==
  ASSUME NEW ds, NEW ids, \A d, e \in ds : d.host = e.host => d = e,
         \A d \in ds : d.tenant \in ids, NEW h
  PROVE  /\ \A d \in ds : d.host = h => OwnerIn(ds, h) = d.tenant
         /\ (\A d \in ds : d.host # h) => OwnerIn(ds, h) = NoOwner
         /\ OwnerIn(ds, h) \in ids \union {NoOwner}
<1>1. CASE \A d \in ds : d.host # h
  BY <1>1 DEF OwnerIn
<1>2. CASE \E d \in ds : d.host = h
  <2> DEFINE d == CHOOSE e \in ds : e.host = h
  <2>1. d \in ds /\ d.host = h
    BY <1>2
  <2>2. OwnerIn(ds, h) = d.tenant
    BY <1>2 DEF OwnerIn
  <2> HIDE DEF d
  <2> QED
    BY <2>1, <2>2
<1> QED
  BY <1>1, <1>2

LEMMA OwnerOf ==
  ASSUME StoreInv, NEW h
  PROVE  /\ \A d \in domains : d.host = h => OwnerIn(domains, h) = d.tenant
         /\ (\A d \in domains : d.host # h) => OwnerIn(domains, h) = NoOwner
         /\ OwnerIn(domains, h) \in DOMAIN tenants \union {NoOwner}
BY OwnerAmong DEF StoreInv, DirectoryIsSound

LEMMA NoOwnerIsNobody == StoreInv => NoOwner \notin DOMAIN tenants /\ DOMAIN tenants \subseteq IDs
BY DirectoryAssumption DEF StoreInv, StoreTypeOK, IDs, NoOwner

LEMMA OneDomainMore ==
  Administer => domains' \subseteq domains
             \/ \E t, k : \E h \in Hosts : AddDomain(t, h, k)
<1>1. ASSUME NEW p \in provisioning, ProvisionPreview(p)
      PROVE  \E t, k : \E h \in Hosts : AddDomain(t, h, k)
  BY <1>1, DirectoryAssumption DEF ProvisionPreview, PreviewHosts
<1>2. ASSUME NEW t \in IDs, NEW h \in Hosts, NEW k \in Kinds \union {""}, CreateDomain(t, h, k)
      PROVE  \E u, kind : \E host \in Hosts : AddDomain(u, host, kind)
  BY <1>2 DEF CreateDomain
<1> QED
  BY <1>1, <1>2 DEF Administer, CreateTenant, SkipPreview, UpdateTenant, DeleteTenant,
                    WithoutDomainsOf, DeleteDomain

(* A change of the directory gives no host away that somebody has. *)
LEMMA DomainMoves ==
  ASSUME Administer, NEW e \in domains'
  PROVE  e \in domains \/ \A d \in domains : d.host # e.host
<1>1. ASSUME NEW t, NEW k, NEW h \in Hosts, AddDomain(t, h, k)
      PROVE  e \in domains \/ \A d \in domains : d.host # e.host
  BY <1>1 DEF AddDomain, DomainAllowed, HostFree
<1> QED
  BY <1>1, OneDomainMore

LEMMA OwnerMoves ==
  ASSUME StoreInv, Administer, NEW h
  PROVE  /\ \/ OwnerIn(domains, h) = NoOwner
            \/ OwnerIn(domains', h) = NoOwner
            \/ OwnerIn(domains', h) = OwnerIn(domains, h)
         /\ OwnerIn(domains', h) \in IDs \union {NoOwner}
<1>1. /\ \A d, e \in domains' : d.host = e.host => d = e
      /\ \A d \in domains' : d.tenant \in IDs
  BY AdministerStep DEF StoreInv, DirectoryIsSound, StoreTypeOK
<1>2. /\ \A d \in domains' : d.host = h => OwnerIn(domains', h) = d.tenant
      /\ (\A d \in domains' : d.host # h) => OwnerIn(domains', h) = NoOwner
      /\ OwnerIn(domains', h) \in IDs \union {NoOwner}
  BY <1>1, OwnerAmong
<1>3. CASE \E d \in domains, e \in domains' : d.host = h /\ e.host = h
  <2>1. PICK d \in domains, e \in domains' : d.host = h /\ e.host = h
    BY <1>3
  <2>2. e \in domains
    BY <2>1, DomainMoves
  <2>3. d = e
    BY <2>1, <2>2 DEF StoreInv, DirectoryIsSound
  <2>4. OwnerIn(domains, h) = d.tenant
    BY <2>1, OwnerOf
  <2> QED
    BY <1>2, <2>1, <2>3, <2>4
<1>4. CASE \A d \in domains : d.host # h
  BY <1>2, <1>4, OwnerOf
<1>5. CASE \A e \in domains' : e.host # h
  BY <1>2, <1>5
<1> QED
  BY <1>3, <1>4, <1>5

--------------------------------------------------------------------------------
(* Lookups. *)

LookupTypeOK ==
  /\ lookup \in [Readers -> Lookup]
  /\ owners \in [Readers -> SUBSET (IDs \union {NoOwner})]

(* The answer was true at a moment at which one of os had the host. *)
TrueAnswer(l, os) ==
  /\ l.answer = Nobody => NoOwner \in os
  /\ l.answer # Nobody =>
       \/ l.answer.id \in os
       \/ NoOwner \in os /\ l.host \in DOMAIN PreviewSlug /\ l.answer.slug = PreviewSlug[l.host]

(* The owner is among the tenants still to be read, or else there was a    *)
(* moment at which nobody had the host.                                    *)
LookupOK(l, os) ==
  /\ l.stage # "done" => l.answer = Nobody /\ OwnerIn(domains, l.host) \in os
  /\ l.stage = "domains" =>
       NoOwner \in os \/ \E t \in l.todo : t[1] = OwnerIn(domains, l.host)
  /\ l.stage = "slug" => NoOwner \in os /\ l.host \in DOMAIN PreviewSlug
  /\ l.stage = "done" /\ os # {} => TrueAnswer(l, os)

LookupsOK == \A r \in Readers : LookupOK(lookup[r], owners[r])

LookupInv == StoreInv /\ LookupTypeOK /\ LookupsOK

LEMMA LookupTypes ==
  ASSUME LookupTypeOK, NEW r \in Readers
  PROVE  /\ lookup[r] \in Lookup
         /\ lookup[r].stage \in Stages /\ lookup[r].host \in Hosts
         /\ lookup[r].todo \subseteq IDs \X Slugs
         /\ lookup[r].answer \in TenantInfo \union {Nobody}
         /\ owners[r] \subseteq IDs \union {NoOwner}
BY DEF LookupTypeOK, Lookup

LEMMA DirectoryStarts == DirectoryInit => LookupInv
<1> SUFFICES ASSUME DirectoryInit PROVE LookupInv
  OBVIOUS
<1>1. (CHOOSE h \in Hosts : TRUE) \in Hosts
  BY DirectoryAssumption
<1>2. [Started(CHOOSE h \in Hosts : TRUE) EXCEPT !.stage = "done"] \in Lookup
  BY <1>1 DEF Started, Lookup, Stages
<1>3. LookupTypeOK
  BY <1>2 DEF DirectoryInit, LookupTypeOK
<1>4. \A r \in Readers : lookup[r].stage = "done" /\ owners[r] = {}
  BY DEF DirectoryInit, Started
<1>5. LookupsOK
  BY <1>4 DEF LookupsOK, LookupOK
<1> QED
  BY <1>3, <1>5, StoreInit DEF LookupInv

(* A change of the directory while lookups go on. *)
LEMMA LookupsSee ==
  ASSUME LookupInv, Administer
  PROVE  LookupInv'
<1>1. StoreInv /\ StoreInv'
  BY AdministerStep DEF LookupInv
<1>2. lookup' = lookup
  BY DEF Administer, CreateTenant, ProvisionPreview, SkipPreview, UpdateTenant, DeleteTenant,
         CreateDomain, DeleteDomain, Observed, reading
<1>3. \/ owners' = [r \in Readers |-> IF lookup[r].stage = "done" THEN owners[r]
                                      ELSE owners[r] \union {OwnerIn(domains', lookup[r].host)}]
      \/ owners' = owners /\ domains' = domains
  BY DEF Administer, CreateTenant, ProvisionPreview, SkipPreview, UpdateTenant, DeleteTenant,
         CreateDomain, DeleteDomain, Observed, reading
<1>4. ASSUME NEW r \in Readers
      PROVE  owners'[r] \subseteq IDs \union {NoOwner} /\ LookupOK(lookup[r], owners[r])'
  <2> DEFINE l == lookup[r]
             o == OwnerIn(domains, l.host)
             n == OwnerIn(domains', l.host)
  <2>1. /\ o = NoOwner \/ n = NoOwner \/ n = o
        /\ n \in IDs \union {NoOwner}
    BY <1>1, OwnerMoves
  <2>2. LookupOK(l, owners[r]) /\ owners[r] \subseteq IDs \union {NoOwner}
    BY LookupTypes DEF LookupInv, LookupsOK
  <2>3. \/ owners'[r] = IF l.stage = "done" THEN owners[r] ELSE owners[r] \union {n}
        \/ owners'[r] = owners[r] /\ n = o
    BY <1>3
  <2> HIDE DEF o, n
  <2>4. owners'[r] \subseteq IDs \union {NoOwner} /\ owners[r] \subseteq owners'[r]
    BY <2>1, <2>2, <2>3
  <2>5. l.stage # "done" => l.answer = Nobody /\ o \in owners[r] /\ n \in owners'[r]
    BY <2>2, <2>3 DEF LookupOK, o
  <2>6. l.stage = "domains" => NoOwner \in owners'[r] \/ \E t \in l.todo : t[1] = n
    BY <2>1, <2>2, <2>4, <2>5 DEF LookupOK, o
  <2>7. l.stage = "slug" => NoOwner \in owners'[r] /\ l.host \in DOMAIN PreviewSlug
    BY <2>2, <2>4 DEF LookupOK
  <2>8. l.stage = "done" /\ owners'[r] # {} => TrueAnswer(l, owners'[r])
    BY <2>2, <2>3 DEF LookupOK
  <2>9. LookupOK(lookup[r], owners[r])'
    BY <1>2, <2>5, <2>6, <2>7, <2>8 DEF LookupOK, TrueAnswer, n
  <2> QED
    BY <2>4, <2>9
<1>5. LookupTypeOK'
  BY <1>2, <1>3, <1>4 DEF LookupInv, LookupTypeOK
<1>6. LookupsOK'
  BY <1>2, <1>4 DEF LookupsOK
<1> QED
  BY <1>1, <1>5, <1>6 DEF LookupInv

(* The directory stays as it is while one lookup moves to l. *)
LEMMA LookupMoves ==
  ASSUME LookupInv, UNCHANGED directory, NEW r \in Readers, NEW l \in Lookup,
         NEW os \in SUBSET (IDs \union {NoOwner}),
         lookup' = [lookup EXCEPT ![r] = l], owners' = [owners EXCEPT ![r] = os],
         LookupOK(l, os)
  PROVE  LookupInv' /\ lookup'[r] = l
<1>1. UNCHANGED <<tenants, domains, nextID, retired, provisioning, changes>>
  BY DEF directory
<1>2. StoreInv'
  BY <1>1 DEF LookupInv, StoreInv, StoreTypeOK, DirectoryIsSound, IDsAreGiven
<1>3. LookupTypeOK' /\ lookup'[r] = l
  BY DEF LookupInv, LookupTypeOK
<1>4. ASSUME NEW u \in Readers PROVE LookupOK(lookup[u], owners[u])'
  <2>1. PICK m, s : m = lookup'[u] /\ s = owners'[u] /\ LookupOK(m, s)
    BY DEF LookupInv, LookupTypeOK, LookupsOK
  <2> QED
    BY <1>1, <2>1 DEF LookupOK, TrueAnswer
<1> QED
  BY <1>2, <1>3, <1>4 DEF LookupInv, LookupsOK

LEMMA StartedLookup ==
  ASSUME NEW h \in Hosts
  PROVE  /\ Started(h) \in Lookup /\ Started(h).stage = "list" /\ Started(h).host = h
         /\ Started(h).answer = Nobody
BY DEF Started, Lookup, Stages

LEMMA LookupBegins ==
  ASSUME LookupInv, UNCHANGED directory, NEW r \in Readers, NEW h \in Hosts, BeginLookup(r, h)
  PROVE  LookupInv' /\ lookup'[r] = Started(h)
<1>1. {OwnerIn(domains, h)} \in SUBSET (IDs \union {NoOwner})
  BY OwnerOf, NoOwnerIsNobody DEF LookupInv
<1>2. LookupOK(Started(h), {OwnerIn(domains, h)})
  BY StartedLookup DEF LookupOK
<1> QED
  BY <1>1, <1>2, StartedLookup, LookupMoves DEF BeginLookup

LEMMA LookupAdvances ==
  ASSUME LookupInv, NEW r \in Readers, NEW l \in Lookup, Advance(r, l), LookupOK(l, owners[r])
  PROVE  LookupInv' /\ lookup'[r] = l
<1>1. /\ UNCHANGED directory /\ lookup' = [lookup EXCEPT ![r] = l]
      /\ owners' = [owners EXCEPT ![r] = owners[r]]
      /\ owners[r] \in SUBSET (IDs \union {NoOwner})
  BY DEF Advance, LookupInv, LookupTypeOK
<1> QED
  BY <1>1, LookupMoves

LEMMA ListedTypes ==
  ASSUME LookupInv
  PROVE  Listed \subseteq IDs \X Slugs /\ \A id \in DOMAIN tenants : <<id, tenants[id]>> \in Listed
BY DEF Listed, LookupInv, StoreInv, StoreTypeOK

(* What each read makes of the lookup. *)
LEMMA ListTenantsStep ==
  ASSUME LookupInv, NEW r \in Readers, ListTenants(r)
  PROVE  LookupInv' /\ lookup'[r] = [lookup[r] EXCEPT !.stage = "domains", !.todo = Listed]
<1> DEFINE l == [lookup[r] EXCEPT !.stage = "domains", !.todo = Listed]
<1>1. /\ l \in Lookup /\ l.stage = "domains" /\ l.todo = Listed /\ l.host = lookup[r].host
      /\ l.answer = lookup[r].answer
  BY LookupTypes, ListedTypes DEF LookupInv, Lookup, Stages
<1>2. Advance(r, l) /\ lookup[r].stage = "list"
  BY DEF ListTenants
<1> HIDE DEF l
<1>3. LookupOK(l, owners[r])
  <2>1. /\ lookup[r].answer = Nobody /\ OwnerIn(domains, l.host) \in owners[r]
    BY <1>1, <1>2 DEF LookupInv, LookupsOK, LookupOK
  <2>2. OwnerIn(domains, l.host) \in DOMAIN tenants \union {NoOwner}
    BY OwnerOf DEF LookupInv
  <2>3. OwnerIn(domains, l.host) = NoOwner \/ \E t \in Listed : t[1] = OwnerIn(domains, l.host)
    BY <2>2, ListedTypes
  <2> QED
    BY <1>1, <2>1, <2>3 DEF LookupOK
<1>4. LookupInv' /\ lookup'[r] = l
  BY <1>1, <1>2, <1>3, LookupAdvances
<1> QED
  BY <1>4 DEF l

(* A read of the domains of t finds the host there or not. *)
LEMMA ListDomainsStep ==
  ASSUME LookupInv, NEW r \in Readers, ListDomains(r)
  PROVE  /\ LookupInv' /\ lookup[r].stage = "domains"
         /\ \E t \in lookup[r].todo :
              \/ /\ \A d \in domains : d.host = lookup[r].host => d.tenant # t[1]
                 /\ lookup'[r] = [lookup[r] EXCEPT !.todo = @ \ {t}]
              \/ \E d \in domains :
                   /\ d.tenant = t[1] /\ d.host = lookup[r].host
                   /\ lookup'[r] = [lookup[r] EXCEPT !.stage = "done", !.todo = {},
                                      !.answer = [id |-> t[1], slug |-> t[2], kind |-> d.kind]]
<1> DEFINE h == lookup[r].host
<1>1. lookup[r].stage = "domains"
  BY DEF ListDomains
<1>2. /\ lookup[r] \in Lookup /\ h \in Hosts /\ lookup[r].todo \subseteq IDs \X Slugs
      /\ lookup[r].answer = Nobody /\ OwnerIn(domains, h) \in owners[r]
      /\ NoOwner \in owners[r] \/ \E t \in lookup[r].todo : t[1] = OwnerIn(domains, h)
  BY <1>1, LookupTypes DEF LookupInv, LookupsOK, LookupOK
<1>3. PICK t \in lookup[r].todo :
        LET hit == {d \in DomainsOf(t[1]) : d.host = h}
        IN IF hit = {}
           THEN Advance(r, [lookup[r] EXCEPT !.todo = @ \ {t}])
           ELSE \E d \in hit :
                  Advance(r, [lookup[r] EXCEPT !.stage = "done", !.todo = {},
                                !.answer = [id |-> t[1], slug |-> t[2], kind |-> d.kind]])
  BY DEF ListDomains
<1> DEFINE hit == {d \in DomainsOf(t[1]) : d.host = h}
<1>4. CASE hit = {}
  <2> DEFINE l == [lookup[r] EXCEPT !.todo = @ \ {t}]
  <2>1. Advance(r, l)
    BY <1>3, <1>4
  <2>2. /\ l \in Lookup /\ l.stage = "domains" /\ l.todo = lookup[r].todo \ {t} /\ l.host = h
        /\ l.answer = Nobody
    BY <1>1, <1>2 DEF Lookup
  <2>3. \A d \in domains : d.host = h => d.tenant # t[1]
    BY <1>4 DEF DomainsOf
  <2>4. OwnerIn(domains, h) = NoOwner \/ OwnerIn(domains, h) # t[1]
    BY <2>3, OwnerOf DEF LookupInv
  <2> HIDE DEF l
  <2>5. LookupOK(l, owners[r])
    BY <1>2, <2>2, <2>4 DEF LookupOK
  <2>6. LookupInv' /\ lookup'[r] = l
    BY <2>1, <2>2, <2>5, LookupAdvances
  <2> QED
    BY <1>1, <2>3, <2>6 DEF l
<1>5. CASE hit # {}
  <2>1. PICK d \in hit :
          Advance(r, [lookup[r] EXCEPT !.stage = "done", !.todo = {},
                        !.answer = [id |-> t[1], slug |-> t[2], kind |-> d.kind]])
    BY <1>3, <1>5
  <2>2. d \in domains /\ d.tenant = t[1] /\ d.host = h /\ d.kind \in Kinds
    BY DEF DomainsOf, LookupInv, StoreInv, StoreTypeOK, Domain
  <2> DEFINE a == [id |-> t[1], slug |-> t[2], kind |-> d.kind]
             l == [lookup[r] EXCEPT !.stage = "done", !.todo = {}, !.answer = a]
  <2>3. a \in TenantInfo /\ a.id = t[1]
    BY <1>2, <2>2 DEF TenantInfo
  <2>4. t[1] \in owners[r] /\ a # Nobody
    <3>1. OwnerIn(domains, h) = t[1]
      BY <2>2, OwnerOf DEF LookupInv
    <3>2. a.id \in IDs
      BY <2>3 DEF TenantInfo
    <3>3. Nobody.id \notin IDs
      BY DirectoryAssumption DEF Nobody, NoOwner, IDs
    <3> QED
      BY <1>2, <3>1, <3>2, <3>3
  <2> HIDE DEF a
  <2>5. l \in Lookup /\ l.stage = "done" /\ l.answer = a /\ l.host = h
    BY <1>2, <2>3 DEF Lookup, Stages
  <2>6. Advance(r, l)
    BY <2>1 DEF a
  <2> HIDE DEF l
  <2>7. LookupOK(l, owners[r])
    BY <2>3, <2>4, <2>5 DEF LookupOK, TrueAnswer
  <2>8. LookupInv' /\ lookup'[r] = l
    BY <2>5, <2>6, <2>7, LookupAdvances
  <2> QED
    BY <1>1, <2>2, <2>8 DEF l, a
<1> QED
  BY <1>4, <1>5

LEMMA MissStep ==
  ASSUME LookupInv, NEW r \in Readers, Miss(r)
  PROVE  /\ LookupInv' /\ lookup[r].stage = "domains" /\ lookup[r].todo = {}
         /\ lookup'[r] = [lookup[r] EXCEPT
              !.stage = IF lookup[r].host \in DOMAIN PreviewSlug THEN "slug" ELSE "done"]
<1> DEFINE l == [lookup[r] EXCEPT
              !.stage = IF lookup[r].host \in DOMAIN PreviewSlug THEN "slug" ELSE "done"]
<1>1. /\ lookup[r].stage = "domains" /\ lookup[r].todo = {} /\ Advance(r, l)
  BY DEF Miss
<1>2. /\ lookup[r] \in Lookup /\ lookup[r].answer = Nobody /\ NoOwner \in owners[r]
  BY <1>1, LookupTypes DEF LookupInv, LookupsOK, LookupOK
<1>3. /\ l \in Lookup /\ l.answer = Nobody /\ l.host = lookup[r].host
      /\ \/ l.stage = "slug" /\ l.host \in DOMAIN PreviewSlug
         \/ l.stage = "done"
  BY <1>2 DEF Lookup, Stages
<1> HIDE DEF l
<1>4. LookupOK(l, owners[r])
  <2>1. OwnerIn(domains, l.host) \in owners[r]
    BY <1>1, <1>3 DEF LookupInv, LookupsOK, LookupOK
  <2> QED
    BY <1>2, <1>3, <2>1 DEF LookupOK, TrueAnswer
<1>5. LookupInv' /\ lookup'[r] = l
  BY <1>1, <1>3, <1>4, LookupAdvances
<1> QED
  BY <1>1, <1>5 DEF l

LEMMA SlugOf ==
  ASSUME LookupInv, NEW r \in Readers, lookup[r].stage = "slug"
  PROVE  /\ lookup[r].host \in DOMAIN PreviewSlug /\ NoOwner \in owners[r]
         /\ PreviewSlug[lookup[r].host] \in Slugs
         /\ lookup[r].answer = Nobody /\ OwnerIn(domains, lookup[r].host) \in owners[r]
BY DirectoryAssumption DEF LookupInv, LookupsOK, LookupOK

LEMMA LookupBySlugStep ==
  ASSUME LookupInv, NEW r \in Readers, LookupBySlug(r)
  PROVE  LET s == PreviewSlug[lookup[r].host]
         IN  /\ LookupInv' /\ lookup[r].stage = "slug"
             /\ \/ /\ \A id \in DOMAIN tenants : tenants[id] # s
                   /\ lookup'[r] = [lookup[r] EXCEPT !.stage = "done"]
                \/ \E id \in DOMAIN tenants :
                     /\ tenants[id] = s
                     /\ lookup'[r] = [lookup[r] EXCEPT !.stage = "done",
                                        !.answer = [id |-> id, slug |-> s, kind |-> "preview"]]
<1> DEFINE s == PreviewSlug[lookup[r].host]
<1>1. lookup[r].stage = "slug" /\ lookup[r] \in Lookup
  BY LookupTypes DEF LookupBySlug, LookupInv
<1>2. /\ lookup[r].host \in DOMAIN PreviewSlug /\ NoOwner \in owners[r] /\ s \in Slugs
      /\ lookup[r].answer = Nobody
  BY <1>1, SlugOf
<1>3. CASE BySlug(s) = {} /\ Advance(r, [lookup[r] EXCEPT !.stage = "done"])
  <2> DEFINE l == [lookup[r] EXCEPT !.stage = "done"]
  <2>1. l \in Lookup /\ l.stage = "done" /\ l.answer = Nobody
    BY <1>1, <1>2 DEF Lookup, Stages
  <2>2. Advance(r, l)
    BY <1>3
  <2> HIDE DEF l
  <2>3. LookupOK(l, owners[r])
    BY <1>2, <2>1 DEF LookupOK, TrueAnswer
  <2>4. LookupInv' /\ lookup'[r] = l
    BY <2>1, <2>2, <2>3, LookupAdvances
  <2>5. \A id \in DOMAIN tenants : tenants[id] # s
    BY <1>3 DEF BySlug
  <2> QED
    BY <1>1, <2>4, <2>5 DEF l
<1>4. CASE \E id \in BySlug(s) :
             Advance(r, [lookup[r] EXCEPT !.stage = "done",
                           !.answer = [id |-> id, slug |-> s, kind |-> "preview"]])
  <2>1. PICK id \in BySlug(s) :
             Advance(r, [lookup[r] EXCEPT !.stage = "done",
                           !.answer = [id |-> id, slug |-> s, kind |-> "preview"]])
    BY <1>4
  <2>2. id \in DOMAIN tenants /\ tenants[id] = s /\ id \in IDs
    BY DEF BySlug, LookupInv, StoreInv, StoreTypeOK
  <2> DEFINE a == [id |-> id, slug |-> s, kind |-> "preview"]
             l == [lookup[r] EXCEPT !.stage = "done", !.answer = a]
  <2>3. a \in TenantInfo /\ a.slug = s /\ a # Nobody
    <3>1. a \in TenantInfo /\ a.slug = s /\ a.id = id
      BY <1>2, <2>2 DEF TenantInfo, Kinds
    <3>2. Nobody.id \notin IDs
      BY DirectoryAssumption DEF Nobody, NoOwner, IDs
    <3> QED
      BY <2>2, <3>1, <3>2
  <2>4. Advance(r, l)
    BY <2>1
  <2> HIDE DEF a
  <2>5. l \in Lookup /\ l.stage = "done" /\ l.answer = a /\ l.host = lookup[r].host
    BY <1>1, <2>3 DEF Lookup, Stages
  <2> HIDE DEF l
  <2>6. LookupOK(l, owners[r])
    BY <1>2, <2>3, <2>5 DEF LookupOK, TrueAnswer
  <2>7. LookupInv' /\ lookup'[r] = l
    BY <2>4, <2>5, <2>6, LookupAdvances
  <2> QED
    BY <1>1, <2>2, <2>7 DEF l, a
<1> QED
  BY <1>3, <1>4 DEF LookupBySlug

LEMMA ReadStep == ASSUME LookupInv, NEW r \in Readers, Read(r) PROVE LookupInv'
BY ListTenantsStep, ListDomainsStep, MissStep, LookupBySlugStep DEF Read

LEMMA LookupsStay == ASSUME LookupInv, UNCHANGED directoryVars PROVE LookupInv'
BY DEF LookupInv, LookupTypeOK, LookupsOK, LookupOK, TrueAnswer, StoreInv, StoreTypeOK,
       DirectoryIsSound, IDsAreGiven, directoryVars, directory, reading

LEMMA LookupsAreTrue == LookupInv => DirectoryTypeOK /\ DirectoryIsSound /\ LookupIsTrue
<1>1. ASSUME LookupInv PROVE DirectoryTypeOK /\ DirectoryIsSound
  BY <1>1 DEF LookupInv, StoreInv, StoreTypeOK, LookupTypeOK, DirectoryTypeOK
<1>2. ASSUME LookupInv, NEW r \in Readers, lookup[r].stage = "done", owners[r] # {}
      PROVE  TrueAnswer(lookup[r], owners[r])
  BY <1>2 DEF LookupInv, LookupsOK, LookupOK
<1> QED
  BY <1>1, <1>2 DEF LookupIsTrue, TrueAnswer

--------------------------------------------------------------------------------
(* Requests: types, with the directory and the lookups beside them. *)

RequestTypeOK == request \in [Readers -> Request] /\ steady \subseteq Readers

BaseInv == LookupInv /\ RequestTypeOK

LEMMA RequestTypes ==
  ASSUME RequestTypeOK, NEW r \in Readers
  PROVE  /\ request[r] \in Request
         /\ request[r].host \in Hosts /\ request[r].path \in PathKinds
         /\ request[r].phase \in Phases
         /\ request[r].tenant \in TenantInfo \union {Nobody}
BY DEF RequestTypeOK, Request

LEMMA NoRequestType == NoRequest \in Request
<1>1. (CHOOSE h \in Hosts : TRUE) \in Hosts
  BY DirectoryAssumption
<1> QED
  BY <1>1 DEF NoRequest, Request, PathKinds, Phases, Outcomes

(* What is known of a tenant that was found. *)
LEMMA TenantTypes ==
  ASSUME NEW t \in TenantInfo \union {Nobody}, t # Nobody
  PROVE  /\ t \in TenantInfo /\ t.id \in IDs /\ t.slug \in Slugs /\ t.kind \in Kinds
         /\ Primary[t.slug] \in Hosts \union {NoHost} /\ Aliases[t.slug] \subseteq Hosts
BY PolicyAssumption DEF TenantInfo

LEMMA GateStarts == Init => BaseInv
<1> SUFFICES ASSUME Init PROVE BaseInv
  OBVIOUS
<1>1. RequestTypeOK
  BY NoRequestType DEF Init, RequestTypeOK
<1> QED
  BY <1>1, DirectoryStarts DEF Init, BaseInv

LEMMA RequestMoves ==
  ASSUME RequestTypeOK, NEW r \in Readers, NEW q \in Request, request' = [request EXCEPT ![r] = q]
  PROVE  request' \in [Readers -> Request]
BY DEF RequestTypeOK

(* A request that goes on to another phase with another tenant. *)
LEMMA PhaseMoves ==
  ASSUME RequestTypeOK, NEW r \in Readers, NEW p \in Phases, NEW t \in TenantInfo \union {Nobody},
         request' = [request EXCEPT ![r].phase = p, ![r].tenant = t]
  PROVE  request' \in [Readers -> Request]
<1> DEFINE q == [request[r] EXCEPT !.phase = p, !.tenant = t]
<1>1. q \in Request
  BY RequestTypes DEF Request
<1>2. request' = [request EXCEPT ![r] = q]
  OBVIOUS
<1> HIDE DEF q
<1> QED
  BY <1>1, <1>2, RequestMoves

(* A request that is answered. *)
LEMMA FinishBase ==
  ASSUME BaseInv, NEW r \in Readers, NEW o \in Outcomes, Finish(r, o)
  PROVE  /\ BaseInv' /\ UNCHANGED <<directoryVars, steady>>
         /\ request' = [request EXCEPT ![r].phase = "idle", ![r].outcome = o]
<1>1. UNCHANGED <<directoryVars, steady>>
      /\ request' = [request EXCEPT ![r].phase = "idle", ![r].outcome = o]
  BY DEF Finish
<1>2. request' \in [Readers -> Request]
  <2> DEFINE q == [request[r] EXCEPT !.phase = "idle", !.outcome = o]
  <2>1. q \in Request
    BY RequestTypes DEF BaseInv, Request, Phases
  <2>2. request' = [request EXCEPT ![r] = q]
    BY <1>1
  <2> HIDE DEF q
  <2> QED
    BY <2>1, <2>2, RequestMoves DEF BaseInv
<1>3. LookupInv'
  BY <1>1, LookupsStay DEF BaseInv
<1> QED
  BY <1>1, <1>2, <1>3 DEF BaseInv, RequestTypeOK

(* A request that looks up h in its next phase. *)
LEMMA GoesOnBase ==
  ASSUME BaseInv, NEW r \in Readers, NEW h \in Hosts, BeginLookup(r, h), UNCHANGED directory,
         request' \in [Readers -> Request], steady' \subseteq Readers
  PROVE  BaseInv'
BY LookupBegins DEF BaseInv, RequestTypeOK

LEMMA ArriveBase ==
  ASSUME BaseInv, NEW r \in Readers, NEW h \in Hosts, NEW p \in PathKinds, Arrive(r, h, p)
  PROVE  BaseInv'
<1> DEFINE q == [NoRequest EXCEPT !.host = h, !.path = p,
                   !.phase = IF p = "plugin" THEN "content" ELSE "tenant"]
<1>1. q \in Request
  BY NoRequestType DEF Request, Phases
<1>2. request' \in [Readers -> Request]
  <2> HIDE DEF q
  <2>1. request' = [request EXCEPT ![r] = q]
    BY DEF Arrive, q
  <2> QED
    BY <1>1, <2>1 DEF BaseInv, RequestTypeOK
<1>3. steady' \subseteq Readers
  BY DEF Arrive, BaseInv, RequestTypeOK
<1> QED
  BY <1>2, <1>3, GoesOnBase DEF Arrive

LEMMA EnterServerBase ==
  ASSUME BaseInv, NEW r \in Readers, EnterServer(r)
  PROVE  BaseInv'
<1>1. ASSUME NEW o \in {"notfound", "healthy"}, Finish(r, o) PROVE BaseInv'
  BY <1>1, FinishBase DEF Outcomes
<1>2. ASSUME request' = [request EXCEPT ![r].phase = "content"], BeginLookup(r, request[r].host),
             UNCHANGED <<directory, steady>>
      PROVE  BaseInv'
  <2>1. request' \in [Readers -> Request] /\ steady' \subseteq Readers
    BY <1>2 DEF BaseInv, RequestTypeOK, Request, Phases
  <2>2. request[r].host \in Hosts
    BY RequestTypes DEF BaseInv
  <2> QED
    BY <1>2, <2>1, <2>2, GoesOnBase
<1> QED
  BY <1>1, <1>2 DEF EnterServer

LEMMA ToPasswordBase ==
  ASSUME BaseInv, NEW r \in Readers, NEW t \in TenantInfo \union {Nobody},
         ToPassword(r, t)
  PROVE  BaseInv'
<1>1. ASSUME NEW o \in {"notfound", "refused", "unavailable"}, Finish(r, o) PROVE BaseInv'
  BY <1>1, FinishBase DEF Outcomes
<1>2. ASSUME request' = [request EXCEPT ![r].phase = "password", ![r].tenant = t],
             UNCHANGED <<directoryVars, steady>>
      PROVE  BaseInv'
  <2>1. request' \in [Readers -> Request]
    BY <1>2, PhaseMoves DEF BaseInv, Phases
  <2>2. LookupInv'
    BY <1>2, LookupsStay DEF BaseInv
  <2> QED
    BY <1>2, <2>1, <2>2 DEF BaseInv, RequestTypeOK
<1> QED
  BY <1>1, <1>2 DEF ToPassword

LEMMA GateTenantBase ==
  ASSUME BaseInv, NEW r \in Readers, GateTenant(r)
  PROVE  BaseInv'
<1> DEFINE t == lookup[r].answer
<1>1. t \in TenantInfo \union {Nobody}
  BY LookupTypes DEF BaseInv, LookupInv
<1>2. CASE Finish(r, "notfound")
  BY <1>2, FinishBase DEF Outcomes
<1>3. CASE t # Nobody /\ Primary[t.slug] = NoHost
  <2>1. t \in TenantInfo /\ ToPassword(r, t)
    BY <1>1, <1>3 DEF GateTenant
  <2> HIDE DEF t
  <2> QED
    BY <2>1, ToPasswordBase
<1>4. CASE t # Nobody /\ Primary[t.slug] # NoHost
  <2>1. /\ request' = [request EXCEPT ![r].phase = "canonical", ![r].tenant = t]
        /\ BeginLookup(r, Primary[t.slug])
        /\ UNCHANGED <<directory, steady>>
    BY <1>4 DEF GateTenant
  <2>2. Primary[t.slug] \in Hosts
    BY <1>1, <1>4, TenantTypes
  <2> HIDE DEF t
  <2>3. request' \in [Readers -> Request]
    BY <1>1, <2>1, PhaseMoves DEF BaseInv, Phases
  <2>4. steady' \subseteq Readers
    BY <2>1 DEF BaseInv, RequestTypeOK
  <2> QED
    BY <2>1, <2>2, <2>3, <2>4, GoesOnBase
<1> QED
  BY <1>2, <1>3, <1>4 DEF GateTenant

LEMMA GateCanonicalBase ==
  ASSUME BaseInv, NEW r \in Readers, GateCanonical(r)
  PROVE  BaseInv'
<1>1. ASSUME NEW o \in {"unavailable", "notfound", "redirect"}, Finish(r, o) PROVE BaseInv'
  BY <1>1, FinishBase DEF Outcomes
<1> QED
  BY <1>1, EnterServerBase, ToPasswordBase, RequestTypes DEF GateCanonical, BaseInv

LEMMA ServeContentBase ==
  ASSUME BaseInv, NEW r \in Readers, ServeContent(r)
  PROVE  BaseInv'
<1>1. lookup[r].answer \in TenantInfo \union {Nobody}
  BY LookupTypes DEF BaseInv, LookupInv
<1>2. CASE Finish(r, "notfound")
  BY <1>2, FinishBase DEF Outcomes
<1>3. CASE /\ request' = [request EXCEPT ![r].phase = "idle", ![r].outcome = "content",
                                         ![r].content = lookup[r].answer]
           /\ UNCHANGED <<directoryVars, steady>>
  <2> DEFINE q == [request[r] EXCEPT !.phase = "idle", !.outcome = "content",
                                     !.content = lookup[r].answer]
  <2>1. q \in Request
    BY <1>1, RequestTypes DEF BaseInv, Request, Phases, Outcomes
  <2>2. request' = [request EXCEPT ![r] = q]
    BY <1>3
  <2> HIDE DEF q
  <2> QED
    BY <1>3, <2>1, <2>2, LookupsStay DEF BaseInv, RequestTypeOK
<1> QED
  BY <1>2, <1>3 DEF ServeContent

LEMMA BaseStep == ASSUME BaseInv, [Next]_vars PROVE BaseInv'
<1>1. CASE AdminStep
  <2>1. steady' \subseteq Readers /\ request' = request
    BY <1>1 DEF AdminStep, BaseInv, RequestTypeOK
  <2> QED
    BY <1>1, <2>1, LookupsSee DEF AdminStep, BaseInv, RequestTypeOK
<1>2. ASSUME NEW r \in Readers, Read(r), UNCHANGED gateVars PROVE BaseInv'
  BY <1>2, ReadStep DEF BaseInv, RequestTypeOK, gateVars
<1>3. ASSUME NEW r \in Readers, Password(r) PROVE BaseInv'
  BY <1>3, FinishBase, EnterServerBase DEF Password, Outcomes
<1>4. CASE UNCHANGED vars
  BY <1>4, LookupsStay DEF vars, gateVars, BaseInv, RequestTypeOK
<1> QED
  BY <1>1, <1>2, <1>3, <1>4, ArriveBase, GateTenantBase, GateCanonicalBase, ServeContentBase
     DEF Next, Step

LEMMA BaseIsSafe == Spec => []BaseInv
BY GateStarts, BaseStep, PTL DEF Spec

(* The directory, the lookups and the requests keep their types. *)
THEOREM TypeCorrect == Spec => []TypeOK
<1>1. BaseInv => TypeOK
  BY LookupsAreTrue DEF BaseInv, RequestTypeOK, TypeOK
<1> QED
  BY <1>1, BaseIsSafe, PTL

(* Every domain belongs to a living tenant, no slug, host or id is given   *)
(* twice, and the id of a deleted tenant is never given again.             *)
THEOREM DirectoryStaysSound == Spec => []DirectoryIsSound
<1>1. BaseInv => DirectoryIsSound
  BY LookupsAreTrue DEF BaseInv
<1> QED
  BY <1>1, BaseIsSafe, PTL

(* What a lookup of several reads answers was true while it ran. *)
THEOREM LookupsAnswerTruly == Spec => []LookupIsTrue
<1>1. BaseInv => LookupIsTrue
  BY LookupsAreTrue DEF BaseInv
<1> QED
  BY <1>1, BaseIsSafe, PTL

--------------------------------------------------------------------------------
(* What the directory says at one moment. *)

LEMMA ResolveFound ==
  ASSUME StoreInv, NEW d \in domains
  PROVE  Resolve(d.host) = [id |-> d.tenant, slug |-> tenants[d.tenant], kind |-> d.kind]
<1> DEFINE c == CHOOSE e \in domains : e.host = d.host
<1>1. c \in domains /\ c.host = d.host
  OBVIOUS
<1>2. c = d
  BY <1>1 DEF StoreInv, DirectoryIsSound
<1>3. Resolve(d.host) = [id |-> c.tenant, slug |-> tenants[c.tenant], kind |-> c.kind]
  BY DEF Resolve
<1> HIDE DEF c
<1> QED
  BY <1>2, <1>3

LEMMA ResolveSlug ==
  ASSUME StoreInv, NEW h \in DOMAIN PreviewSlug, NEW id \in DOMAIN tenants,
         tenants[id] = PreviewSlug[h], \A d \in domains : d.host # h
  PROVE  Resolve(h) = [id |-> id, slug |-> PreviewSlug[h], kind |-> "preview"]
<1> DEFINE c == CHOOSE u \in DOMAIN tenants : tenants[u] = PreviewSlug[h]
<1>1. c \in DOMAIN tenants /\ tenants[c] = PreviewSlug[h]
  OBVIOUS
<1>2. c = id
  BY <1>1 DEF StoreInv, DirectoryIsSound
<1>3. Resolve(h) = [id |-> c, slug |-> PreviewSlug[h], kind |-> "preview"]
  BY DEF Resolve
<1> HIDE DEF c
<1> QED
  BY <1>2, <1>3

LEMMA ResolveMissed ==
  ASSUME NEW h, \A d \in domains : d.host # h,
         h \in DOMAIN PreviewSlug => \A id \in DOMAIN tenants : tenants[id] # PreviewSlug[h]
  PROVE  Resolve(h) = Nobody
BY DEF Resolve

LEMMA IsNotNobody ==
  ASSUME NEW id \in IDs, NEW s, NEW k
  PROVE  [id |-> id, slug |-> s, kind |-> k] # Nobody
<1>1. Nobody.id \notin IDs
  BY DirectoryAssumption DEF Nobody, NoOwner, IDs
<1>2. [id |-> id, slug |-> s, kind |-> k].id = id
  OBVIOUS
<1> QED
  BY <1>1, <1>2

(* The answer for a host that is the tenant's only by its slug. *)
ByPreview(h, a) == h \in DOMAIN PreviewSlug /\ a.slug = PreviewSlug[h] /\ a.kind = "preview"

LEMMA ResolveKnown ==
  ASSUME StoreInv, NEW h, NEW a, a = Resolve(h)
  PROVE  \/ a = Nobody /\ \A d \in domains : d.host # h
         \/ /\ a \in TenantInfo /\ a # Nobody
            /\ a.id \in DOMAIN tenants /\ tenants[a.id] = a.slug
            /\ \/ \E d \in domains : d.host = h /\ d.tenant = a.id
               \/ ByPreview(h, a)
<1>1. CASE \E d \in domains : d.host = h
  <2>1. PICK d \in domains : d.host = h
    BY <1>1
  <2>2. a = [id |-> d.tenant, slug |-> tenants[d.tenant], kind |-> d.kind]
    BY <2>1, ResolveFound
  <2>3. d.tenant \in DOMAIN tenants /\ d.tenant \in IDs /\ tenants[d.tenant] \in Slugs
        /\ d.kind \in Kinds
    BY DEF StoreInv, StoreTypeOK, DirectoryIsSound, Domain
  <2>4. a # Nobody
    BY <2>2, <2>3, IsNotNobody
  <2> QED
    BY <2>1, <2>2, <2>3, <2>4 DEF TenantInfo
<1>2. CASE (\A d \in domains : d.host # h) /\ h \in DOMAIN PreviewSlug
           /\ \E id \in DOMAIN tenants : tenants[id] = PreviewSlug[h]
  <2>1. PICK id \in DOMAIN tenants : tenants[id] = PreviewSlug[h]
    BY <1>2
  <2>2. a = [id |-> id, slug |-> PreviewSlug[h], kind |-> "preview"]
    BY <1>2, <2>1, ResolveSlug
  <2>3. id \in IDs /\ PreviewSlug[h] \in Slugs
    BY <2>1 DEF StoreInv, StoreTypeOK
  <2>4. a # Nobody
    BY <2>2, <2>3, IsNotNobody
  <2> QED
    BY <1>2, <2>1, <2>2, <2>3, <2>4 DEF TenantInfo, Kinds, ByPreview
<1>3. CASE (\A d \in domains : d.host # h)
           /\ (h \in DOMAIN PreviewSlug => \A id \in DOMAIN tenants : tenants[id] # PreviewSlug[h])
  BY <1>3, ResolveMissed
<1> QED
  BY <1>1, <1>2, <1>3

LEMMA ResolveStays ==
  ASSUME UNCHANGED directory
  PROVE  \A h : Resolve(h)' = Resolve(h)
BY DEF Resolve, directory

(* A lookup under which a, what the directory says of its host, stays. *)
SteadyAt(l, a) ==
  /\ l.stage = "domains" =>
       /\ \A t \in l.todo : a # Nobody /\ t[1] = a.id => t[2] = a.slug
       /\ a # Nobody => (\E t \in l.todo : t[1] = a.id) \/ ByPreview(l.host, a)
  /\ l.stage = "slug" => a = Nobody \/ ByPreview(l.host, a)
  /\ l.stage = "done" => l.answer = a

LEMMA SteadyStarted == ASSUME NEW h, NEW a PROVE SteadyAt(Started(h), a)
BY DEF Started, SteadyAt

LEMMA SteadyListTenants ==
  ASSUME LookupInv, NEW r \in Readers, ListTenants(r), NEW a, a = Resolve(lookup[r].host)
  PROVE  SteadyAt(lookup'[r], a) /\ lookup'[r].host = lookup[r].host
<1>1. lookup[r] \in Lookup /\ lookup'[r] = [lookup[r] EXCEPT !.stage = "domains", !.todo = Listed]
  BY ListTenantsStep, LookupTypes DEF LookupInv
<1>2. /\ lookup'[r].stage = "domains" /\ lookup'[r].todo = Listed
      /\ lookup'[r].host = lookup[r].host
  BY <1>1 DEF Lookup
<1>3. a # Nobody => a.id \in DOMAIN tenants /\ tenants[a.id] = a.slug
  BY ResolveKnown DEF LookupInv
<1>4. ASSUME NEW t \in Listed, a # Nobody, t[1] = a.id PROVE t[2] = a.slug
  BY <1>3, <1>4 DEF Listed
<1>5. a # Nobody => \E t \in Listed : t[1] = a.id
  BY <1>3, ListedTypes
<1> QED
  BY <1>2, <1>4, <1>5 DEF SteadyAt

LEMMA SteadyListDomains ==
  ASSUME LookupInv, NEW r \in Readers, ListDomains(r), NEW a, a = Resolve(lookup[r].host),
         SteadyAt(lookup[r], a)
  PROVE  SteadyAt(lookup'[r], a) /\ lookup'[r].host = lookup[r].host
<1>1. /\ lookup[r] \in Lookup /\ lookup[r].stage = "domains"
      /\ lookup[r].todo \subseteq IDs \X Slugs
  BY ListDomainsStep, LookupTypes DEF LookupInv
<1>2. PICK t \in lookup[r].todo :
        \/ /\ \A d \in domains : d.host = lookup[r].host => d.tenant # t[1]
           /\ lookup'[r] = [lookup[r] EXCEPT !.todo = @ \ {t}]
        \/ \E d \in domains :
             /\ d.tenant = t[1] /\ d.host = lookup[r].host
             /\ lookup'[r] = [lookup[r] EXCEPT !.stage = "done", !.todo = {},
                                !.answer = [id |-> t[1], slug |-> t[2], kind |-> d.kind]]
  BY ListDomainsStep
<1>3. CASE /\ \A d \in domains : d.host = lookup[r].host => d.tenant # t[1]
           /\ lookup'[r] = [lookup[r] EXCEPT !.todo = @ \ {t}]
  <2>1. /\ lookup'[r].stage = "domains" /\ lookup'[r].todo = lookup[r].todo \ {t}
        /\ lookup'[r].host = lookup[r].host
    BY <1>1, <1>3 DEF Lookup
  <2>2. a # Nobody /\ t[1] = a.id => ByPreview(lookup[r].host, a)
    BY <1>3, ResolveKnown DEF LookupInv
  <2> QED
    BY <1>1, <2>1, <2>2 DEF SteadyAt
<1>4. CASE \E d \in domains :
             /\ d.tenant = t[1] /\ d.host = lookup[r].host
             /\ lookup'[r] = [lookup[r] EXCEPT !.stage = "done", !.todo = {},
                                !.answer = [id |-> t[1], slug |-> t[2], kind |-> d.kind]]
  <2>1. PICK d \in domains :
             /\ d.tenant = t[1] /\ d.host = lookup[r].host
             /\ lookup'[r] = [lookup[r] EXCEPT !.stage = "done", !.todo = {},
                                !.answer = [id |-> t[1], slug |-> t[2], kind |-> d.kind]]
    BY <1>4
  <2>2. a = [id |-> d.tenant, slug |-> tenants[d.tenant], kind |-> d.kind]
    BY <2>1, ResolveFound DEF LookupInv
  <2>3. a # Nobody /\ a.id = t[1] /\ a.slug = tenants[d.tenant]
    BY <1>1, <2>1, <2>2, IsNotNobody
  <2>4. t[2] = a.slug
    BY <1>1, <2>3 DEF SteadyAt
  <2>5. a = [id |-> t[1], slug |-> t[2], kind |-> d.kind]
    BY <2>1, <2>2, <2>3, <2>4
  <2>6. /\ lookup'[r].stage = "done" /\ lookup'[r].host = lookup[r].host
        /\ lookup'[r].answer = a
    <3> DEFINE b == [id |-> t[1], slug |-> t[2], kind |-> d.kind]
    <3>1. lookup'[r] = [lookup[r] EXCEPT !.stage = "done", !.todo = {}, !.answer = b] /\ a = b
      BY <2>1, <2>5
    <3> HIDE DEF b
    <3> QED
      BY <1>1, <3>1 DEF Lookup
  <2> QED
    BY <2>6 DEF SteadyAt
<1> QED
  BY <1>2, <1>3, <1>4

LEMMA SteadyMiss ==
  ASSUME LookupInv, NEW r \in Readers, Miss(r), NEW a, a = Resolve(lookup[r].host),
         SteadyAt(lookup[r], a)
  PROVE  SteadyAt(lookup'[r], a) /\ lookup'[r].host = lookup[r].host
<1>1. /\ lookup[r] \in Lookup /\ lookup[r].stage = "domains" /\ lookup[r].todo = {}
      /\ lookup'[r] = [lookup[r] EXCEPT
              !.stage = IF lookup[r].host \in DOMAIN PreviewSlug THEN "slug" ELSE "done"]
      /\ lookup[r].answer = Nobody
  BY MissStep, LookupTypes DEF LookupInv, LookupsOK, LookupOK
<1>2. /\ lookup'[r].stage = IF lookup[r].host \in DOMAIN PreviewSlug THEN "slug" ELSE "done"
      /\ lookup'[r].host = lookup[r].host /\ lookup'[r].answer = Nobody
  BY <1>1 DEF Lookup
<1>3. a = Nobody \/ ByPreview(lookup[r].host, a)
  BY <1>1 DEF SteadyAt
<1> QED
  BY <1>2, <1>3 DEF SteadyAt, ByPreview

LEMMA SteadyBySlug ==
  ASSUME LookupInv, NEW r \in Readers, LookupBySlug(r), NEW a, a = Resolve(lookup[r].host),
         SteadyAt(lookup[r], a)
  PROVE  SteadyAt(lookup'[r], a) /\ lookup'[r].host = lookup[r].host
<1> DEFINE h == lookup[r].host
           s == PreviewSlug[h]
<1>1. /\ lookup[r] \in Lookup /\ lookup[r].stage = "slug"
      /\ \/ /\ \A id \in DOMAIN tenants : tenants[id] # s
            /\ lookup'[r] = [lookup[r] EXCEPT !.stage = "done"]
         \/ \E id \in DOMAIN tenants :
              /\ tenants[id] = s
              /\ lookup'[r] = [lookup[r] EXCEPT !.stage = "done",
                                 !.answer = [id |-> id, slug |-> s, kind |-> "preview"]]
  BY LookupBySlugStep, LookupTypes DEF LookupInv
<1>2. lookup[r].answer = Nobody /\ h \in DOMAIN PreviewSlug
  BY <1>1, SlugOf
<1>3. a = Nobody \/ ByPreview(h, a)
  BY <1>1 DEF SteadyAt
<1>4. /\ a # Nobody => a \in TenantInfo /\ a.id \in DOMAIN tenants /\ tenants[a.id] = a.slug
      /\ a = Nobody => \A d \in domains : d.host # h
  BY ResolveKnown DEF LookupInv
<1>5. CASE /\ \A id \in DOMAIN tenants : tenants[id] # s
           /\ lookup'[r] = [lookup[r] EXCEPT !.stage = "done"]
  <2>1. a = Nobody
    BY <1>3, <1>4, <1>5 DEF ByPreview
  <2>2. lookup'[r].stage = "done" /\ lookup'[r].answer = Nobody /\ lookup'[r].host = h
    BY <1>1, <1>2, <1>5 DEF Lookup
  <2> QED
    BY <2>1, <2>2 DEF SteadyAt
<1>6. CASE \E id \in DOMAIN tenants :
              /\ tenants[id] = s
              /\ lookup'[r] = [lookup[r] EXCEPT !.stage = "done",
                                 !.answer = [id |-> id, slug |-> s, kind |-> "preview"]]
  <2>1. PICK id \in DOMAIN tenants :
              /\ tenants[id] = s
              /\ lookup'[r] = [lookup[r] EXCEPT !.stage = "done",
                                 !.answer = [id |-> id, slug |-> s, kind |-> "preview"]]
    BY <1>6
  <2> DEFINE b == [id |-> id, slug |-> s, kind |-> "preview"]
  <2>2. id \in IDs
    BY DEF LookupInv, StoreInv, StoreTypeOK
  <2>3. a # Nobody
    <3>1. a = Nobody => a = b
      BY <1>2, <1>4, <2>1, ResolveSlug DEF LookupInv
    <3>2. b # Nobody
      BY <2>2, IsNotNobody
    <3> QED
      BY <3>1, <3>2
  <2>4. a.id = id /\ a.slug = s /\ a.kind = "preview" /\ a \in TenantInfo
    BY <1>3, <1>4, <2>1, <2>3 DEF ByPreview, LookupInv, StoreInv, DirectoryIsSound
  <2>5. a = b
    BY <2>4 DEF TenantInfo
  <2>6. lookup'[r].stage = "done" /\ lookup'[r].answer = b /\ lookup'[r].host = h
    BY <1>1, <2>1 DEF Lookup
  <2> QED
    BY <2>5, <2>6 DEF SteadyAt
<1> QED
  BY <1>1, <1>5, <1>6

LEMMA SteadyRead ==
  ASSUME LookupInv, NEW r \in Readers, Read(r), NEW a, a = Resolve(lookup[r].host),
         SteadyAt(lookup[r], a)
  PROVE  SteadyAt(lookup'[r], a) /\ lookup'[r].host = lookup[r].host
BY SteadyListTenants, SteadyListDomains, SteadyMiss, SteadyBySlug DEF Read

--------------------------------------------------------------------------------
(* What one moment would decide, from the tenants t of the request's host  *)
(* and c of t's primary host.                                              *)

Served(p) ==
  CASE p \in {"content", "insecure"} -> {"content"}
    [] p = "health" -> {"healthy"}
    [] OTHER -> {"notfound"}

PrivateOutcomes(p, t) ==
  IF p = "ingest" THEN {"notfound"}
  ELSE IF p = "insecure" THEN {"refused"}
  ELSE IF t.slug \notin Protected THEN {"unavailable"}
  ELSE {"refused"} \union Served(p)

OutcomesOf(h, p, t, c) ==
  IF t = Nobody THEN {"notfound"}
  ELSE IF p = "plugin" THEN {"content"}
  ELSE IF Primary[t.slug] # NoHost /\ ~CanonicalConfirmed(c, t) THEN {"unavailable"}
  ELSE IF Primary[t.slug] = h THEN Served(p)
  ELSE IF h \in Aliases[t.slug] /\ t.kind # "preview"
       THEN {IF p = "ingest" THEN "notfound" ELSE "redirect"}
       ELSE PrivateOutcomes(p, t)

AtOneMoment ==
  \A h \in Hosts : \A p, t, k, c :
    t = Resolve(h) /\ k = Primary[t.slug] /\ c = Resolve(k)
      => AtomicOutcomes(h, p) = OutcomesOf(h, p, t, c)

LEMMA OutcomesAre == AtOneMoment
<1> SUFFICES ASSUME NEW h \in Hosts, NEW p, NEW t, NEW k, NEW c,
                    t = Resolve(h), k = Primary[t.slug], c = Resolve(k)
             PROVE  AtomicOutcomes(h, p) = OutcomesOf(h, p, t, c)
  BY DEF AtOneMoment
<1>1. h # NoHost
  BY PolicyAssumption
<1>2. CASE t = Nobody
  BY <1>2 DEF AtomicOutcomes, OutcomesOf
<1>3. CASE t # Nobody /\ p = "plugin"
  BY <1>3 DEF AtomicOutcomes, OutcomesOf
<1>4. CASE t # Nobody /\ p # "plugin" /\ k # NoHost /\ ~CanonicalConfirmed(c, t)
  BY <1>4 DEF AtomicOutcomes, OutcomesOf
<1>5. CASE t # Nobody /\ p # "plugin" /\ k = h /\ CanonicalConfirmed(c, t)
  BY <1>1, <1>5 DEF AtomicOutcomes, OutcomesOf, Served
<1>6. CASE t # Nobody /\ p # "plugin" /\ k # h /\ (k = NoHost \/ CanonicalConfirmed(c, t))
  BY <1>1, <1>6 DEF AtomicOutcomes, OutcomesOf, Served, PrivateOutcomes
<1> QED
  BY <1>1, <1>2, <1>3, <1>4, <1>5, <1>6

LEMMA OutcomesNext == AtOneMoment'
BY OutcomesAre, PTL

(* What holds of a request q and its lookup l while its hosts are owned as *)
(* they were: t owns its own host, c the host it looks up, and os is what  *)
(* one moment would decide.                                                *)
KnownOf(q, l, t, c, os) ==
  /\ q.phase = "tenant" => q.path # "plugin" /\ l.host = q.host /\ SteadyAt(l, c)
  /\ q.phase = "canonical" =>
       /\ q.path # "plugin" /\ q.tenant = t /\ t # Nobody
       /\ Primary[t.slug] # NoHost /\ l.host = Primary[t.slug] /\ SteadyAt(l, c)
  /\ q.phase = "password" =>
       /\ q.tenant = t
       /\ q.path \in {"content", "admin", "health"}
       /\ "refused" \in os /\ Served(q.path) \subseteq os
  /\ q.phase = "content" =>
       /\ l.host = q.host /\ SteadyAt(l, c)
       /\ t # Nobody => "content" \in os
  /\ q.phase = "idle" => q.outcome \in os /\ (q.outcome = "content" => q.content = t)

Exact(r) ==
  \A q, l, t, c, os :
    /\ q = request[r] /\ l = lookup[r]
    /\ t = Resolve(q.host) /\ c = Resolve(l.host) /\ os = AtomicOutcomes(q.host, q.path)
    => KnownOf(q, l, t, c, os)

(* A policy without a primary host has no other (hostpolicy.New). *)
AliasesNeedPrimary == \A s \in Slugs : Primary[s] = NoHost => Aliases[s] = {}

ExactInv == BaseInv /\ AliasesNeedPrimary /\ \A r \in steady : Exact(r)

LEMMA OutcomesStay ==
  ASSUME UNCHANGED directory
  PROVE  \A h \in Hosts : \A p : AtomicOutcomes(h, p)' = AtomicOutcomes(h, p)
<1> SUFFICES ASSUME NEW h \in Hosts, NEW p
             PROVE  AtomicOutcomes(h, p)' = AtomicOutcomes(h, p)
  OBVIOUS
<1>1. PICK t : t = Resolve(h)
  OBVIOUS
<1>2. PICK k : k = Primary[t.slug]
  OBVIOUS
<1>3. PICK c : c = Resolve(k)
  OBVIOUS
<1>4. t = Resolve(h)' /\ c = Resolve(k)'
  BY <1>1, <1>3, ResolveStays
<1>5. AtomicOutcomes(h, p) = OutcomesOf(h, p, t, c)
  BY <1>1, <1>2, <1>3, OutcomesAre DEF AtOneMoment
<1>6. AtomicOutcomes(h, p)' = OutcomesOf(h, p, t, c)
  BY <1>2, <1>4, OutcomesNext DEF AtOneMoment
<1> QED
  BY <1>5, <1>6

(* A request that goes on while the directory stands still. *)
LEMMA MovesOn ==
  ASSUME ExactInv, BaseInv', UNCHANGED directory, NEW r \in Readers,
         steady' \subseteq steady \union {r},
         \A u \in Readers \ {r} : request'[u] = request[u] /\ lookup'[u] = lookup[u],
         NEW q, NEW l, NEW t, NEW c, NEW os, q = request'[r], l = lookup'[r],
         t = Resolve(q.host), c = Resolve(l.host), os = AtomicOutcomes(q.host, q.path),
         r \in steady' => KnownOf(q, l, t, c, os)
  PROVE  ExactInv'
<1> SUFFICES ASSUME NEW u \in steady' PROVE Exact(u)'
  BY DEF ExactInv, AliasesNeedPrimary
<1>1. u \in Readers
  BY DEF BaseInv, RequestTypeOK
<1>2. SUFFICES ASSUME NEW q1, NEW l1, NEW t1, NEW c1, NEW os1,
                      q1 = request'[u], l1 = lookup'[u], t1 = Resolve(q1.host)',
                      c1 = Resolve(l1.host)', os1 = AtomicOutcomes(q1.host, q1.path)'
               PROVE  KnownOf(q1, l1, t1, c1, os1)
  BY DEF Exact
<1>3. q1.host \in Hosts
  BY <1>1, <1>2 DEF BaseInv, RequestTypeOK, Request
<1>4. /\ t1 = Resolve(q1.host) /\ c1 = Resolve(l1.host)
      /\ os1 = AtomicOutcomes(q1.host, q1.path)
  BY <1>2, <1>3, ResolveStays, OutcomesStay
<1>5. CASE u = r
  BY <1>2, <1>4, <1>5
<1>6. CASE u # r
  <2>1. q1 = request[u] /\ l1 = lookup[u] /\ u \in steady
    BY <1>1, <1>2, <1>6
  <2> QED
    BY <2>1, <1>4 DEF ExactInv, Exact
<1> QED
  BY <1>5, <1>6

(* The directory changes nothing that the request asks. *)
LEMMA StaysUndisturbed ==
  ASSUME ExactInv, NEW r \in steady, Undisturbed(r), UNCHANGED <<request, lookup>>
  PROVE  Exact(r)'
<1> SUFFICES ASSUME NEW q, NEW l, NEW t1, NEW c1, NEW os1,
                    q = request'[r], l = lookup'[r], t1 = Resolve(q.host)',
                    c1 = Resolve(l.host)', os1 = AtomicOutcomes(q.host, q.path)'
             PROVE  KnownOf(q, l, t1, c1, os1)
  BY DEF Exact
<1>1. q = request[r] /\ l = lookup[r] /\ r \in Readers
  BY DEF ExactInv, BaseInv, RequestTypeOK
<1>2. q.host \in Hosts
  BY <1>1, RequestTypes DEF ExactInv, BaseInv
<1>3. PICK t, h : t = Resolve(q.host) /\ h = q.host
  OBVIOUS
<1>4. PICK k : k = Primary[t.slug]
  OBVIOUS
<1>5. PICK c, d, d1 : c = Resolve(l.host) /\ d = Resolve(k) /\ d1 = Resolve(k)'
  OBVIOUS
<1>6. PICK os : os = AtomicOutcomes(q.host, q.path)
  OBVIOUS
<1>7. KnownOf(q, l, t, c, os)
  BY <1>1, <1>3, <1>5, <1>6 DEF ExactInv, Exact
<1>8. t1 = t /\ (t # Nobody /\ k # NoHost => d1 = d)
  BY <1>1, <1>3, <1>4, <1>5 DEF Undisturbed, Asked
<1>9. os1 = os
  <2>1. os = OutcomesOf(h, q.path, t, d)
    BY <1>2, <1>3, <1>4, <1>5, <1>6, OutcomesAre DEF AtOneMoment
  <2>2. PICK p : p = q.path
    OBVIOUS
  <2>3. t = Resolve(h)' /\ os1 = AtomicOutcomes(h, p)'
    BY <1>3, <1>8, <2>2
  <2>4. AtomicOutcomes(h, p)' = OutcomesOf(h, p, t, d1)
    BY <1>2, <1>3, <1>4, <1>5, <2>3, OutcomesNext DEF AtOneMoment
  <2>5. OutcomesOf(h, p, t, d) = OutcomesOf(h, p, t, d1)
    BY <1>4, <1>8 DEF OutcomesOf
  <2> QED
    BY <2>1, <2>2, <2>3, <2>4, <2>5
<1>10. q.phase \in {"tenant", "canonical", "content"} => c1 = c
  BY <1>3, <1>4, <1>5, <1>7, <1>8 DEF KnownOf
<1> QED
  BY <1>7, <1>8, <1>9, <1>10 DEF KnownOf

LEMMA ReadTouches ==
  ASSUME NEW r \in Readers, Read(r)
  PROVE  UNCHANGED directory /\ \A u \in Readers \ {r} : lookup'[u] = lookup[u]
<1> SUFFICES ASSUME NEW l, Advance(r, l)
             PROVE  UNCHANGED directory /\ \A u \in Readers \ {r} : lookup'[u] = lookup[u]
  BY DEF Read, ListTenants, ListDomains, Miss, LookupBySlug
<1> QED
  BY DEF Advance

LEMMA ExactRead ==
  ASSUME ExactInv, NEW r \in Readers, Read(r), UNCHANGED gateVars
  PROVE  ExactInv'
<1>1. BaseInv'
  BY ReadStep DEF ExactInv, BaseInv, RequestTypeOK, gateVars
<1>2. PICK q, l, m : q = request[r] /\ l = lookup[r] /\ m = lookup'[r]
  OBVIOUS
<1>3. PICK t, c, d, os : /\ t = Resolve(q.host) /\ c = Resolve(l.host) /\ d = Resolve(m.host)
                         /\ os = AtomicOutcomes(q.host, q.path)
  OBVIOUS
<1>4. UNCHANGED directory /\ \A u \in Readers \ {r} : lookup'[u] = lookup[u]
  BY ReadTouches
<1>5. SteadyAt(l, c) => SteadyAt(m, d) /\ m.host = l.host
  <2>1. SteadyAt(l, c) => SteadyAt(m, c) /\ m.host = l.host
    BY <1>2, <1>3, SteadyRead DEF ExactInv, BaseInv
  <2> QED
    BY <2>1, <1>3
<1>6. ASSUME r \in steady PROVE KnownOf(q, m, t, d, os)
  <2>1. KnownOf(q, l, t, c, os)
    BY <1>2, <1>3, <1>6 DEF ExactInv, Exact
  <2> QED
    BY <2>1, <1>5 DEF KnownOf
<1> QED
  BY <1>1, <1>2, <1>3, <1>4, <1>6, MovesOn DEF gateVars

(* The request is answered. *)
LEMMA FinishExact ==
  ASSUME ExactInv, NEW r \in Readers, NEW o \in Outcomes, o # "content", Finish(r, o),
         r \in steady => o \in AtomicOutcomes(request[r].host, request[r].path)
  PROVE  ExactInv'
<1>1. /\ BaseInv' /\ UNCHANGED <<directoryVars, steady>>
      /\ request' = [request EXCEPT ![r].phase = "idle", ![r].outcome = o]
  BY FinishBase DEF ExactInv
<1>2. /\ UNCHANGED directory /\ steady' = steady
      /\ \A u \in Readers \ {r} : request'[u] = request[u] /\ lookup'[u] = lookup[u]
  BY <1>1 DEF directoryVars, reading, ExactInv, BaseInv, RequestTypeOK
<1>3. PICK q, l : q = request'[r] /\ l = lookup'[r]
  OBVIOUS
<1>4. PICK t, c, os : /\ t = Resolve(q.host) /\ c = Resolve(l.host)
                      /\ os = AtomicOutcomes(q.host, q.path)
  OBVIOUS
<1>5. /\ q.phase = "idle" /\ q.outcome = o
      /\ q.host = request[r].host /\ q.path = request[r].path
  BY <1>1, <1>3 DEF ExactInv, BaseInv, RequestTypeOK, Request
<1>6. r \in steady' => KnownOf(q, l, t, c, os)
  BY <1>1, <1>4, <1>5 DEF KnownOf
<1>7. BaseInv'
  BY <1>1
<1> QED
  BY <1>2, <1>3, <1>4, <1>6, <1>7, MovesOn

(* The request goes on with a lookup of h. *)
LEMMA LooksUpExact ==
  ASSUME ExactInv, BaseInv', NEW r \in Readers, NEW h \in Hosts, BeginLookup(r, h),
         UNCHANGED directory, steady' \subseteq steady \union {r},
         NEW q, request' = [request EXCEPT ![r] = q],
         NEW t, NEW c, NEW os,
         t = Resolve(q.host), c = Resolve(h), os = AtomicOutcomes(q.host, q.path),
         r \in steady' => KnownOf(q, Started(h), t, c, os)
  PROVE  ExactInv'
<1>1. /\ \A u \in Readers \ {r} : request'[u] = request[u] /\ lookup'[u] = lookup[u]
      /\ q = request'[r]
  BY DEF BeginLookup, ExactInv, BaseInv, RequestTypeOK
<1>2. PICK l : l = lookup'[r] /\ l = Started(h)
  BY LookupBegins DEF ExactInv, BaseInv
<1>3. c = Resolve(l.host)
  BY <1>2, StartedLookup
<1> QED
  BY <1>1, <1>2, <1>3, MovesOn

LEMMA ArriveExact ==
  ASSUME ExactInv, NEW r \in Readers, NEW h \in Hosts, NEW p \in PathKinds, Arrive(r, h, p)
  PROVE  ExactInv'
<1>1. BaseInv'
  BY ArriveBase DEF ExactInv
<1>2. PICK q : q = [NoRequest EXCEPT !.host = h, !.path = p,
                      !.phase = IF p = "plugin" THEN "content" ELSE "tenant"]
  OBVIOUS
<1>3. /\ q.host = h /\ q.path = p
      /\ q.phase = IF p = "plugin" THEN "content" ELSE "tenant"
  BY <1>2 DEF NoRequest
<1>4. /\ request' = [request EXCEPT ![r] = q] /\ steady' = steady \union {r}
      /\ BeginLookup(r, h) /\ UNCHANGED directory
  BY <1>2 DEF Arrive
<1>5. PICK t, k : t = Resolve(h) /\ k = Primary[t.slug]
  OBVIOUS
<1>6. PICK c, os : c = Resolve(k) /\ os = AtomicOutcomes(h, p)
  OBVIOUS
<1>7. os = OutcomesOf(h, p, t, c)
  BY <1>5, <1>6, OutcomesAre DEF AtOneMoment
<1>8. p = "plugin" /\ t # Nobody => "content" \in os
  BY <1>7 DEF OutcomesOf
<1>9. KnownOf(q, Started(h), t, t, os)
  BY <1>3, <1>8, StartedLookup, SteadyStarted DEF KnownOf
<1> QED
  BY <1>1, <1>3, <1>4, <1>5, <1>6, <1>9, LooksUpExact

LEMMA EnterServerExact ==
  ASSUME ExactInv, NEW r \in Readers, EnterServer(r),
         r \in steady => /\ request[r].path \in {"content", "insecure", "admin", "health"}
                         /\ Served(request[r].path)
                              \subseteq AtomicOutcomes(request[r].host, request[r].path)
  PROVE  ExactInv'
<1>1. CASE request[r].path = "admin" /\ Finish(r, "notfound")
  BY <1>1, FinishExact DEF Served, Outcomes
<1>2. CASE request[r].path = "health" /\ Finish(r, "healthy")
  BY <1>2, FinishExact DEF Served, Outcomes
<1>3. CASE /\ request[r].path \notin {"admin", "health"}
           /\ request' = [request EXCEPT ![r].phase = "content"]
           /\ BeginLookup(r, request[r].host)
           /\ UNCHANGED <<directory, steady>>
  <2>1. BaseInv'
    BY EnterServerBase DEF ExactInv
  <2>2. PICK q, h : q = [request[r] EXCEPT !.phase = "content"] /\ h = request[r].host
    OBVIOUS
  <2>3. /\ q.host = h /\ q.path = request[r].path /\ q.phase = "content" /\ h \in Hosts
        /\ request' = [request EXCEPT ![r] = q]
    BY <1>3, <2>2, RequestTypes DEF ExactInv, BaseInv, Request
  <2>4. PICK t, os : t = Resolve(h) /\ os = AtomicOutcomes(h, q.path)
    OBVIOUS
  <2>5. r \in steady' => "content" \in os
    BY <1>3, <2>2, <2>3, <2>4 DEF Served
  <2>6. r \in steady' => KnownOf(q, Started(h), t, t, os)
    BY <2>3, <2>5, StartedLookup, SteadyStarted DEF KnownOf
  <2>7. BeginLookup(r, h) /\ UNCHANGED directory /\ steady' = steady
    BY <1>3, <2>2
  <2> QED
    BY <2>1, <2>3, <2>4, <2>6, <2>7, LooksUpExact
<1> QED
  BY <1>1, <1>2, <1>3 DEF EnterServer

LEMMA ToPasswordExact ==
  ASSUME ExactInv, NEW r \in Readers, NEW t \in TenantInfo \union {Nobody}, ToPassword(r, t),
         r \in steady => /\ request[r].path # "plugin"
                         /\ t = Resolve(request[r].host)
                         /\ AtomicOutcomes(request[r].host, request[r].path)
                              = PrivateOutcomes(request[r].path, t)
  PROVE  ExactInv'
<1>1. CASE request[r].path = "ingest" /\ Finish(r, "notfound")
  BY <1>1, FinishExact DEF PrivateOutcomes, Outcomes
<1>2. CASE request[r].path = "insecure" /\ Finish(r, "refused")
  BY <1>2, FinishExact DEF PrivateOutcomes, Outcomes
<1>3. CASE /\ request[r].path \notin {"ingest", "insecure"} /\ t.slug \notin Protected
           /\ Finish(r, "unavailable")
  BY <1>3, FinishExact DEF PrivateOutcomes, Outcomes
<1>4. CASE /\ request[r].path \notin {"ingest", "insecure"} /\ t.slug \in Protected
           /\ request' = [request EXCEPT ![r].phase = "password", ![r].tenant = t]
           /\ UNCHANGED <<directoryVars, steady>>
  <2>1. BaseInv'
    BY ToPasswordBase DEF ExactInv
  <2>2. PICK q, l : q = request'[r] /\ l = lookup'[r]
    OBVIOUS
  <2>3. /\ q.host = request[r].host /\ q.path = request[r].path /\ q.phase = "password"
        /\ q.path \in PathKinds /\ q.tenant = t
    BY <1>4, <2>2, RequestTypes DEF ExactInv, BaseInv, RequestTypeOK, Request
  <2>4. PICK u, c, os : /\ u = Resolve(q.host) /\ c = Resolve(l.host)
                        /\ os = AtomicOutcomes(q.host, q.path)
    OBVIOUS
  <2>5. ASSUME r \in steady PROVE KnownOf(q, l, u, c, os)
    <3>1. os = {"refused"} \union Served(q.path)
      BY <1>4, <2>3, <2>4, <2>5 DEF PrivateOutcomes
    <3>2. q.path \in {"content", "admin", "health"}
      BY <1>4, <2>3, <2>5 DEF PathKinds
    <3>3. u = t
      BY <2>3, <2>4, <2>5
    <3> QED
      BY <2>3, <3>1, <3>2, <3>3 DEF KnownOf
  <2>6. /\ UNCHANGED directory /\ steady' = steady
        /\ \A v \in Readers \ {r} : request'[v] = request[v] /\ lookup'[v] = lookup[v]
    BY <1>4 DEF directoryVars, reading, ExactInv, BaseInv, RequestTypeOK
  <2> QED
    BY <2>1, <2>2, <2>4, <2>5, <2>6, MovesOn
<1> QED
  BY <1>1, <1>2, <1>3, <1>4 DEF ToPassword, Secure

LEMMA GateTenantExact ==
  ASSUME ExactInv, NEW r \in Readers, GateTenant(r)
  PROVE  ExactInv'
<1>1. PICK q, t : q = request[r] /\ t = lookup[r].answer
  OBVIOUS
<1>2. PICK h, p : h = q.host /\ p = q.path
  OBVIOUS
<1>3. q.phase = "tenant" /\ lookup[r].stage = "done" /\ h \in Hosts
      /\ t \in TenantInfo \union {Nobody}
  BY <1>1, <1>2, RequestTypes, LookupTypes
     DEF GateTenant, Answered, ExactInv, BaseInv, LookupInv
<1>4. PICK k, c, os : /\ k = Primary[t.slug] /\ c = Resolve(k) /\ os = AtomicOutcomes(h, p)
  OBVIOUS
<1>5. ASSUME r \in steady PROVE t = Resolve(h) /\ p # "plugin" /\ os = OutcomesOf(h, p, t, c)
  <2>1. PICK l, u, d : l = lookup[r] /\ u = Resolve(q.host) /\ d = Resolve(l.host)
    OBVIOUS
  <2>2. KnownOf(q, l, u, d, os)
    BY <1>1, <1>2, <1>4, <1>5, <2>1 DEF ExactInv, Exact
  <2>3. l.host = q.host /\ SteadyAt(l, d) /\ p # "plugin"
    BY <1>2, <1>3, <2>2 DEF KnownOf
  <2>4. t = d
    BY <1>1, <1>3, <2>1, <2>3 DEF SteadyAt
  <2>5. t = Resolve(h)
    BY <1>2, <2>1, <2>3, <2>4
  <2> QED
    BY <1>3, <1>4, <2>3, <2>5, OutcomesAre DEF AtOneMoment
<1>6. CASE t = Nobody /\ Finish(r, "notfound")
  <2>1. r \in steady => "notfound" \in AtomicOutcomes(request[r].host, request[r].path)
    BY <1>1, <1>2, <1>4, <1>5, <1>6 DEF OutcomesOf
  <2> QED
    BY <1>6, <2>1, FinishExact DEF Outcomes
<1>7. CASE t # Nobody /\ k = NoHost /\ ToPassword(r, t)
  <2>1. Aliases[t.slug] = {}
    BY <1>3, <1>4, <1>7, TenantTypes DEF ExactInv, AliasesNeedPrimary
  <2>2. k # h
    BY <1>3, <1>7, PolicyAssumption
  <2>3. r \in steady => os = PrivateOutcomes(p, t)
    BY <1>4, <1>5, <1>7, <2>1, <2>2 DEF OutcomesOf
  <2>4. r \in steady => /\ request[r].path # "plugin"
                        /\ t = Resolve(request[r].host)
                        /\ AtomicOutcomes(request[r].host, request[r].path)
                             = PrivateOutcomes(request[r].path, t)
    BY <1>1, <1>2, <1>4, <1>5, <2>3
  <2> QED
    BY <1>3, <1>7, <2>4, ToPasswordExact
<1>8. CASE /\ t # Nobody /\ k # NoHost
           /\ request' = [request EXCEPT ![r].phase = "canonical", ![r].tenant = t]
           /\ BeginLookup(r, k)
           /\ UNCHANGED <<directory, steady>>
  <2>1. BaseInv'
    BY GateTenantBase DEF ExactInv
  <2>2. PICK n : n = [q EXCEPT !.phase = "canonical", !.tenant = t]
    OBVIOUS
  <2>3. /\ n.host = h /\ n.path = p /\ n.phase = "canonical" /\ n.tenant = t
        /\ request' = [request EXCEPT ![r] = n]
    BY <1>1, <1>2, <1>8, <2>2, RequestTypes DEF ExactInv, BaseInv, Request
  <2>4. k \in Hosts
    BY <1>3, <1>4, <1>8, TenantTypes
  <2>5. PICK u : u = Resolve(h)
    OBVIOUS
  <2>6. r \in steady' => KnownOf(n, Started(k), u, c, os)
    BY <1>4, <1>5, <1>8, <2>3, <2>4, <2>5, StartedLookup, SteadyStarted DEF KnownOf
  <2> QED
    BY <1>4, <1>8, <2>1, <2>3, <2>4, <2>5, <2>6, LooksUpExact
<1> QED
  BY <1>1, <1>4, <1>6, <1>7, <1>8 DEF GateTenant

LEMMA GateCanonicalExact ==
  ASSUME ExactInv, NEW r \in Readers, GateCanonical(r)
  PROVE  ExactInv'
<1>1. PICK q, a : q = request[r] /\ a = lookup[r].answer
  OBVIOUS
<1>2. PICK h, p, t : h = q.host /\ p = q.path /\ t = q.tenant
  OBVIOUS
<1>3. PICK k, os : k = Primary[t.slug] /\ os = AtomicOutcomes(h, p)
  OBVIOUS
<1>4. /\ q.phase = "canonical" /\ lookup[r].stage = "done"
      /\ h \in Hosts /\ p \in PathKinds /\ t \in TenantInfo \union {Nobody}
  BY <1>1, <1>2, RequestTypes DEF GateCanonical, Answered, ExactInv, BaseInv
<1>5. ASSUME r \in steady
      PROVE  /\ p # "plugin" /\ t = Resolve(h) /\ t # Nobody /\ k # NoHost
             /\ os = OutcomesOf(h, p, t, a)
  <2>1. PICK l, u, d : l = lookup[r] /\ u = Resolve(h) /\ d = Resolve(l.host)
    OBVIOUS
  <2>2. KnownOf(q, l, u, d, os)
    BY <1>1, <1>2, <1>3, <1>5, <2>1 DEF ExactInv, Exact
  <2>3. /\ p # "plugin" /\ t = u /\ t # Nobody /\ k # NoHost
        /\ l.host = k /\ SteadyAt(l, d)
    BY <1>2, <1>3, <1>4, <2>2 DEF KnownOf
  <2>4. a = d
    BY <1>1, <1>4, <2>1, <2>3 DEF SteadyAt
  <2>5. a = Resolve(k)
    BY <2>1, <2>3, <2>4
  <2> QED
    BY <1>3, <1>4, <2>1, <2>3, <2>5, OutcomesAre DEF AtOneMoment
<1>6. request[r].host = h /\ request[r].path = p /\ request[r].tenant = t
  BY <1>1, <1>2
<1>7. ASSUME NEW o \in Outcomes, o # "content", Finish(r, o), r \in steady => o \in os
      PROVE  ExactInv'
  BY <1>3, <1>6, <1>7, FinishExact
<1>8. CASE ~CanonicalConfirmed(a, t) /\ Finish(r, "unavailable")
  <2>1. r \in steady => "unavailable" \in os
    BY <1>3, <1>5, <1>8 DEF OutcomesOf
  <2> QED
    BY <1>7, <1>8, <2>1 DEF Outcomes
<1>9. CASE CanonicalConfirmed(a, t) /\ h = k /\ p = "ingest" /\ Finish(r, "notfound")
  <2>1. r \in steady => "notfound" \in os
    BY <1>3, <1>5, <1>9 DEF OutcomesOf, Served
  <2> QED
    BY <1>7, <1>9, <2>1 DEF Outcomes
<1>10. CASE CanonicalConfirmed(a, t) /\ h = k /\ p # "ingest" /\ EnterServer(r)
  <2>1. r \in steady => os = Served(p) /\ p \in {"content", "insecure", "admin", "health"}
    BY <1>3, <1>4, <1>5, <1>10 DEF OutcomesOf, PathKinds
  <2>2. r \in steady => /\ request[r].path \in {"content", "insecure", "admin", "health"}
                        /\ Served(request[r].path)
                             \subseteq AtomicOutcomes(request[r].host, request[r].path)
    BY <1>3, <1>6, <2>1
  <2> QED
    BY <1>10, <2>2, EnterServerExact
<1>11. CASE /\ CanonicalConfirmed(a, t) /\ h # k /\ h \in Aliases[t.slug] /\ t.kind # "preview"
            /\ Finish(r, IF request[r].path = "ingest" THEN "notfound" ELSE "redirect")
  <2>1. PICK o : o = IF p = "ingest" THEN "notfound" ELSE "redirect"
    OBVIOUS
  <2>2. r \in steady => o \in os
    BY <1>3, <1>5, <1>11, <2>1 DEF OutcomesOf
  <2>3. o \in Outcomes /\ o # "content" /\ Finish(r, o)
    BY <1>6, <1>11, <2>1 DEF Outcomes
  <2> QED
    BY <1>7, <2>2, <2>3
<1>12. CASE /\ CanonicalConfirmed(a, t) /\ h # k /\ ~(h \in Aliases[t.slug] /\ t.kind # "preview")
            /\ ToPassword(r, t)
  <2>1. r \in steady => os = PrivateOutcomes(p, t)
    BY <1>3, <1>5, <1>12 DEF OutcomesOf
  <2>2. r \in steady => /\ request[r].path # "plugin"
                        /\ t = Resolve(request[r].host)
                        /\ AtomicOutcomes(request[r].host, request[r].path)
                             = PrivateOutcomes(request[r].path, t)
    BY <1>3, <1>5, <1>6, <2>1
  <2> QED
    BY <1>4, <1>12, <2>2, ToPasswordExact
<1>13. CASE ~CanonicalConfirmed(a, t)
  BY <1>1, <1>2, <1>8, <1>13 DEF GateCanonical, CanonicalHolds
<1>14. CASE CanonicalConfirmed(a, t) /\ h = k
  <2>1. CASE p = "ingest"
    <3>1. Finish(r, "notfound")
      BY <1>1, <1>2, <1>3, <1>14, <2>1 DEF GateCanonical, CanonicalHolds
    <3> QED
      BY <1>9, <1>14, <2>1, <3>1
  <2>2. CASE p # "ingest"
    <3>1. EnterServer(r)
      BY <1>1, <1>2, <1>3, <1>14, <2>2 DEF GateCanonical, CanonicalHolds
    <3> QED
      BY <1>10, <1>14, <2>2, <3>1
  <2> QED
    BY <2>1, <2>2
<1>15. CASE CanonicalConfirmed(a, t) /\ h # k /\ h \in Aliases[t.slug] /\ t.kind # "preview"
  BY <1>1, <1>2, <1>3, <1>11, <1>15 DEF GateCanonical, CanonicalHolds
<1>16. CASE /\ CanonicalConfirmed(a, t) /\ h # k /\ ~(h \in Aliases[t.slug] /\ t.kind # "preview")
  BY <1>1, <1>2, <1>3, <1>12, <1>16 DEF GateCanonical, CanonicalHolds
<1> QED
  BY <1>13, <1>14, <1>15, <1>16

LEMMA PasswordExact ==
  ASSUME ExactInv, NEW r \in Readers, Password(r)
  PROVE  ExactInv'
<1>1. PICK q, l : q = request[r] /\ l = lookup[r]
  OBVIOUS
<1>2. PICK t, c, os : /\ t = Resolve(q.host) /\ c = Resolve(l.host)
                      /\ os = AtomicOutcomes(q.host, q.path)
  OBVIOUS
<1>3. r \in steady => KnownOf(q, l, t, c, os)
  BY <1>1, <1>2 DEF ExactInv, Exact
<1>4. q.phase = "password"
  BY <1>1 DEF Password
<1>5. r \in steady => /\ q.path \in {"content", "admin", "health"}
                      /\ "refused" \in os /\ Served(q.path) \subseteq os
  BY <1>3, <1>4 DEF KnownOf
<1>6. CASE Finish(r, "refused")
  BY <1>1, <1>2, <1>5, <1>6, FinishExact DEF Outcomes
<1>7. CASE EnterServer(r)
  BY <1>1, <1>2, <1>5, <1>7, EnterServerExact
<1> QED
  BY <1>6, <1>7 DEF Password

LEMMA ServeContentExact ==
  ASSUME ExactInv, NEW r \in Readers, ServeContent(r)
  PROVE  ExactInv'
<1>1. PICK q, l : q = request[r] /\ l = lookup[r]
  OBVIOUS
<1>2. PICK t, c, os : /\ t = Resolve(q.host) /\ c = Resolve(l.host)
                      /\ os = AtomicOutcomes(q.host, q.path)
  OBVIOUS
<1>3. r \in steady => KnownOf(q, l, t, c, os)
  BY <1>1, <1>2 DEF ExactInv, Exact
<1>4. q.phase = "content" /\ l.stage = "done" /\ q.host \in Hosts
  BY <1>1, RequestTypes DEF ServeContent, Answered, ExactInv, BaseInv
<1>5. r \in steady => l.host = q.host /\ l.answer = c /\ (t # Nobody => "content" \in os)
  BY <1>3, <1>4 DEF KnownOf, SteadyAt
<1>6. r \in steady => l.answer = t
  BY <1>2, <1>5
<1>7. CASE l.answer = Nobody /\ Finish(r, "notfound")
  <2>1. PICK h, k : h = q.host /\ k = Primary[t.slug]
    OBVIOUS
  <2>2. PICK d : d = Resolve(k)
    OBVIOUS
  <2>3. os = OutcomesOf(h, q.path, t, d)
    BY <1>2, <1>4, <2>1, <2>2, OutcomesAre DEF AtOneMoment
  <2>4. r \in steady => "notfound" \in os
    BY <1>6, <1>7, <2>3 DEF OutcomesOf
  <2> QED
    BY <1>1, <1>2, <1>7, <2>4, FinishExact DEF Outcomes
<1>8. CASE /\ l.answer # Nobody
           /\ request' = [request EXCEPT ![r].phase = "idle", ![r].outcome = "content",
                                         ![r].content = l.answer]
           /\ UNCHANGED <<directoryVars, steady>>
  <2>1. BaseInv'
    BY ServeContentBase DEF ExactInv
  <2>2. PICK n, m : n = request'[r] /\ m = lookup'[r]
    OBVIOUS
  <2>3. /\ n.host = q.host /\ n.path = q.path /\ n.phase = "idle"
        /\ n.outcome = "content" /\ n.content = l.answer
    BY <1>1, <1>8, <2>2, RequestTypes DEF ExactInv, BaseInv, RequestTypeOK, Request
  <2>4. PICK d : d = Resolve(m.host)
    OBVIOUS
  <2>5. /\ UNCHANGED directory /\ steady' = steady
        /\ \A u \in Readers \ {r} : request'[u] = request[u] /\ lookup'[u] = lookup[u]
    BY <1>8 DEF directoryVars, reading, ExactInv, BaseInv, RequestTypeOK
  <2>6. r \in steady' => KnownOf(n, m, t, d, os)
    BY <1>5, <1>6, <1>8, <2>3, <2>5 DEF KnownOf
  <2>7. t = Resolve(n.host) /\ os = AtomicOutcomes(n.host, n.path)
    BY <1>2, <2>3
  <2> QED
    BY <2>1, <2>2, <2>4, <2>5, <2>6, <2>7, MovesOn
<1> QED
  BY <1>1, <1>7, <1>8 DEF ServeContent

LEMMA AdminExact ==
  ASSUME ExactInv, AdminStep
  PROVE  ExactInv'
<1>1. BaseInv'
  BY BaseStep DEF ExactInv, Next
<1>2. UNCHANGED <<request, lookup>>
  BY DEF AdminStep, Administer, CreateTenant, ProvisionPreview, SkipPreview, UpdateTenant,
         DeleteTenant, CreateDomain, DeleteDomain, Observed, reading
<1>3. ASSUME NEW r \in steady' PROVE Exact(r)'
  <2>1. r \in steady /\ Undisturbed(r)
    BY DEF AdminStep
  <2> QED
    BY <1>2, <2>1, StaysUndisturbed
<1> QED
  BY <1>1, <1>3 DEF ExactInv, AliasesNeedPrimary

LEMMA StutterExact ==
  ASSUME ExactInv, UNCHANGED vars
  PROVE  ExactInv'
<1>1. BaseInv'
  BY BaseStep DEF ExactInv
<1>2. UNCHANGED <<request, lookup, steady>> /\ UNCHANGED directory
  BY DEF vars, gateVars, directoryVars, reading
<1>3. ASSUME NEW r \in steady' PROVE Exact(r)'
  <2>1. r \in steady /\ Undisturbed(r)
    BY <1>2, ResolveStays DEF Undisturbed
  <2> QED
    BY <1>2, <2>1, StaysUndisturbed
<1> QED
  BY <1>1, <1>3 DEF ExactInv, AliasesNeedPrimary

LEMMA ExactStep == ExactInv /\ [Next]_vars => ExactInv'
BY AdminExact, ArriveExact, ExactRead, GateTenantExact, GateCanonicalExact, PasswordExact,
   ServeContentExact, StutterExact DEF Next, Step

LEMMA ExactStarts == Init => ExactInv
<1> SUFFICES ASSUME Init PROVE ExactInv
  OBVIOUS
<1>1. BaseInv
  BY GateStarts
<1>2. AliasesNeedPrimary
  BY DEF Init, PoliciesValid, AliasesNeedPrimary
<1>3. steady = {}
  BY DEF Init
<1> QED
  BY <1>1, <1>2, <1>3 DEF ExactInv

(* As long as the directory does not change what a request asks, the three *)
(* lookups of the gate and the server, of several reads each, come to what *)
(* one moment would decide, for any number of tenants, hosts and requests. *)
THEOREM SteadyRequestsGoRight == Spec => []SteadyRequestsAreExact
<1>1. ExactInv => SteadyRequestsAreExact
  <2> SUFFICES ASSUME ExactInv, NEW r \in steady, request[r].phase = "idle"
               PROVE  /\ request[r].outcome \in AtomicOutcomes(request[r].host, request[r].path)
                      /\ request[r].outcome = "content"
                           => request[r].content = Resolve(request[r].host)
    BY DEF SteadyRequestsAreExact
  <2>1. PICK q, l : q = request[r] /\ l = lookup[r]
    OBVIOUS
  <2>2. PICK t, c, os : /\ t = Resolve(q.host) /\ c = Resolve(l.host)
                        /\ os = AtomicOutcomes(q.host, q.path)
    OBVIOUS
  <2>3. KnownOf(q, l, t, c, os)
    BY <2>1, <2>2 DEF ExactInv, Exact
  <2> QED
    BY <2>1, <2>2, <2>3 DEF KnownOf
<1> QED
  BY <1>1, ExactStarts, ExactStep, PTL DEF Spec

--------------------------------------------------------------------------------
(* The host behind its gate: what is proved of PolicyGate holds of it, with *)
(* the readers for its requests.                                           *)

Policy == INSTANCE PolicyGateProofs
            WITH Tenants <- Protected, Requests <- Readers, request <- attempt

LEMMA PolicyAssumed == Policy!GateAssumption
BY AttemptAssumption DEF Policy!GateAssumption, Policy!IsFiniteSet, IsFiniteSet

LEMMA PolicyStarts == Gate!Init => Policy!Init
BY DEF Gate!Init, Policy!Init

LEMMA AttemptsAreSteps ==
  ASSUME NEW r \in Readers
  PROVE  /\ \A t, p : Gate!Begin(r, t, p) => Policy!Begin(r, t, p)
         /\ Gate!Look(r) => Policy!Look(r)
         /\ Gate!Acquire(r) => Policy!Acquire(r)
         /\ Gate!Compare(r) => Policy!Compare(r)
         /\ Gate!RecordFailure(r) => Policy!RecordFailure(r)
         /\ Gate!RecordSuccess(r) => Policy!RecordSuccess(r)
<1>1. \A t, p : Gate!Begin(r, t, p) => Policy!Begin(r, t, p)
  BY DEF Gate!Begin, Policy!Begin
<1>2. Gate!Look(r) => Policy!Look(r)
  BY DEF Gate!Look, Policy!Look, Gate!Key, Policy!Key, Gate!Cached, Policy!Cached,
         Gate!Locked, Policy!Locked, Gate!Live, Policy!Live, Gate!Go, Policy!Go,
         Gate!Answer, Policy!Answer
<1>3. Gate!Acquire(r) => Policy!Acquire(r)
  BY DEF Gate!Acquire, Policy!Acquire, Gate!Comparing, Policy!Comparing, Gate!Go, Policy!Go,
         Gate!Answer, Policy!Answer, Gate!Cardinality, Policy!Cardinality,
         Gate!IsFiniteSet, Policy!IsFiniteSet
<1>4. Gate!Compare(r) => Policy!Compare(r)
  BY DEF Gate!Compare, Policy!Compare, Gate!Go, Policy!Go
<1>5. Gate!RecordFailure(r) => Policy!RecordFailure(r)
  BY DEF Gate!RecordFailure, Policy!RecordFailure, Gate!Matches, Policy!Matches,
         Gate!CountedFailure, Policy!CountedFailure, Gate!Live, Policy!Live,
         Gate!Answer, Policy!Answer
<1>6. Gate!RecordSuccess(r) => Policy!RecordSuccess(r)
  BY DEF Gate!RecordSuccess, Policy!RecordSuccess, Gate!Key, Policy!Key,
         Gate!Matches, Policy!Matches, Gate!WithRoom, Policy!WithRoom,
         Gate!Expired, Policy!Expired, Gate!Without, Policy!Without,
         Gate!Answer, Policy!Answer, Gate!Cardinality, Policy!Cardinality,
         Gate!IsFiniteSet, Policy!IsFiniteSet
<1> QED
  BY <1>1, <1>2, <1>3, <1>4, <1>5, <1>6

LEMMA PolicySteps == [Gate!Next]_Gate!vars => [Policy!Next]_Policy!vars
<1>1. Gate!Tick => Policy!Tick
  BY DEF Gate!Tick, Policy!Tick
<1>2. ASSUME NEW r \in Readers PROVE Gate!Serve(r) => Policy!Serve(r)
  BY AttemptsAreSteps DEF Gate!Serve, Policy!Serve
<1>3. UNCHANGED Gate!vars => UNCHANGED Policy!vars
  BY DEF Gate!vars, Policy!vars
<1> QED
  BY <1>1, <1>2, <1>3 DEF Gate!Next, Policy!Next

LEMMA PolicyStep == ASSUME Policy!GateInv, [Gate!Next]_Gate!vars PROVE Policy!GateInv'
BY PolicyAssumed, PolicySteps, Policy!GateStep

LEMMA PolicyInit == Gate!Init => Policy!GateInv
BY PolicyAssumed, PolicyStarts, Policy!GateInit

(* What an attempt's step does to the attempts and to what was verified. *)
AttemptTypeOK == attempt \in [Readers -> Policy!Request]

LEMMA AttemptTypes == Policy!GateInv => AttemptTypeOK
BY DEF Policy!GateInv, Policy!TypeOK, AttemptTypeOK

(* Whatever was found right was the password. *)
VerifiedAreRight == \A v \in verified : v[2] = Right[v[1]]

LEMMA AttemptMoves ==
  ASSUME AttemptTypeOK, NEW r \in Readers, Attempt(r)
  PROVE  /\ attempt[r].stage # "idle"
         /\ attempt'[r].tenant = attempt[r].tenant
         /\ \A u \in Readers : u # r => attempt'[u] = attempt[u]
         /\ gave' = gave /\ verified \subseteq verified'
         /\ VerifiedAreRight => VerifiedAreRight'
<1>1. attempt[r] \in Policy!Request
  BY DEF AttemptTypeOK
<1>2. ASSUME NEW s, Gate!Go(r, s)
      PROVE  /\ attempt'[r].tenant = attempt[r].tenant
             /\ \A u \in Readers : u # r => attempt'[u] = attempt[u]
  BY <1>1, <1>2 DEF Gate!Go, AttemptTypeOK, Policy!Request
<1>3. ASSUME NEW o, Gate!Answer(r, o)
      PROVE  /\ attempt'[r].tenant = attempt[r].tenant
             /\ \A u \in Readers : u # r => attempt'[u] = attempt[u]
  BY <1>1, <1>3 DEF Gate!Answer, AttemptTypeOK, Policy!Request
<1>4. CASE Gate!Look(r) \/ Gate!Acquire(r) \/ Gate!Compare(r) \/ Gate!RecordFailure(r)
  <2>1. attempt[r].stage # "idle" /\ verified' = verified
    BY <1>4 DEF Gate!Look, Gate!Acquire, Gate!Compare, Gate!RecordFailure
  <2>2. (\E s : Gate!Go(r, s)) \/ (\E o : Gate!Answer(r, o))
    BY <1>4 DEF Gate!Look, Gate!Acquire, Gate!Compare, Gate!RecordFailure
  <2> QED
    BY <1>2, <1>3, <2>1, <2>2 DEF Attempt, VerifiedAreRight
<1>5. CASE Gate!RecordSuccess(r)
  <2>1. /\ attempt[r].stage # "idle" /\ Gate!Answer(r, "served")
        /\ verified' = verified
             \union {<<attempt[r].tenant, attempt[r].password, attempt[r].now>>}
        /\ attempt[r].password = Right[attempt[r].tenant]
    BY <1>5 DEF Gate!RecordSuccess, Gate!Matches
  <2>2. VerifiedAreRight => VerifiedAreRight'
    BY <2>1 DEF VerifiedAreRight
  <2> QED
    BY <1>3, <2>1, <2>2 DEF Attempt
<1> QED
  BY <1>4, <1>5 DEF Attempt

LEMMA GivesPassword ==
  ASSUME AttemptTypeOK, NEW r \in Readers, NEW p, GivePassword(r, p)
  PROVE  /\ attempt'[r].tenant = request[r].tenant.slug
         /\ \A u \in Readers : u # r => attempt'[u] = attempt[u]
         /\ verified' = verified
BY DEF GivePassword, Gate!Begin, AskedTenant, AttemptTypeOK

(* What a request's step does to the requests. *)
LEMMA FinishMoves ==
  ASSUME RequestTypeOK, NEW r \in Readers, NEW o, Finish(r, o)
  PROVE  /\ UNCHANGED <<directory, steady>>
         /\ \A u \in Readers : u # r => request'[u] = request[u]
         /\ request'[r].phase = "idle" /\ request'[r].outcome = o
         /\ request'[r].host = request[r].host /\ request'[r].path = request[r].path
BY DEF Finish, RequestTypeOK, Request, directoryVars

LEMMA EnterServerMoves ==
  ASSUME RequestTypeOK, NEW r \in Readers, EnterServer(r)
  PROVE  /\ UNCHANGED <<directory, steady>>
         /\ \A u \in Readers : u # r => request'[u] = request[u]
         /\ request'[r].phase \in {"idle", "content"}
         /\ request'[r].host = request[r].host /\ request'[r].path = request[r].path
<1>1. CASE /\ request' = [request EXCEPT ![r].phase = "content"]
           /\ UNCHANGED <<directory, steady>>
  BY <1>1 DEF RequestTypeOK, Request
<1> QED
  BY <1>1, FinishMoves DEF EnterServer

LEMMA ToPasswordMoves ==
  ASSUME RequestTypeOK, NEW r \in Readers, NEW t, ToPassword(r, t)
  PROVE  /\ UNCHANGED <<directory, steady>>
         /\ \A u \in Readers : u # r => request'[u] = request[u]
         /\ \/ /\ request'[r].phase = "idle"
               /\ request'[r].outcome \notin {"content", "healthy"}
            \/ /\ request'[r].phase = "password" /\ request'[r].tenant = t
               /\ t.slug \in Protected
<1>1. CASE /\ request' = [request EXCEPT ![r].phase = "password", ![r].tenant = t]
           /\ UNCHANGED <<directoryVars, steady>> /\ t.slug \in Protected
  BY <1>1 DEF RequestTypeOK, Request, directoryVars
<1>2. CASE \E o \in {"notfound", "refused", "unavailable"} : Finish(r, o)
  BY <1>2, FinishMoves
<1> QED
  BY <1>1, <1>2 DEF ToPassword

(* An attempt that goes on belongs to a request that waits for it. *)
Waits(r, q, a, given) ==
  /\ q.phase = "password" => q.tenant.slug \in Protected
  /\ a.stage # "idle" =>
       q.phase = "password" /\ r \in given /\ a.tenant = q.tenant.slug

InServer(q) ==
  /\ q.path # "plugin"
  /\ \/ q.phase = "content"
     \/ q.phase = "idle" /\ q.outcome \in {"content", "healthy"}

Given(r, a, t, given, found) ==
  /\ r \in given /\ a.tenant = t.slug /\ a.password = Right[t.slug]
  /\ \E v \in found : v[1] = t.slug /\ v[2] = Right[t.slug] /\ v[3] + Window > a.now

(* How a request q for t's host came into the server. *)
Admitted(r, q, a, t, given, found) ==
  InServer(q) => \/ q.host = Primary[t.slug]
                 \/ q.path = "content" /\ t.kind = "preview"
                 \/ Given(r, a, t, given, found)

RequestsWait == \A r \in Readers : Waits(r, request[r], attempt[r], gave)

AdmittedWell(r) ==
  \A q, t : q = request[r] /\ t = Resolve(q.host)
              => Admitted(r, q, attempt[r], t, gave, verified)

GatedInv ==
  /\ ExactInv
  /\ Policy!GateInv
  /\ VerifiedAreRight
  /\ RequestsWait
  /\ \A r \in steady : AdmittedWell(r)

LEMMA GatedStarts == GatedInit => GatedInv
<1> SUFFICES ASSUME GatedInit PROVE GatedInv
  OBVIOUS
<1>1. ExactInv /\ Policy!GateInv /\ steady = {}
  BY ExactStarts, PolicyInit DEF GatedInit, Init
<1>2. VerifiedAreRight
  BY DEF GatedInit, Gate!Init, VerifiedAreRight
<1>3. \A r \in Readers : request[r].phase = "idle" /\ attempt[r].stage = "idle"
  BY DEF GatedInit, Init, Gate!Init, NoRequest
<1> QED
  BY <1>1, <1>2, <1>3 DEF GatedInv, RequestsWait, Waits

(* The host's part of a step, and the gate's. *)
LEMMA StepOfHost ==
  ASSUME RequestsWait, AttemptTypeOK, [GatedNext]_gatedVars
  PROVE  [Next]_vars
<1>1. CASE UNCHANGED gatedVars
  BY <1>1 DEF gatedVars
<1>2. CASE AdminStep
  BY <1>2 DEF Next
<1>3. CASE Gate!Tick /\ UNCHANGED <<vars, gave>>
  BY <1>3
<1>4. ASSUME NEW r \in Readers, NEW h \in Hosts, NEW p \in PathKinds, ArriveFresh(r, h, p)
      PROVE  Next
  BY <1>4 DEF ArriveFresh, Next, Step
<1>5. ASSUME NEW r \in Readers, HostStep(r) PROVE Next
  BY <1>5 DEF HostStep, Next, Step
<1>6. ASSUME NEW r \in Readers, Challenge(r) \/ PreviewAccess(r) PROVE Next
  BY <1>6 DEF Challenge, PreviewAccess, Asking, Password, Next, Step
<1>7. ASSUME NEW r \in Readers, NEW p, GivePassword(r, p) PROVE UNCHANGED vars
  BY <1>7 DEF GivePassword
<1>8. ASSUME NEW r \in Readers, Attempt(r) PROVE Next \/ UNCHANGED vars
  <2>1. request[r].phase = "password"
    BY <1>8, AttemptMoves DEF RequestsWait, Waits
  <2> QED
    BY <1>8, <2>1 DEF Attempt, Password, Next, Step
<1> QED
  BY <1>1, <1>2, <1>3, <1>4, <1>5, <1>6, <1>7, <1>8 DEF GatedNext, GatedStep

LEMMA StepOfGate ==
  ASSUME RequestsWait, [GatedNext]_gatedVars
  PROVE  [Gate!Next]_Gate!vars
<1>1. UNCHANGED policyVars => UNCHANGED Gate!vars
  BY DEF policyVars, Gate!vars
<1>2. CASE UNCHANGED gatedVars
  BY <1>1, <1>2 DEF gatedVars
<1>3. CASE Gate!Tick
  BY <1>3 DEF Gate!Next
<1>4. ASSUME NEW r \in Readers, NEW p \in Passwords, GivePassword(r, p) PROVE Gate!Next
  <2>1. request[r].tenant.slug \in Protected
    BY <1>4 DEF GivePassword, Asking, RequestsWait, Waits
  <2> QED
    BY <1>4, <2>1 DEF GivePassword, AskedTenant, Gate!Next, Gate!Serve
<1>5. ASSUME NEW r \in Readers, Attempt(r) PROVE Gate!Next
  BY <1>5 DEF Attempt, Gate!Next, Gate!Serve
<1>6. ASSUME NEW r \in Readers, HostStep(r) \/ Challenge(r) \/ PreviewAccess(r)
      PROVE  UNCHANGED policyVars
  BY <1>6 DEF HostStep, Challenge, PreviewAccess
<1>7. ASSUME NEW r \in Readers, NEW h, NEW p, ArriveFresh(r, h, p) PROVE UNCHANGED policyVars
  BY <1>7 DEF ArriveFresh
<1> QED
  BY <1>1, <1>2, <1>3, <1>4, <1>5, <1>6, <1>7 DEF GatedNext, GatedStep

(* One request moves while the directory stands still. *)
LEMMA OneGoesOn ==
  ASSUME GatedInv, ExactInv', Policy!GateInv', VerifiedAreRight', UNCHANGED directory,
         NEW r \in Readers, steady' \subseteq steady \union {r}, verified \subseteq verified',
         \A u \in Readers : u # r =>
           /\ request'[u] = request[u] /\ attempt'[u] = attempt[u]
           /\ u \in gave => u \in gave',
         NEW q, q = request'[r],
         Waits(r, q, attempt'[r], gave'),
         r \in steady' /\ InServer(q) => Admitted(r, q, attempt'[r], Resolve(q.host), gave', verified')
  PROVE  GatedInv'
<1>1. RequestsWait'
  BY DEF GatedInv, RequestsWait, Waits
<1>2. ASSUME NEW u \in steady' PROVE AdmittedWell(u)'
  <2>1. u \in Readers
    BY DEF ExactInv, BaseInv, RequestTypeOK
  <2>2. SUFFICES ASSUME NEW p, NEW t, p = request'[u], t = Resolve(p.host)'
                 PROVE  Admitted(u, p, attempt'[u], t, gave', verified')
    BY DEF AdmittedWell
  <2>3. t = Resolve(p.host)
    BY <2>2, ResolveStays
  <2>4. CASE u = r
    BY <2>2, <2>3, <2>4 DEF Admitted
  <2>5. CASE u # r
    <3>1. p = request[u] /\ attempt'[u] = attempt[u] /\ u \in steady
      BY <2>1, <2>2, <2>5
    <3>2. Admitted(u, p, attempt[u], t, gave, verified)
      BY <2>3, <3>1 DEF GatedInv, AdmittedWell
    <3>3. Given(u, attempt[u], t, gave, verified) => Given(u, attempt'[u], t, gave', verified')
      BY <2>1, <2>5, <3>1 DEF Given
    <3> QED
      BY <3>2, <3>3 DEF Admitted
  <2> QED
    BY <2>4, <2>5
<1> QED
  BY <1>1, <1>2 DEF GatedInv

(* No request moves, and what the steady ones ask stays. *)
LEMMA NoneGoesOn ==
  ASSUME GatedInv, ExactInv', Policy!GateInv', UNCHANGED <<request, attempt, gave, verified>>,
         \A r \in steady' : r \in steady /\ Undisturbed(r)
  PROVE  GatedInv'
<1>1. RequestsWait' /\ VerifiedAreRight'
  BY DEF GatedInv, RequestsWait, VerifiedAreRight
<1>2. ASSUME NEW u \in steady' PROVE AdmittedWell(u)'
  <2>1. SUFFICES ASSUME NEW p, NEW t, p = request'[u], t = Resolve(p.host)'
                 PROVE  Admitted(u, p, attempt[u], t, gave, verified)
    BY DEF AdmittedWell
  <2>2. u \in steady /\ Undisturbed(u) /\ p = request[u]
    BY <2>1
  <2>3. t = Resolve(p.host)
    BY <2>1, <2>2 DEF Undisturbed, Asked
  <2> QED
    BY <2>2, <2>3 DEF GatedInv, AdmittedWell
<1> QED
  BY <1>1, <1>2 DEF GatedInv

(* While nothing else moves, a request that waits for nothing and is not in *)
(* the server.                                                             *)
LEMMA OutsideGoesOn ==
  ASSUME GatedInv, ExactInv', UNCHANGED <<policyVars, directory>>,
         NEW r \in Readers, steady' \subseteq steady \union {r},
         \A u \in Readers : u # r => request'[u] = request[u] /\ (u \in gave => u \in gave'),
         NEW q, q = request'[r],
         attempt[r].stage = "idle", q.phase = "password" => q.tenant.slug \in Protected,
         r \in steady' /\ InServer(q) => Admitted(r, q, attempt[r], Resolve(q.host), gave', verified)
  PROVE  GatedInv'
<1>1. attempt' = attempt /\ verified' = verified
  BY DEF policyVars
<1>2. Policy!GateInv'
  <2>1. UNCHANGED Gate!vars
    BY DEF policyVars, Gate!vars
  <2> QED
    BY <2>1, PolicyStep DEF GatedInv
<1>3. VerifiedAreRight'
  BY <1>1 DEF GatedInv, VerifiedAreRight
<1>4. Waits(r, q, attempt'[r], gave')
  BY <1>1 DEF Waits
<1> QED
  BY <1>1, <1>2, <1>3, <1>4, OneGoesOn

LEMMA ArriveGated ==
  ASSUME GatedInv, ExactInv', NEW r \in Readers, NEW h \in Hosts, NEW p \in PathKinds,
         ArriveFresh(r, h, p)
  PROVE  GatedInv'
<1>1. PICK q : q = [NoRequest EXCEPT !.host = h, !.path = p,
                      !.phase = IF p = "plugin" THEN "content" ELSE "tenant"]
  OBVIOUS
<1>2. /\ request[r].phase = "idle" /\ request' = [request EXCEPT ![r] = q]
      /\ steady' = steady \union {r} /\ UNCHANGED directory /\ UNCHANGED policyVars
      /\ gave' = gave \ {r}
  BY <1>1 DEF ArriveFresh, Arrive
<1>3. /\ \A u \in Readers : u # r => request'[u] = request[u] /\ (u \in gave => u \in gave')
      /\ q = request'[r]
  BY <1>2 DEF GatedInv, ExactInv, BaseInv, RequestTypeOK
<1>4. q.path = p /\ q.phase = IF p = "plugin" THEN "content" ELSE "tenant"
  BY <1>1 DEF NoRequest
<1>5. ~InServer(q) /\ q.phase # "password"
  BY <1>4 DEF InServer
<1>6. attempt[r].stage = "idle"
  BY <1>2 DEF GatedInv, RequestsWait, Waits
<1> QED
  BY <1>2, <1>3, <1>5, <1>6, OutsideGoesOn

LEMMA HostStepGated ==
  ASSUME GatedInv, ExactInv', NEW r \in Readers, HostStep(r)
  PROVE  GatedInv'
<1>1. UNCHANGED policyVars /\ gave' = gave
  BY DEF HostStep
<1>2. RequestTypeOK /\ ExactInv
  BY DEF GatedInv, ExactInv, BaseInv
<1>3. CASE Read(r) /\ UNCHANGED gateVars
  <2>1. UNCHANGED <<request, attempt, gave, verified, steady>>
    BY <1>1, <1>3 DEF gateVars, policyVars
  <2>2. UNCHANGED Gate!vars /\ UNCHANGED directory
    BY <1>1, <1>3, ReadTouches DEF policyVars, Gate!vars
  <2>3. \A u \in steady' : u \in steady /\ Undisturbed(u)
    BY <2>1, <2>2, ResolveStays DEF Undisturbed
  <2>4. Policy!GateInv'
    BY <2>2, PolicyStep DEF GatedInv
  <2> QED
    BY <2>1, <2>3, <2>4, NoneGoesOn
<1>4. ASSUME request[r].phase # "password", UNCHANGED <<directory, steady>>,
             \A u \in Readers : u # r => request'[u] = request[u],
             NEW q, q = request'[r], q.phase = "password" => q.tenant.slug \in Protected,
             r \in steady /\ InServer(q) => Admitted(r, q, attempt[r], Resolve(q.host), gave, verified)
      PROVE  GatedInv'
  <2>1. attempt[r].stage = "idle"
    BY <1>4 DEF GatedInv, RequestsWait, Waits
  <2> QED
    BY <1>1, <1>4, <2>1, OutsideGoesOn
<1>5. ASSUME request[r].phase # "password",
             \E o \in {"notfound", "unavailable", "redirect"} : Finish(r, o)
      PROVE  GatedInv'
  <2>1. PICK o \in {"notfound", "unavailable", "redirect"} : Finish(r, o)
    BY <1>5
  <2>2. /\ UNCHANGED <<directory, steady>>
        /\ \A u \in Readers : u # r => request'[u] = request[u]
        /\ request'[r].phase = "idle" /\ request'[r].outcome = o
    BY <1>2, <2>1, FinishMoves
  <2> QED
    BY <1>4, <1>5, <2>2 DEF InServer
<1>6. ASSUME request[r].phase # "password", NEW t, ToPassword(r, t)
      PROVE  GatedInv'
  <2>1. /\ UNCHANGED <<directory, steady>>
        /\ \A u \in Readers : u # r => request'[u] = request[u]
        /\ \/ /\ request'[r].phase = "idle"
              /\ request'[r].outcome \notin {"content", "healthy"}
           \/ /\ request'[r].phase = "password" /\ request'[r].tenant = t
              /\ t.slug \in Protected
    BY <1>2, <1>6, ToPasswordMoves
  <2> QED
    BY <1>4, <1>6, <2>1 DEF InServer
<1>7. CASE GateTenant(r)
  <2>1. PICK t : t = lookup[r].answer
    OBVIOUS
  <2>2. request[r].phase = "tenant"
    BY <1>7 DEF GateTenant, Answered
  <2>3. CASE /\ request' = [request EXCEPT ![r].phase = "canonical", ![r].tenant = t]
             /\ UNCHANGED <<directory, steady>>
    <3>1. /\ \A u \in Readers : u # r => request'[u] = request[u]
          /\ request'[r].phase = "canonical"
      BY <1>2, <2>3 DEF RequestTypeOK, Request
    <3> QED
      BY <1>4, <2>2, <2>3, <3>1 DEF InServer
  <2> QED
    BY <1>5, <1>6, <1>7, <2>1, <2>2, <2>3 DEF GateTenant
<1>8. CASE GateCanonical(r)
  <2>1. PICK t, q : t = request[r].tenant /\ q = request'[r]
    OBVIOUS
  <2>2. request[r].phase = "canonical"
    BY <1>8 DEF GateCanonical, Answered
  <2>3. CASE request[r].host = Primary[t.slug] /\ EnterServer(r)
    <3>1. /\ UNCHANGED <<directory, steady>>
          /\ \A u \in Readers : u # r => request'[u] = request[u]
          /\ q.phase \in {"idle", "content"} /\ q.host = request[r].host
      BY <1>2, <2>1, <2>3, EnterServerMoves
    <3>2. ASSUME r \in steady PROVE t = Resolve(q.host)
      <4>1. PICK l, u, d, os : /\ l = lookup[r] /\ u = Resolve(request[r].host)
                               /\ d = Resolve(l.host)
                               /\ os = AtomicOutcomes(request[r].host, request[r].path)
        OBVIOUS
      <4>2. KnownOf(request[r], l, u, d, os)
        BY <1>2, <3>2, <4>1 DEF ExactInv, Exact
      <4> QED
        BY <2>1, <2>2, <3>1, <4>1, <4>2 DEF KnownOf
    <3> QED
      BY <1>4, <2>1, <2>2, <2>3, <3>1, <3>2 DEF Admitted
  <2>4. \/ \E o \in {"notfound", "unavailable", "redirect"} : Finish(r, o)
        \/ ToPassword(r, t)
        \/ request[r].host = Primary[t.slug] /\ EnterServer(r)
    BY <1>8, <2>1 DEF GateCanonical
  <2> QED
    BY <1>5, <1>6, <2>2, <2>3, <2>4
<1>9. CASE ServeContent(r)
  <2>1. request[r].phase = "content"
    BY <1>9 DEF ServeContent, Answered
  <2>2. CASE /\ request' = [request EXCEPT ![r].phase = "idle", ![r].outcome = "content",
                                           ![r].content = lookup[r].answer]
             /\ UNCHANGED <<directoryVars, steady>>
    <3>1. PICK q, t : q = request'[r] /\ t = Resolve(q.host)
      OBVIOUS
    <3>2. /\ \A u \in Readers : u # r => request'[u] = request[u]
          /\ q.phase = "idle" /\ q.host = request[r].host /\ q.path = request[r].path
          /\ UNCHANGED <<directory, steady>>
      BY <1>2, <2>2, <3>1 DEF RequestTypeOK, Request, directoryVars
    <3>3. InServer(q) => InServer(request[r])
      BY <2>1, <3>2 DEF InServer
    <3>4. r \in steady => Admitted(r, request[r], attempt[r], t, gave, verified)
      BY <3>1, <3>2 DEF GatedInv, AdmittedWell
    <3>5. r \in steady => Admitted(r, q, attempt[r], t, gave, verified)
      BY <3>2, <3>3, <3>4 DEF Admitted
    <3> QED
      BY <1>4, <2>1, <3>1, <3>2, <3>5
  <2> QED
    BY <1>5, <1>9, <2>1, <2>2 DEF ServeContent
<1> QED
  BY <1>3, <1>7, <1>8, <1>9 DEF HostStep

(* What is known of a request that is to give a password. *)
LEMMA AskingKnows ==
  ASSUME ExactInv, NEW r \in steady, request[r].phase = "password",
         NEW t, t = Resolve(request[r].host)
  PROVE  request[r].tenant = t
<1>1. PICK l, c, os : /\ l = lookup[r] /\ c = Resolve(l.host)
                      /\ os = AtomicOutcomes(request[r].host, request[r].path)
  OBVIOUS
<1>2. KnownOf(request[r], l, t, c, os)
  BY <1>1 DEF ExactInv, Exact
<1> QED
  BY <1>2 DEF KnownOf

LEMMA UngatedStep ==
  ASSUME GatedInv, ExactInv', NEW r \in Readers, Challenge(r) \/ PreviewAccess(r)
  PROVE  GatedInv'
<1>1. /\ request[r].phase = "password" /\ attempt[r].stage = "idle"
      /\ UNCHANGED policyVars /\ gave' = gave
  BY DEF Challenge, PreviewAccess, Asking
<1>2. RequestTypeOK /\ ExactInv /\ r \in Readers
  BY DEF GatedInv, ExactInv, BaseInv
<1>3. CASE Challenge(r)
  <2>1. /\ UNCHANGED <<directory, steady>>
        /\ \A u \in Readers : u # r => request'[u] = request[u]
        /\ request'[r].phase = "idle" /\ request'[r].outcome = "refused"
    BY <1>2, <1>3, FinishMoves DEF Challenge
  <2> QED
    BY <1>1, <2>1, OutsideGoesOn DEF InServer
<1>4. CASE PreviewAccess(r)
  <2>1. PICK q, t : q = request'[r] /\ t = Resolve(q.host)
    OBVIOUS
  <2>2. /\ UNCHANGED <<directory, steady>>
        /\ \A u \in Readers : u # r => request'[u] = request[u]
        /\ q.phase \in {"idle", "content"}
        /\ q.host = request[r].host /\ q.path = request[r].path
        /\ request[r].tenant.kind = "preview" /\ request[r].path = "content"
    BY <1>2, <1>4, <2>1, EnterServerMoves DEF PreviewAccess
  <2>3. r \in steady => t.kind = "preview"
    BY <1>1, <1>2, <2>1, <2>2, AskingKnows
  <2>4. r \in steady => Admitted(r, q, attempt[r], t, gave, verified)
    BY <2>2, <2>3 DEF Admitted
  <2> QED
    BY <1>1, <2>1, <2>2, <2>4, OutsideGoesOn
<1> QED
  BY <1>3, <1>4

LEMMA GivePasswordGated ==
  ASSUME GatedInv, ExactInv', Policy!GateInv', NEW r \in Readers, NEW p \in Passwords,
         GivePassword(r, p)
  PROVE  GatedInv'
<1>1. /\ request[r].phase = "password" /\ UNCHANGED vars /\ gave' = gave \union {r}
  BY DEF GivePassword, Asking
<1>2. AttemptTypeOK
  BY AttemptTypes DEF GatedInv
<1>3. /\ attempt'[r].tenant = request[r].tenant.slug /\ verified' = verified
      /\ \A u \in Readers : u # r => attempt'[u] = attempt[u]
  BY <1>2, GivesPassword
<1>4. PICK q : q = request[r]
  OBVIOUS
<1>5. request' = request /\ UNCHANGED <<directory, steady>>
  BY <1>1 DEF vars, gateVars, directoryVars
<1>6. q.tenant.slug \in Protected
  BY <1>1, <1>4 DEF GatedInv, RequestsWait, Waits
<1>7. Waits(r, q, attempt'[r], gave') /\ ~InServer(q)
  BY <1>1, <1>3, <1>4, <1>6 DEF Waits, InServer
<1>8. VerifiedAreRight'
  BY <1>3 DEF GatedInv, VerifiedAreRight
<1> QED
  BY <1>1, <1>3, <1>4, <1>5, <1>7, <1>8, OneGoesOn

LEMMA AttemptGated ==
  ASSUME GatedInv, ExactInv', Policy!GateInv', NEW r \in Readers, Attempt(r)
  PROVE  GatedInv'
<1>1. AttemptTypeOK /\ RequestTypeOK /\ ExactInv
  BY AttemptTypes DEF GatedInv, ExactInv, BaseInv
<1>2. /\ attempt[r].stage # "idle" /\ attempt'[r].tenant = attempt[r].tenant
      /\ \A u \in Readers : u # r => attempt'[u] = attempt[u]
      /\ gave' = gave /\ verified \subseteq verified' /\ VerifiedAreRight'
  BY <1>1, AttemptMoves DEF GatedInv
<1>3. /\ request[r].phase = "password" /\ r \in gave
      /\ attempt[r].tenant = request[r].tenant.slug
      /\ request[r].tenant.slug \in Protected
  BY <1>2 DEF GatedInv, RequestsWait, Waits
<1>4. PICK q, a : q = request'[r] /\ a = attempt'[r]
  OBVIOUS
<1>5. CASE a.stage # "idle" /\ UNCHANGED vars
  <2>1. request' = request /\ UNCHANGED <<directory, steady>>
    BY <1>5 DEF vars, gateVars, directoryVars
  <2>2. q = request[r]
    BY <1>4, <2>1
  <2>3. Waits(r, q, a, gave') /\ ~InServer(q)
    BY <1>2, <1>3, <1>4, <2>2 DEF Waits, InServer
  <2> QED
    BY <1>2, <1>4, <2>1, <2>3, OneGoesOn
<1>6. CASE a.stage = "idle" /\ Finish(r, "refused")
  <2>1. /\ UNCHANGED <<directory, steady>>
        /\ \A u \in Readers : u # r => request'[u] = request[u]
        /\ q.phase = "idle" /\ q.outcome = "refused"
    BY <1>1, <1>4, <1>6, FinishMoves
  <2>2. Waits(r, q, a, gave') /\ ~InServer(q)
    BY <1>6, <2>1 DEF Waits, InServer
  <2> QED
    BY <1>2, <1>4, <2>1, <2>2, OneGoesOn
<1>7. CASE a.stage = "idle" /\ a.outcome = "served" /\ EnterServer(r)
  <2>1. PICK t : t = Resolve(q.host)
    OBVIOUS
  <2>2. /\ UNCHANGED <<directory, steady>>
        /\ \A u \in Readers : u # r => request'[u] = request[u]
        /\ q.phase \in {"idle", "content"} /\ q.host = request[r].host
    BY <1>1, <1>4, <1>7, EnterServerMoves
  <2>3. Waits(r, q, a, gave')
    BY <1>7, <2>2 DEF Waits
  <2>4. \E v \in verified' : v[1] = a.tenant /\ v[2] = a.password /\ v[3] + Window > a.now
    BY <1>4, <1>7 DEF Policy!GateInv, Policy!ServedWasVerified
  <2>5. r \in steady => a.tenant = t.slug
    BY <1>1, <1>2, <1>3, <1>4, <2>1, <2>2, AskingKnows
  <2>6. r \in steady => Given(r, a, t, gave', verified')
    BY <1>2, <1>3, <2>4, <2>5 DEF Given, VerifiedAreRight
  <2> QED
    BY <1>2, <1>4, <2>1, <2>2, <2>3, <2>6, OneGoesOn DEF Admitted
<1> QED
  BY <1>4, <1>5, <1>6, <1>7 DEF Attempt

LEMMA GatedInvStep == ASSUME GatedInv, [GatedNext]_gatedVars PROVE GatedInv'
<1>1. RequestsWait /\ AttemptTypeOK
  BY AttemptTypes DEF GatedInv
<1>2. ExactInv'
  BY <1>1, StepOfHost, ExactStep DEF GatedInv
<1>3. Policy!GateInv'
  BY <1>1, StepOfGate, PolicyStep DEF GatedInv
<1>4. CASE AdminStep /\ UNCHANGED <<policyVars, gave>>
  <2>1. UNCHANGED <<request, attempt, gave, verified>>
    BY <1>4 DEF AdminStep, policyVars
  <2>2. \A r \in steady' : r \in steady /\ Undisturbed(r)
    BY <1>4 DEF AdminStep
  <2> QED
    BY <1>2, <1>3, <2>1, <2>2, NoneGoesOn
<1>5. CASE \/ Gate!Tick /\ UNCHANGED <<vars, gave>>
           \/ UNCHANGED gatedVars
  <2>1. UNCHANGED <<request, attempt, gave, verified, steady>> /\ UNCHANGED directory
    BY <1>5 DEF Gate!Tick, gatedVars, vars, gateVars, directoryVars, policyVars
  <2>2. \A r \in steady' : r \in steady /\ Undisturbed(r)
    BY <2>1, ResolveStays DEF Undisturbed
  <2> QED
    BY <1>2, <1>3, <2>1, <2>2, NoneGoesOn
<1> QED
  BY <1>2, <1>3, <1>4, <1>5, ArriveGated, HostStepGated, UngatedStep, GivePasswordGated,
     AttemptGated DEF GatedNext, GatedStep

LEMMA GatedIsSafe == GatedSpec => []GatedInv
BY GatedStarts, GatedInvStep, PTL DEF GatedSpec

(* The host behind its gate is a host: where HostGate lets any request for *)
(* a password in or turns it away, the gate's attempts decide.             *)
THEOREM GatedHostImplementsHost == GatedSpec => Spec
<1>1. GatedInit => Init
  BY DEF GatedInit
<1>2. GatedInv /\ [GatedNext]_gatedVars => [Next]_vars
  BY AttemptTypes, StepOfHost DEF GatedInv
<1> QED
  BY <1>1, <1>2, GatedIsSafe, PTL DEF GatedSpec, Spec

(* And a gate: its requests' attempts, for the tenants the host found, are *)
(* requests of PolicyGate.                                                 *)
THEOREM GatedHostImplementsGate == GatedSpec => Gate!Spec
<1>1. GatedInit => Gate!Init
  BY DEF GatedInit
<1>2. GatedInv /\ [GatedNext]_gatedVars => [Gate!Next]_Gate!vars
  BY StepOfGate DEF GatedInv
<1> QED
  BY <1>1, <1>2, GatedIsSafe, PTL DEF GatedSpec, Gate!Spec

(* While the directory does not change what it asks, a request gets into   *)
(* the server on a host that is not its tenant's public one only with this *)
(* tenant's password, or by the host's check for previews: through three   *)
(* lookups and a shared cache, for any number of requests and tenants.     *)
THEOREM PrivateSitesNeedPasswords == GatedSpec => []PrivateNeedsPassword
<1>1. GatedInv => PrivateNeedsPassword
  <2> SUFFICES ASSUME GatedInv, NEW r \in steady, NEW q, NEW t,
                      q = request[r], t = Resolve(q.host), q.phase = "idle",
                      q.outcome \in {"content", "healthy"}, q.path # "plugin"
               PROVE  \/ q.host = Primary[t.slug]
                      \/ q.path = "content" /\ t.kind = "preview"
                      \/ GavePassword(r, t)
    BY DEF PrivateNeedsPassword
  <2>1. Admitted(r, q, attempt[r], t, gave, verified) /\ InServer(q)
    BY DEF GatedInv, AdmittedWell, InServer
  <2> QED
    BY <2>1 DEF Admitted, Given, GavePassword
<1> QED
  BY <1>1, GatedIsSafe, PTL

(* What is proved of the directory, of the requests and of the gate holds  *)
(* of them together, of the gate for the readers and the protected slugs.  *)
THEOREM GatedHostKeepsPromises ==
  GatedSpec => [](/\ DirectoryIsSound /\ LookupIsTrue /\ SteadyRequestsAreExact
                  /\ Gate!LimitsHold /\ Gate!ServedWasVerified
                  /\ Gate!GuessesBounded /\ Gate!LockoutIsEarned)
<1>1. Gate!Spec => Policy!Spec
  BY PolicyStarts, PolicySteps, PTL DEF Gate!Spec, Policy!Spec
<1>2. Policy!Spec => [](/\ Policy!LimitsHold /\ Policy!ServedWasVerified
                        /\ Policy!GuessesBounded /\ Policy!LockoutIsEarned)
  BY PolicyAssumed, Policy!LimitsAreKept, Policy!OnlyVerifiedAreServed,
     Policy!GuessesAreBounded, Policy!LockoutsAreEarned, PTL
<1>3. Policy!LimitsHold => Gate!LimitsHold
  BY DEF Policy!LimitsHold, Gate!LimitsHold, Policy!Comparing, Gate!Comparing,
         Policy!Cardinality, Gate!Cardinality, Policy!IsFiniteSet, Gate!IsFiniteSet
<1>4. Policy!ServedWasVerified => Gate!ServedWasVerified
  BY DEF Policy!ServedWasVerified, Gate!ServedWasVerified
<1>5. Policy!GuessesBounded => Gate!GuessesBounded
  BY DEF Policy!GuessesBounded, Gate!GuessesBounded, Policy!Live, Gate!Live,
         Policy!Cardinality, Gate!Cardinality, Policy!IsFiniteSet, Gate!IsFiniteSet
<1>6. Policy!LockoutIsEarned => Gate!LockoutIsEarned
  BY DEF Policy!LockoutIsEarned, Gate!LockoutIsEarned,
         Policy!Cardinality, Gate!Cardinality, Policy!IsFiniteSet, Gate!IsFiniteSet
<1> QED
  BY <1>1, <1>2, <1>3, <1>4, <1>5, <1>6, GatedHostImplementsHost, GatedHostImplementsGate,
     DirectoryStaysSound, LookupsAnswerTruly, SteadyRequestsGoRight, PTL

================================================================================
