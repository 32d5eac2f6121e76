---------------------------- MODULE TenantDirectory ----------------------------
(***************************************************************************)
(* The directory of tenants and domains, the admin handlers that change it *)
(* and the host's lookups (host/server.go).  Each store operation is       *)
(* atomic: one critical section in store/tenant.go, one statement with the *)
(* same checks in store/postgres/store.go.  A lookup is not: it lists the  *)
(* tenants, then the domains of one tenant after the other, and may go on  *)
(* to look for a preview host's slug, while the directory changes.         *)
(***************************************************************************)
EXTENDS Integers, FiniteSets

CONSTANTS
  Slugs,        \* tenant slugs, compared without case
  Hosts,        \* normalised host names
  PreviewSlug,  \* the slug a host <slug>.<preview base> stands for
  Readers,      \* requests that look hosts up
  MaxID,        \* bound: ids the store gives out
  MaxChanges,   \* bound: changes of the directory
  SeedTenants,  \* the directory when the host starts: id -> slug
  SeedDomains   \* and its domains

ASSUME DirectoryAssumption ==
  /\ MaxID \in Nat /\ MaxChanges \in Nat /\ Hosts # {}
  /\ DOMAIN PreviewSlug \subseteq Hosts
  /\ \A h \in DOMAIN PreviewSlug : PreviewSlug[h] \in Slugs

VARIABLES
  tenants,       \* tenants[id]: the slug of each tenant
  domains,       \* the domains, at most one per host
  nextID,        \* the last id given out, to a tenant or a domain
  retired,       \* ids of deleted tenants, whose pages may still be stored
  provisioning,  \* createTenant handlers between their two store calls
  lookup,        \* the lookup each reader is in, or its result
  owners,        \* the owners the host had since that lookup began
  changes        \* changes of the directory

directory == <<tenants, domains, nextID, retired, provisioning, changes>>
reading == <<lookup, owners>>
directoryVars == <<directory, reading>>

IDs == 1..MaxID
NoOwner == 0
Kinds == {"vanity", "preview"}
Domain == [id : IDs, tenant : IDs, host : Hosts, kind : Kinds]
Provision == [tenant : IDs, slug : Slugs]

(* The directory that is there at the start was made by the same store. *)
Seeded == Cardinality(DOMAIN SeedTenants) + Cardinality(SeedDomains)

ASSUME SeedAssumption ==
  /\ Seeded \in 0..MaxID
  /\ DOMAIN SeedTenants \subseteq 1..Seeded
  /\ SeedTenants \in [DOMAIN SeedTenants -> Slugs]
  /\ \A t, u \in DOMAIN SeedTenants : SeedTenants[t] = SeedTenants[u] => t = u
  /\ SeedDomains \subseteq
       [id : 1..Seeded, tenant : DOMAIN SeedTenants, host : Hosts, kind : Kinds]
  /\ \A d, e \in SeedDomains : d.host = e.host \/ d.id = e.id => d = e

(* TenantInfo; its id is NoOwner after a miss. *)
Nobody == [id |-> NoOwner]
TenantInfo == [id : IDs, slug : Slugs, kind : Kinds]
Stages == {"list", "domains", "slug", "done"}
Lookup == [stage : Stages, host : Hosts, todo : SUBSET (IDs \X Slugs),
           answer : TenantInfo \union {Nobody}]

--------------------------------------------------------------------------------
(* What the directory says at one moment. *)

OwnerIn(ds, h) ==
  IF \E d \in ds : d.host = h THEN (CHOOSE d \in ds : d.host = h).tenant ELSE NoOwner

Listed == {<<id, tenants[id]>> : id \in DOMAIN tenants}

(* What resolveTenant would answer if it read everything at once. *)
Resolve(h) ==
  IF \E d \in domains : d.host = h
  THEN LET d == CHOOSE e \in domains : e.host = h
       IN [id |-> d.tenant, slug |-> tenants[d.tenant], kind |-> d.kind]
  ELSE IF h \in DOMAIN PreviewSlug /\ \E id \in DOMAIN tenants : tenants[id] = PreviewSlug[h]
  THEN [id |-> CHOOSE id \in DOMAIN tenants : tenants[id] = PreviewSlug[h],
        slug |-> PreviewSlug[h], kind |-> "preview"]
  ELSE Nobody

(* Every change of the directory is seen by the lookups in progress. *)
Observed ==
  /\ owners' = [r \in Readers |-> IF lookup[r].stage = "done" THEN owners[r]
                                  ELSE owners[r] \union {OwnerIn(domains', lookup[r].host)}]
  /\ changes < MaxChanges
  /\ changes' = changes + 1
  /\ UNCHANGED lookup

--------------------------------------------------------------------------------
(* MemoryTenantAdminStore. *)

NewID == nextID + 1

SlugFree(s, others) == \A id \in others : tenants[id] # s
HostFree(h) == \A d \in domains : d.host # h

(* AdminAPI.createTenant, first call: CreateTenant. *)
CreateTenant(s) ==
  /\ NewID \in IDs
  /\ SlugFree(s, DOMAIN tenants)
  /\ nextID' = NewID
  /\ tenants' = [id \in DOMAIN tenants \union {NewID} |-> IF id = NewID THEN s ELSE tenants[id]]
  /\ provisioning' = provisioning \union {[tenant |-> NewID, slug |-> s]}
  /\ UNCHANGED <<domains, retired>>
  /\ Observed

PreviewHosts(s) == {h \in DOMAIN PreviewSlug : PreviewSlug[h] = s}

TenantExists(t) == t \in DOMAIN tenants
DomainAllowed(t, h) == TenantExists(t) /\ HostFree(h)

AddDomain(t, h, k) ==
  /\ NewID \in IDs
  /\ DomainAllowed(t, h)
  /\ nextID' = NewID
  /\ domains' = domains \union {[id |-> NewID, tenant |-> t, host |-> h, kind |-> k]}

(* Second call: the tenant's preview domain, if hosts have a preview base. *)
ProvisionPreview(p) ==
  /\ \E h \in PreviewHosts(p.slug) : AddDomain(p.tenant, h, "preview")
  /\ provisioning' = provisioning \ {p}
  /\ UNCHANGED <<tenants, retired>>
  /\ Observed

(* Its failure is ignored: the tenant or the host may be gone by then.     *)
SkipPreview(p) ==
  /\ provisioning' = provisioning \ {p}
  /\ UNCHANGED <<tenants, domains, nextID, retired, changes, reading>>

(* UpdateTenant: the slug is checked against all other tenants. *)
UpdateTenant(t, s) ==
  /\ TenantExists(t)
  /\ SlugFree(s, DOMAIN tenants \ {t})
  /\ tenants' = [tenants EXCEPT ![t] = s]
  /\ UNCHANGED <<domains, nextID, retired, provisioning>>
  /\ Observed

AllDomains(t) == domains
WithoutDomainsOf(t) == {d \in domains : d.tenant # t}

(* DeleteTenant drops the tenant with its domains, not the pages in memory *)
(* or the files. *)
DeleteTenant(t) ==
  /\ TenantExists(t)
  /\ tenants' = [id \in DOMAIN tenants \ {t} |-> tenants[id]]
  /\ domains' = WithoutDomainsOf(t)
  /\ retired' = retired \union {t}
  /\ UNCHANGED <<nextID, provisioning>>
  /\ Observed

(* AdminAPI.createDomain and deleteDomain; AuditChain has their audit rows. *)
KindGiven(k) == IF k = "" THEN "vanity" ELSE k

CreateDomain(t, h, k) ==
  /\ AddDomain(t, h, KindGiven(k))
  /\ UNCHANGED <<tenants, retired, provisioning>>
  /\ Observed

DomainOfTenant(t, d) == d \in domains /\ d.tenant = t

DeleteDomain(t, d) ==
  /\ DomainOfTenant(t, d)
  /\ domains' = domains \ {d}
  /\ UNCHANGED <<tenants, nextID, retired, provisioning>>
  /\ Observed

--------------------------------------------------------------------------------
(* Server.resolveTenant: tenantAdminResolver.Lookup, then LookupBySlug. *)

Started(h) == [stage |-> "list", host |-> h, todo |-> {}, answer |-> Nobody]

BeginLookup(r, h) ==
  /\ lookup' = [lookup EXCEPT ![r] = Started(h)]
  /\ owners' = [owners EXCEPT ![r] = {OwnerIn(domains, h)}]

Advance(r, l) ==
  /\ lookup' = [lookup EXCEPT ![r] = l]
  /\ UNCHANGED <<directory, owners>>

ListTenants(r) ==
  /\ lookup[r].stage = "list"
  /\ Advance(r, [lookup[r] EXCEPT !.stage = "domains", !.todo = Listed])

DomainsAnywhere(t) == domains
DomainsOf(t) == {d \in domains : d.tenant = t}

(* ListDomains of one listed tenant; one that is gone has none. *)
ListDomains(r) ==
  /\ lookup[r].stage = "domains"
  /\ \E t \in lookup[r].todo :
       LET hit == {d \in DomainsOf(t[1]) : d.host = lookup[r].host}
       IN IF hit = {}
          THEN Advance(r, [lookup[r] EXCEPT !.todo = @ \ {t}])
          ELSE \E d \in hit :
                 Advance(r, [lookup[r] EXCEPT !.stage = "done", !.todo = {},
                               !.answer = [id |-> t[1], slug |-> t[2], kind |-> d.kind]])

Miss(r) ==
  /\ lookup[r].stage = "domains"
  /\ lookup[r].todo = {}
  /\ Advance(r, [lookup[r] EXCEPT
       !.stage = IF lookup[r].host \in DOMAIN PreviewSlug THEN "slug" ELSE "done"])

BySlug(s) == {id \in DOMAIN tenants : tenants[id] = s}

LookupBySlug(r) ==
  LET s == PreviewSlug[lookup[r].host]
  IN /\ lookup[r].stage = "slug"
     /\ \/ /\ BySlug(s) = {}
           /\ Advance(r, [lookup[r] EXCEPT !.stage = "done"])
        \/ \E id \in BySlug(s) :
             Advance(r, [lookup[r] EXCEPT !.stage = "done",
                           !.answer = [id |-> id, slug |-> s, kind |-> "preview"]])

--------------------------------------------------------------------------------
DirectoryInit ==
  /\ tenants = SeedTenants
  /\ domains = SeedDomains
  /\ nextID = Seeded
  /\ retired = {}
  /\ provisioning = {}
  /\ lookup = [r \in Readers |-> [Started(CHOOSE h \in Hosts : TRUE) EXCEPT !.stage = "done"]]
  /\ owners = [r \in Readers |-> {}]
  /\ changes = 0

Administer ==
  \/ \E s \in Slugs : CreateTenant(s)
  \/ \E p \in provisioning : ProvisionPreview(p) \/ SkipPreview(p)
  \/ \E t \in IDs, s \in Slugs : UpdateTenant(t, s)
  \/ \E t \in IDs : DeleteTenant(t)
  \/ \E t \in IDs, h \in Hosts, k \in Kinds \union {""} : CreateDomain(t, h, k)
  \/ \E t \in IDs, d \in domains : DeleteDomain(t, d)

Read(r) == ListTenants(r) \/ ListDomains(r) \/ Miss(r) \/ LookupBySlug(r)

--------------------------------------------------------------------------------
(* Properties. *)

(* Type invariant of the directory and of its lookups. *)
DirectoryTypeOK ==
  /\ DOMAIN tenants \subseteq IDs /\ tenants \in [DOMAIN tenants -> Slugs]
  /\ domains \subseteq Domain
  /\ nextID \in 0..MaxID
  /\ retired \subseteq IDs
  /\ provisioning \subseteq Provision
  /\ lookup \in [Readers -> Lookup]
  /\ owners \in [Readers -> SUBSET (IDs \union {NoOwner})]
  /\ changes \in 0..MaxChanges

(* However the handlers interleave, createTenant's late preview domain     *)
(* included, every domain belongs to a living tenant and no slug or host   *)
(* is given twice.  DeleteTenant leaves the tenant's pages and files       *)
(* behind: no later tenant may get at them by its id.                      *)
DirectoryIsSound ==
  /\ retired \intersect DOMAIN tenants = {}
  /\ \A d \in domains : d.tenant \in DOMAIN tenants
  /\ \A d, e \in domains : d.host = e.host \/ d.id = e.id => d = e
  /\ \A t, u \in DOMAIN tenants : tenants[t] = tenants[u] => t = u

(* A lookup's answer was true at a moment while it ran, although it reads  *)
(* one tenant after the other: its tenant had the host, or nobody had it   *)
(* and it is the tenant's preview host; after a miss, nobody had it.       *)
LookupIsTrue ==
  \A r \in Readers :
    LET l == lookup[r]
    IN l.stage = "done" /\ owners[r] # {} =>
         CASE l.answer = Nobody -> NoOwner \in owners[r]
           [] OTHER -> \/ l.answer.id \in owners[r]
                      \/ /\ NoOwner \in owners[r]
                         /\ l.host \in DOMAIN PreviewSlug
                         /\ l.answer.slug = PreviewSlug[l.host]

================================================================================
