------------------------------- MODULE HostGate -------------------------------
(***************************************************************************)
(* A request from the policy gate to the content (Gate.ServeHTTP in        *)
(* hostpolicy/policy.go around Server.ServeHTTP in host/server.go).  It    *)
(* looks its tenant up, then the tenant's primary host, decides whether    *)
(* the host is public, redirected or private, and then the server looks    *)
(* the tenant up once more: three lookups, each of several reads, while    *)
(* the directory changes.  The plugin's own resolver middleware            *)
(* (internal/tenant_resolver.go) has no gate and looks up once.            *)
(***************************************************************************)
EXTENDS TenantDirectory

CONSTANTS
  Primary,      \* Primary[s]: the public host of slug s's policy, or NoHost
  Aliases,      \* Aliases[s]: the hosts redirected to it
  Protected,    \* slugs whose policy has a usable password hash
  NoHost

ASSUME PolicyAssumption ==
  /\ NoHost \notin Hosts
  /\ Primary \in [Slugs -> Hosts \union {NoHost}]
  /\ Aliases \in [Slugs -> SUBSET Hosts]
  /\ Protected \subseteq Slugs

VARIABLES
  request,  \* request[r]: what the gate and the server know of the request
  steady    \* requests under which the directory has not changed what they ask

gateVars == <<request, steady>>
vars == <<directoryVars, gateVars>>

(* Content over a trusted connection or not, the release webhook, an admin *)
(* path, which no tenant host serves, /healthz, or a request that comes to *)
(* the plugin.                                                             *)
PathKinds == {"content", "insecure", "ingest", "admin", "health", "plugin"}
Phases == {"idle", "tenant", "canonical", "password", "content"}
Outcomes == {"none", "notfound", "unavailable", "refused", "redirect", "healthy", "content"}

Request == [host : Hosts, path : PathKinds, phase : Phases,
            tenant : TenantInfo \union {Nobody}, content : TenantInfo \union {Nobody},
            outcome : Outcomes]

NoRequest == [host |-> CHOOSE h \in Hosts : TRUE, path |-> "content", phase |-> "idle",
              tenant |-> Nobody, content |-> Nobody, outcome |-> "none"]

CanonicalHosts(s) == Aliases[s] \union ({Primary[s]} \ {NoHost})

(* hostpolicy.New refuses policies whose hosts another tenant has. *)
PoliciesValid ==
  /\ \A s \in Slugs : Primary[s] = NoHost => Aliases[s] = {}
  /\ \A s, t \in Slugs : s # t => CanonicalHosts(s) \intersect CanonicalHosts(t) = {}
  /\ \A s \in Slugs : \A h \in CanonicalHosts(s) :
       Resolve(h) # Nobody /\ Resolve(h).slug = s /\ Resolve(h).kind # "preview"

--------------------------------------------------------------------------------
(* The request's own steps; a lookup that is done hands over its answer.   *)

Answered(r, phase) == request[r].phase = phase /\ lookup[r].stage = "done"

Finish(r, o) ==
  /\ request' = [request EXCEPT ![r].phase = "idle", ![r].outcome = o]
  /\ UNCHANGED <<directoryVars, steady>>

(* A request for a tenant's host arrives. *)
Arrive(r, h, p) ==
  /\ request[r].phase = "idle"
  /\ request' = [request EXCEPT ![r] = [NoRequest EXCEPT !.host = h, !.path = p,
                   !.phase = IF p = "plugin" THEN "content" ELSE "tenant"]]
  /\ steady' = steady \union {r}
  /\ BeginLookup(r, h)
  /\ UNCHANGED directory

(* Server.ServeHTTP serves admin paths on the admin host only, its health  *)
(* on every host, and resolves the tenant of the content by itself.        *)
EnterServer(r) ==
  CASE request[r].path = "admin" -> Finish(r, "notfound")
    [] request[r].path = "health" -> Finish(r, "healthy")
    [] OTHER -> /\ request' = [request EXCEPT ![r].phase = "content"]
                /\ BeginLookup(r, request[r].host)
                /\ UNCHANGED <<directory, steady>>

Secure(r) == request[r].path # "insecure"

(* A host that is neither public nor redirected asks for the password. *)
ToPassword(r, t) ==
  CASE request[r].path = "ingest" -> Finish(r, "notfound")
    [] ~Secure(r) -> Finish(r, "refused")
    [] request[r].path # "ingest" /\ Secure(r) /\ t.slug \notin Protected ->
         Finish(r, "unavailable")
    [] OTHER -> /\ request' = [request EXCEPT ![r].phase = "password", ![r].tenant = t]
                /\ UNCHANGED <<directoryVars, steady>>

(* First lookup: without a primary host the site is private. *)
GateTenant(r) ==
  LET t == lookup[r].answer
  IN /\ Answered(r, "tenant")
     /\ CASE t = Nobody -> Finish(r, "notfound")
          [] t # Nobody /\ Primary[t.slug] = NoHost -> ToPassword(r, t)
          [] OTHER -> /\ request' = [request EXCEPT ![r].phase = "canonical", ![r].tenant = t]
                      /\ BeginLookup(r, Primary[t.slug])
                      /\ UNCHANGED <<directory, steady>>

CanonicalConfirmed(c, t) == c # Nobody /\ c.id = t.id /\ c.slug = t.slug /\ c.kind # "preview"
CanonicalTrusted(c, t) == TRUE
CanonicalHolds(c, t) == CanonicalConfirmed(c, t)

(* Second lookup: the primary host must still be the tenant's. *)
GateCanonical(r) ==
  LET t == request[r].tenant
      h == request[r].host
  IN /\ Answered(r, "canonical")
     /\ CASE ~CanonicalHolds(lookup[r].answer, t) -> Finish(r, "unavailable")
          [] CanonicalHolds(lookup[r].answer, t) /\ h = Primary[t.slug]
             /\ request[r].path = "ingest" -> Finish(r, "notfound")
          [] CanonicalHolds(lookup[r].answer, t) /\ h = Primary[t.slug]
             /\ request[r].path # "ingest" -> EnterServer(r)
          [] CanonicalHolds(lookup[r].answer, t) /\ h # Primary[t.slug]
             /\ h \in Aliases[t.slug] /\ t.kind # "preview" ->
               Finish(r, IF request[r].path = "ingest" THEN "notfound" ELSE "redirect")
          [] OTHER -> ToPassword(r, t)

(* In GatedHost an attempt at the gate decides. *)
Password(r) ==
  /\ request[r].phase = "password"
  /\ Finish(r, "refused") \/ EnterServer(r)

(* Third lookup: whose content the server serves. *)
ServeContent(r) ==
  /\ Answered(r, "content")
  /\ IF lookup[r].answer = Nobody
     THEN Finish(r, "notfound")
     ELSE /\ request' = [request EXCEPT ![r].phase = "idle", ![r].outcome = "content",
                                        ![r].content = lookup[r].answer]
          /\ UNCHANGED <<directoryVars, steady>>

--------------------------------------------------------------------------------
Init ==
  /\ DirectoryInit
  /\ PoliciesValid
  /\ request = [r \in Readers |-> NoRequest]
  /\ steady = {}

(* The hosts a request depends on: its own and its tenant's primary one. *)
Asked(h) ==
  {h} \union (IF Resolve(h) = Nobody THEN {} ELSE {Primary[Resolve(h).slug]} \ {NoHost})

Undisturbed(r) == \A h \in Asked(request[r].host) : Resolve(h)' = Resolve(h)

AdminStep ==
  /\ Administer
  /\ steady' = {r \in steady : Undisturbed(r)}
  /\ UNCHANGED request

Step(r) ==
  \/ \E h \in Hosts, p \in PathKinds : Arrive(r, h, p)
  \/ Read(r) /\ UNCHANGED gateVars
  \/ GateTenant(r)
  \/ GateCanonical(r)
  \/ Password(r)
  \/ ServeContent(r)

Next == AdminStep \/ \E r \in Readers : Step(r)

Spec == Init /\ [][Next]_vars

--------------------------------------------------------------------------------
(* Properties. *)

(* Type invariant of the requests, the directory included. *)
TypeOK ==
  /\ DirectoryTypeOK
  /\ request \in [Readers -> Request]
  /\ steady \subseteq Readers

(* What a request would come to if the gate and the server looked at the   *)
(* directory together, in one moment.                                      *)
AtomicOutcomes(h, p) ==
  LET t == Resolve(h)
      served == CASE p \in {"content", "insecure"} -> {"content"}
                  [] p = "health" -> {"healthy"}
                  [] OTHER -> {"notfound"}
      canonical == Primary[t.slug]
  IN CASE t = Nobody -> {"notfound"}
       [] t # Nobody /\ p = "plugin" -> {"content"}
       [] t # Nobody /\ p # "plugin" /\ canonical # NoHost
          /\ ~CanonicalConfirmed(Resolve(canonical), t) -> {"unavailable"}
       [] t # Nobody /\ p # "plugin" /\ canonical = h
          /\ CanonicalConfirmed(Resolve(h), t) -> served
       [] OTHER ->
            IF h \in Aliases[t.slug] /\ t.kind # "preview"
            THEN {IF p = "ingest" THEN "notfound" ELSE "redirect"}
            ELSE IF p = "ingest" THEN {"notfound"}
            ELSE IF p = "insecure" THEN {"refused"}
            ELSE IF t.slug \notin Protected THEN {"unavailable"}
            ELSE {"refused"} \union served

(* As long as the directory does not change what a request asks, its three *)
(* lookups of several reads each come to what one moment would: other      *)
(* tenants' changes never misroute, refuse or publish it.                  *)
SteadyRequestsAreExact ==
  \A r \in steady :
    LET q == request[r]
    IN q.phase = "idle" =>
         /\ q.outcome \in AtomicOutcomes(q.host, q.path)
         /\ q.outcome = "content" => q.content = Resolve(q.host)

================================================================================
