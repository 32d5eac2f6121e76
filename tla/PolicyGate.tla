------------------------------ MODULE PolicyGate ------------------------------
(***************************************************************************)
(* How the policy gate checks the password of a private site (the second   *)
(* half of Gate.ServeHTTP, hostpolicy/policy.go).  Requests share a cache  *)
(* of passwords that were right, a failure count per tenant and a few      *)
(* slots for the slow comparison.  Each request takes the time once, reads *)
(* cache and count under the mutex, compares without it and writes its     *)
(* result under it again, all against the time it took first.              *)
(***************************************************************************)
EXTENDS Integers, FiniteSets, Sequences

CONSTANTS
  Tenants,       \* tenants with a usable password hash
  Passwords,
  Right,         \* Right[t]: the password t's hash was made of
  Requests,      \* requests in progress at the same time
  CacheLimit,    \* 256 in the code
  FailureLimit,  \* 20
  Slots,         \* 2
  Window,        \* a minute, in ticks of the clock
  MaxClock,      \* bound: the time
  MaxBegun       \* bound: requests in all

ASSUME GateAssumption ==
  /\ IsFiniteSet(Requests) /\ Tenants # {}
  /\ Right \in [Tenants -> Passwords]
  /\ CacheLimit \in Nat \ {0} /\ FailureLimit \in Nat \ {0} /\ Slots \in Nat \ {0}
  /\ Window \in Nat \ {0} /\ MaxClock \in Nat /\ MaxBegun \in Nat

VARIABLES
  clock,
  cache,     \* cache[key]: until when the credential counts as verified
  failures,  \* failures[t]: wrong passwords counted, and until when
  request,   \* what each request asks, when it began, and how far it is
  begun,     \* requests so far
  verified,  \* the comparisons that succeeded, with the time they count from
  wrong      \* wrong[t]: when the wrong passwords for t were recorded

vars == <<clock, cache, failures, request, begun, verified, wrong>>

Time == 0..(MaxClock + Window)
Stages == {"idle", "begun", "admitted", "comparing", "compared"}
Outcomes == {"none", "served", "challenged", "locked", "busy"}
Request == [stage : Stages, tenant : Tenants, password : Passwords, now : 0..MaxClock,
            outcome : Outcomes]

(* The cache key is the digest of tenant, hash and password. *)
Key(t, p) == <<t, p>>
Keys == Tenants \X Passwords

Comparing == {r \in Requests : request[r].stage = "comparing"}

Go(r, stage) ==
  request' = [request EXCEPT ![r].stage = stage]
Answer(r, o) ==
  request' = [request EXCEPT ![r].stage = "idle", ![r].outcome = o]

--------------------------------------------------------------------------------
(* now := time.Now() *)
Begin(r, t, p) ==
  /\ request[r].stage = "idle"
  /\ begun < MaxBegun
  /\ begun' = begun + 1
  /\ request' = [request EXCEPT ![r] =
       [stage |-> "begun", tenant |-> t, password |-> p, now |-> clock, outcome |-> "none"]]
  /\ UNCHANGED <<clock, cache, failures, verified, wrong>>

KeyKnown(k, now) == k \in DOMAIN cache
Cached(k, now) == k \in DOMAIN cache /\ cache[k] > now

Live(f, now) == f.until > now
LockedPast(t, now) == Live(failures[t], now) /\ failures[t].count > FailureLimit
Locked(t, now) == Live(failures[t], now) /\ failures[t].count >= FailureLimit

(* Cache and count, read under the mutex. *)
Look(r) ==
  LET q == request[r]
      k == Key(q.tenant, q.password)
  IN /\ q.stage = "begun"
     /\ CASE Cached(k, q.now) -> Answer(r, "served")
          [] ~Cached(k, q.now) /\ Locked(q.tenant, q.now) -> Answer(r, "locked")
          [] OTHER -> Go(r, "admitted")
     /\ UNCHANGED <<clock, cache, failures, begun, verified, wrong>>

(* Without a free slot the request is turned away, not queued. *)
Acquire(r) ==
  /\ request[r].stage = "admitted"
  /\ IF Cardinality(Comparing) < Slots THEN Go(r, "comparing") ELSE Answer(r, "busy")
  /\ UNCHANGED <<clock, cache, failures, begun, verified, wrong>>

(* bcrypt.CompareHashAndPassword returns and the slot is free again. *)
Compare(r) ==
  /\ request[r].stage = "comparing"
  /\ Go(r, "compared")
  /\ UNCHANGED <<clock, cache, failures, begun, verified, wrong>>

Matches(q) == q.password = Right[q.tenant]

WindowKept(f, now) == [count |-> f.count + 1, until |-> IF Live(f, now) THEN f.until ELSE now + Window]
CountedFailure(f, now) ==
  IF Live(f, now) THEN [f EXCEPT !.count = @ + 1] ELSE [count |-> 1, until |-> now + Window]

RecordFailure(r) ==
  LET q == request[r]
  IN /\ q.stage = "compared"
     /\ ~Matches(q)
     /\ failures' = [failures EXCEPT ![q.tenant] = CountedFailure(@, q.now)]
     /\ wrong' = [wrong EXCEPT ![q.tenant] = Append(@, clock)]
     /\ Answer(r, "challenged")
     /\ UNCHANGED <<clock, cache, begun, verified>>

Without(ks) == [k \in DOMAIN cache \ ks |-> cache[k]]
Expired(now) == {k \in DOMAIN cache : cache[k] <= now}

(* A full cache first drops what has expired, then one arbitrary entry. *)
PurgedOnly(now) == {Without(Expired(now))}
WithRoom(now) ==
  IF Cardinality(DOMAIN cache) < CacheLimit THEN {cache}
  ELSE IF Cardinality(DOMAIN cache \ Expired(now)) < CacheLimit THEN {Without(Expired(now))}
  ELSE {Without(Expired(now) \union {k}) : k \in DOMAIN cache \ Expired(now)}

RecordSuccess(r) ==
  LET q == request[r]
      key == Key(q.tenant, q.password)
  IN /\ q.stage = "compared"
     /\ Matches(q)
     /\ \E kept \in WithRoom(q.now) :
          cache' = [k \in DOMAIN kept \union {key} |-> IF k = key THEN q.now + Window ELSE kept[k]]
     /\ verified' = verified \union {<<q.tenant, q.password, q.now>>}
     /\ Answer(r, "served")
     /\ UNCHANGED <<clock, failures, begun, wrong>>

Tick ==
  /\ clock < MaxClock
  /\ clock' = clock + 1
  /\ UNCHANGED <<cache, failures, request, begun, verified, wrong>>

--------------------------------------------------------------------------------
Init ==
  /\ clock = 0
  /\ cache = [k \in {} |-> 0]
  /\ failures = [t \in Tenants |-> [count |-> 0, until |-> 0]]
  /\ request \in {[r \in Requests |-> [stage |-> "idle", tenant |-> CHOOSE t \in Tenants : TRUE,
       password |-> CHOOSE p \in Passwords : TRUE, now |-> 0, outcome |-> "none"]]}
  /\ begun = 0
  /\ verified = {}
  /\ wrong = [t \in Tenants |-> << >>]

Serve(r) ==
  \/ \E t \in Tenants, p \in Passwords : Begin(r, t, p)
  \/ Look(r)
  \/ Acquire(r)
  \/ Compare(r)
  \/ RecordFailure(r)
  \/ RecordSuccess(r)

Next == Tick \/ \E r \in Requests : Serve(r)

Spec == Init /\ [][Next]_vars

--------------------------------------------------------------------------------
(* Properties. *)

(* Type invariant of the gate's shared state and its requests. *)
TypeOK ==
  /\ clock \in 0..MaxClock
  /\ DOMAIN cache \subseteq Keys /\ cache \in [DOMAIN cache -> Time]
  /\ failures \in [Tenants -> [count : Nat, until : Time]]
  /\ request \in [Requests -> Request]
  /\ begun \in 0..MaxBegun
  /\ verified \subseteq Tenants \X Passwords \X (0..MaxClock)
  /\ wrong \in [Tenants -> Seq(0..MaxClock)]

(* However many successes are recorded at once, against times of long ago, *)
(* the cache never holds more credentials than its limit, and no more      *)
(* comparisons run than there are slots.                                   *)
LimitsHold ==
  /\ Cardinality(DOMAIN cache) <= CacheLimit
  /\ Cardinality(Comparing) <= Slots

(* A request is served only with the tenant's password, one that a         *)
(* comparison found right and that began less than a window before it.     *)
ServedWasVerified ==
  \A r \in Requests : LET q == request[r] IN q.outcome = "served" =>
    \E v \in verified : v[1] = q.tenant /\ v[2] = q.password /\ v[3] + Window > q.now

(* The count is read before the comparisons it is to limit have ended: the *)
(* wrong passwords of one window can pass the limit, but by no more than   *)
(* the requests that were in progress when it was reached.                 *)
GuessesBounded ==
  \A t \in Tenants : Live(failures[t], clock) =>
    failures[t].count <= FailureLimit - 1 + Cardinality(Requests)

(* A tenant's visitors are turned away only after as many wrong passwords  *)
(* for this tenant, all recorded within the window before the request.     *)
LockoutIsEarned ==
  \A r \in Requests : LET q == request[r] IN q.outcome = "locked" =>
    FailureLimit <= Cardinality({n \in DOMAIN wrong[q.tenant] : wrong[q.tenant][n] + Window > q.now})

================================================================================
