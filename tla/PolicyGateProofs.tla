--------------------------- MODULE PolicyGateProofs ---------------------------
(* What holds of PolicyGate for every number of tenants, requests, slots,    *)
(* cached credentials and ticks, proved.                                     *)
EXTENDS PolicyGate, FiniteSetTheorems, TLAPS

(* No request began in the future. *)
BegunBefore == \A r \in Requests : request[r].now <= clock

(* A cached credential was verified, and counts for a window from then on. *)
CacheIsVerified ==
  \A k \in DOMAIN cache : \E v \in verified :
    v[1] = k[1] /\ v[2] = k[2] /\ cache[k] = v[3] + Window

CacheIsBounded == IsFiniteSet(DOMAIN cache) /\ Cardinality(DOMAIN cache) <= CacheLimit

(* The requests that are past the look at the failure count. *)
Past == {"admitted", "comparing", "compared"}
Guessing(t) == {r \in Requests : request[r].stage \in Past /\ request[r].tenant = t}

(* Every request that is past the look may still be counted. *)
GuessesCounted ==
  \A t \in Tenants : Live(failures[t], clock) =>
    failures[t].count + Cardinality(Guessing(t)) <= FailureLimit - 1 + Cardinality(Requests)

GateInv ==
  /\ TypeOK
  /\ BegunBefore
  /\ CacheIsVerified
  /\ CacheIsBounded
  /\ Cardinality(Comparing) <= Slots
  /\ ServedWasVerified
  /\ GuessesCounted

--------------------------------------------------------------------------------
(* Sets of requests. *)

LEMMA RequestSets ==
  ASSUME NEW S, S \subseteq Requests
  PROVE  IsFiniteSet(S) /\ Cardinality(S) \in Nat /\ Cardinality(S) <= Cardinality(Requests)
BY GateAssumption, FS_Subset, FS_CardinalityType

LEMMA FewerRequests ==
  ASSUME NEW S, NEW T, S \subseteq Requests, T \subseteq S
  PROVE  Cardinality(T) <= Cardinality(S)
BY RequestSets, FS_Subset

LEMMA OneMore ==
  ASSUME NEW S, NEW x, IsFiniteSet(S)
  PROVE  IsFiniteSet(S \union {x}) /\ Cardinality(S \union {x}) <= Cardinality(S) + 1
<1>1. Cardinality(S) \in Nat
  BY FS_CardinalityType
<1> QED
  BY <1>1, FS_AddElement

LEMMA OneMoreRequest ==
  ASSUME NEW S, NEW T, NEW r \in Requests, S \subseteq Requests, T \subseteq S \union {r}
  PROVE  Cardinality(T) <= Cardinality(S) + 1
<1>1. IsFiniteSet(S) /\ Cardinality(S) \in Nat
  BY RequestSets
<1>2. /\ S \union {r} \subseteq Requests
      /\ Cardinality(S \union {r}) \in Nat
      /\ Cardinality(S \union {r}) <= Cardinality(S) + 1
  BY <1>1, FS_AddElement, RequestSets
<1>3. Cardinality(T) <= Cardinality(S \union {r}) /\ Cardinality(T) \in Nat
  BY <1>2, FewerRequests, RequestSets
<1> QED
  BY <1>1, <1>2, <1>3

LEMMA OneRequestLess ==
  ASSUME NEW S, NEW T, NEW r \in S, S \subseteq Requests, T \subseteq S \ {r}
  PROVE  Cardinality(T) + 1 <= Cardinality(S)
<1>1. IsFiniteSet(S) /\ Cardinality(S) \in Nat
  BY RequestSets
<1>2. /\ S \ {r} \subseteq Requests
      /\ Cardinality(S \ {r}) \in Nat
      /\ Cardinality(S \ {r}) = Cardinality(S) - 1
  BY <1>1, FS_RemoveElement, RequestSets
<1>3. Cardinality(T) <= Cardinality(S \ {r}) /\ Cardinality(T) \in Nat
  BY <1>2, FewerRequests, RequestSets
<1> QED
  BY <1>1, <1>2, <1>3

--------------------------------------------------------------------------------
(* Types. *)

LEMMA WindowType == Window \in Nat \ {0} /\ MaxClock \in Nat /\ FailureLimit \in Nat \ {0}
                    /\ CacheLimit \in Nat \ {0} /\ Slots \in Nat \ {0} /\ MaxBegun \in Nat
BY GateAssumption

LEMMA RequestType ==
  ASSUME TypeOK, NEW r \in Requests
  PROVE  /\ request[r] \in Request
         /\ request[r].stage \in Stages /\ request[r].tenant \in Tenants
         /\ request[r].password \in Passwords /\ request[r].now \in 0..MaxClock
         /\ request[r].now + Window \in Time
         /\ request[r].outcome \in Outcomes
BY WindowType DEF TypeOK, Request, Time

(* What Go and Answer make of a request. *)
LEMMA Goes ==
  ASSUME TypeOK, NEW r \in Requests, NEW stage \in Stages, Go(r, stage)
  PROVE  /\ request' \in [Requests -> Request]
         /\ \A u \in Requests : u # r => request'[u] = request[u]
         /\ request'[r].stage = stage /\ request'[r].outcome = request[r].outcome
         /\ request'[r].now = request[r].now /\ request'[r].tenant = request[r].tenant
         /\ request'[r].password = request[r].password
BY DEF Go, TypeOK, Request

LEMMA Answers ==
  ASSUME TypeOK, NEW r \in Requests, NEW o \in Outcomes, Answer(r, o)
  PROVE  /\ request' \in [Requests -> Request]
         /\ \A u \in Requests : u # r => request'[u] = request[u]
         /\ request'[r].stage = "idle" /\ request'[r].outcome = o
         /\ request'[r].now = request[r].now /\ request'[r].tenant = request[r].tenant
         /\ request'[r].password = request[r].password
BY DEF Answer, TypeOK, Request, Stages

LEMMA GateInit == Init => GateInv
<1> SUFFICES ASSUME Init PROVE GateInv
  OBVIOUS
<1>1. /\ (CHOOSE t \in Tenants : TRUE) \in Tenants
      /\ (CHOOSE p \in Passwords : TRUE) \in Passwords
  BY GateAssumption
<1>2. request = [r \in Requests |-> [stage |-> "idle", tenant |-> CHOOSE t \in Tenants : TRUE,
        password |-> CHOOSE p \in Passwords : TRUE, now |-> 0, outcome |-> "none"]]
  BY DEF Init
<1>3. request \in [Requests -> Request]
  BY <1>1, <1>2, WindowType DEF Request, Stages, Outcomes
<1>4. \A r \in Requests : /\ request[r].stage = "idle" /\ request[r].outcome = "none"
                          /\ request[r].now = 0
  BY <1>2
<1>5. clock \in 0..MaxClock /\ begun \in 0..MaxBegun /\ verified = {}
  BY WindowType DEF Init
<1>6. DOMAIN cache = {} /\ cache \in [DOMAIN cache -> Time]
  BY DEF Init
<1>7. failures \in [Tenants -> [count : Nat, until : Time]] /\ \A t \in Tenants : failures[t].until = 0
  BY WindowType DEF Init, Time
<1>8. wrong \in [Tenants -> Seq(0..MaxClock)]
  BY DEF Init
<1>9. TypeOK
  BY <1>3, <1>5, <1>6, <1>7, <1>8 DEF TypeOK
<1>10. Comparing = {}
  BY <1>4 DEF Comparing
<1>11. Cardinality(Comparing) <= Slots /\ CacheIsBounded
  BY <1>6, <1>10, FS_EmptySet, WindowType DEF CacheIsBounded
<1>12. GuessesCounted
  BY <1>7 DEF GuessesCounted, Live, Init
<1> QED
  BY <1>4, <1>5, <1>6, <1>9, <1>11, <1>12 DEF GateInv, BegunBefore, CacheIsVerified, ServedWasVerified

--------------------------------------------------------------------------------
(* The steps of one request. *)

Served(q) ==
  q.outcome = "served" =>
    \E v \in verified : v[1] = q.tenant /\ v[2] = q.password /\ v[3] + Window > q.now

(* A step that changes request r only. *)
LEMMA OneRequest ==
  ASSUME GateInv, NEW r \in Requests,
         request' \in [Requests -> Request],
         \A u \in Requests : u # r => request'[u] = request[u],
         request'[r].now <= clock,
         Served(request[r])',
         Cardinality(Comparing)' <= Slots,
         GuessesCounted',
         begun' \in 0..MaxBegun,
         UNCHANGED <<clock, cache, failures, verified, wrong>>
  PROVE  GateInv'
<1>1. TypeOK'
  BY DEF GateInv, TypeOK
<1>2. BegunBefore'
  BY DEF GateInv, BegunBefore
<1>3. CacheIsVerified' /\ CacheIsBounded'
  BY DEF GateInv, CacheIsVerified, CacheIsBounded
<1>4. ServedWasVerified'
  <2>1. ASSUME NEW u \in Requests PROVE Served(request[u])'
    BY DEF GateInv, ServedWasVerified, Served
  <2> QED
    BY <2>1 DEF ServedWasVerified, Served
<1> QED
  BY <1>1, <1>2, <1>3, <1>4 DEF GateInv

(* Fewer requests, or the same, are past the look. *)
LEMMA FewerGuesses ==
  ASSUME GateInv, TypeOK', UNCHANGED <<clock, failures>>,
         \A u \in Requests : request'[u].stage \in Past =>
           request[u].stage \in Past /\ request'[u].tenant = request[u].tenant
  PROVE  GuessesCounted'
<1> SUFFICES ASSUME NEW t \in Tenants, Live(failures[t], clock)
             PROVE  failures[t].count + Cardinality(Guessing(t)')
                      <= FailureLimit - 1 + Cardinality(Requests)
  BY DEF GuessesCounted, Live
<1>1. failures[t].count + Cardinality(Guessing(t)) <= FailureLimit - 1 + Cardinality(Requests)
  BY DEF GateInv, GuessesCounted
<1>2. Guessing(t)' \subseteq Guessing(t) /\ Guessing(t) \subseteq Requests
  BY DEF Guessing
<1>3. Cardinality(Guessing(t)') <= Cardinality(Guessing(t))
  BY <1>2, FewerRequests
<1>4. /\ Cardinality(Guessing(t)') \in Nat /\ Cardinality(Guessing(t)) \in Nat
      /\ Cardinality(Requests) \in Nat
  BY <1>2, RequestSets
<1>5. failures[t].count \in Nat
  BY DEF GateInv, TypeOK
<1> QED
  BY <1>1, <1>3, <1>4, <1>5, WindowType

LEMMA FewerComparing ==
  ASSUME GateInv, \A u \in Requests : request'[u].stage = "comparing" => request[u].stage = "comparing"
  PROVE  Cardinality(Comparing)' <= Slots
<1>1. Comparing' \subseteq Comparing /\ Comparing \subseteq Requests
  BY DEF Comparing
<1>2. Cardinality(Comparing') <= Cardinality(Comparing)
  BY <1>1, FewerRequests
<1>3. Cardinality(Comparing') \in Nat /\ Cardinality(Comparing) \in Nat
  BY <1>1, RequestSets
<1> QED
  BY <1>2, <1>3, WindowType DEF GateInv

LEMMA BeginStep ==
  ASSUME GateInv, NEW r \in Requests, NEW t \in Tenants, NEW p \in Passwords, Begin(r, t, p)
  PROVE  GateInv'
<1> DEFINE q == [stage |-> "begun", tenant |-> t, password |-> p, now |-> clock,
                 outcome |-> "none"]
<1>1. TypeOK /\ clock \in 0..MaxClock
  BY DEF GateInv, TypeOK
<1>2. q \in Request
  BY <1>1 DEF Request, Stages, Outcomes
<1>3. request' = [request EXCEPT ![r] = q]
  BY DEF Begin
<1> HIDE DEF q
<1>4. /\ request' \in [Requests -> Request]
      /\ \A u \in Requests : u # r => request'[u] = request[u]
      /\ request'[r] = q
  BY <1>1, <1>2, <1>3 DEF TypeOK
<1>5. q.stage = "begun" /\ q.now = clock /\ q.outcome = "none"
  BY DEF q
<1>6. begun' \in 0..MaxBegun /\ UNCHANGED <<clock, cache, failures, verified, wrong>>
  BY <1>1, WindowType DEF Begin, TypeOK
<1>7. TypeOK'
  BY <1>1, <1>4, <1>6 DEF TypeOK
<1>8. GuessesCounted' /\ Cardinality(Comparing)' <= Slots
  BY <1>4, <1>5, <1>6, <1>7, FewerGuesses, FewerComparing DEF Past
<1>9. Served(request[r])' /\ request'[r].now <= clock
  BY <1>1, <1>4, <1>5 DEF Served
<1> QED
  BY <1>4, <1>6, <1>8, <1>9, OneRequest

(* A request that goes on, or is answered, without a look at the count. *)
LEMMA PlainStep ==
  ASSUME GateInv, NEW r \in Requests, NEW stage \in Stages, NEW o \in Outcomes,
         request' \in [Requests -> Request],
         \A u \in Requests : u # r => request'[u] = request[u],
         request'[r].stage = stage, request'[r].outcome = o,
         request'[r].now = request[r].now, request'[r].tenant = request[r].tenant,
         request'[r].password = request[r].password,
         stage \in Past => request[r].stage \in Past,
         stage = "comparing" => Cardinality(Comparing) < Slots,
         o = "served" => Served(request'[r]),
         UNCHANGED <<clock, cache, failures, begun, verified, wrong>>
  PROVE  GateInv'
<1>1. TypeOK'
  BY DEF GateInv, TypeOK
<1>2. GuessesCounted'
  BY <1>1, FewerGuesses DEF Past
<1>3. Cardinality(Comparing)' <= Slots
  <2>1. CASE stage # "comparing"
    BY <2>1, FewerComparing
  <2>2. CASE stage = "comparing"
    <3>1. Comparing' \subseteq Comparing \union {r} /\ Comparing \subseteq Requests
          /\ Comparing' \subseteq Requests
      BY DEF Comparing
    <3>2. Cardinality(Comparing') <= Cardinality(Comparing) + 1
      BY <3>1, OneMoreRequest
    <3>3. Cardinality(Comparing') \in Nat /\ Cardinality(Comparing) \in Nat
      BY <3>1, RequestSets
    <3> QED
      BY <2>2, <3>2, <3>3, WindowType
  <2> QED
    BY <2>1, <2>2
<1>4. request'[r].now <= clock /\ begun' \in 0..MaxBegun
  BY DEF GateInv, BegunBefore, TypeOK
<1>5. Served(request[r])'
  BY DEF Served
<1> QED
  BY <1>2, <1>3, <1>4, <1>5, OneRequest

LEMMA LookStep ==
  ASSUME GateInv, NEW r \in Requests, Look(r)
  PROVE  GateInv'
<1> DEFINE q == request[r]
           k == Key(q.tenant, q.password)
<1>1. TypeOK /\ q \in Request /\ q.stage = "begun" /\ q.tenant \in Tenants /\ q.outcome \in Outcomes
      /\ q.now \in 0..MaxClock
  BY RequestType DEF GateInv, Look
<1>2. UNCHANGED <<clock, cache, failures, begun, verified, wrong>>
  BY DEF Look
<1>3. CASE Cached(k, q.now)
  <2>1. Answer(r, "served") /\ "served" \in Outcomes
    BY <1>3 DEF Look, Outcomes
  <2>2. PICK v \in verified : v[1] = k[1] /\ v[2] = k[2] /\ cache[k] = v[3] + Window
    BY <1>3 DEF Cached, GateInv, CacheIsVerified
  <2>3. v[1] = q.tenant /\ v[2] = q.password /\ v[3] + Window > q.now
    BY <1>3, <2>2 DEF Cached, Key
  <2>4. /\ request' \in [Requests -> Request]
        /\ \A u \in Requests : u # r => request'[u] = request[u]
        /\ request'[r].stage = "idle" /\ request'[r].outcome = "served"
        /\ request'[r].now = q.now /\ request'[r].tenant = q.tenant
        /\ request'[r].password = q.password
    BY <1>1, <2>1, Answers
  <2>5. Served(request'[r])
    BY <2>3, <2>4 DEF Served
  <2> QED
    BY <1>2, <2>1, <2>4, <2>5, PlainStep DEF Past, Stages
<1>4. CASE ~Cached(k, q.now) /\ Locked(q.tenant, q.now)
  <2>1. Answer(r, "locked") /\ "locked" \in Outcomes
    BY <1>4 DEF Look, Outcomes
  <2>2. /\ request' \in [Requests -> Request]
        /\ \A u \in Requests : u # r => request'[u] = request[u]
        /\ request'[r].stage = "idle" /\ request'[r].outcome = "locked"
        /\ request'[r].now = q.now /\ request'[r].tenant = q.tenant
        /\ request'[r].password = q.password
    BY <1>1, <2>1, Answers
  <2> QED
    BY <1>2, <2>1, <2>2, PlainStep DEF Past, Stages
<1>5. CASE ~Cached(k, q.now) /\ ~Locked(q.tenant, q.now)
  <2>1. Go(r, "admitted") /\ "admitted" \in Stages
    BY <1>5 DEF Look, Stages
  <2>2. /\ request' \in [Requests -> Request]
        /\ \A u \in Requests : u # r => request'[u] = request[u]
        /\ request'[r].stage = "admitted" /\ request'[r].outcome = q.outcome
        /\ request'[r].now = q.now /\ request'[r].tenant = q.tenant
        /\ request'[r].password = q.password
    BY <1>1, <2>1, Goes
  <2>3. ASSUME NEW t \in Tenants, Live(failures[t], clock)
        PROVE  failures[t].count + Cardinality(Guessing(t)')
                 <= FailureLimit - 1 + Cardinality(Requests)
    <3>1. /\ Guessing(t)' \subseteq Requests /\ Guessing(t) \subseteq Requests
          /\ failures[t].count \in Nat /\ failures[t].until \in Time /\ clock \in 0..MaxClock
      BY <1>1 DEF Guessing, TypeOK
    <3>2. /\ Cardinality(Guessing(t)') \in Nat /\ Cardinality(Guessing(t)) \in Nat
          /\ Cardinality(Requests) \in Nat
          /\ Cardinality(Guessing(t)') <= Cardinality(Requests)
      BY <3>1, RequestSets
    <3>3. CASE t = q.tenant
      <4>1. q.now <= clock
        BY DEF GateInv, BegunBefore
      <4>2. Live(failures[t], q.now)
        BY <1>1, <2>3, <3>1, <4>1, WindowType DEF Live, Time
      <4>3. failures[t].count < FailureLimit
        BY <1>5, <3>1, <3>3, <4>2, WindowType DEF Locked
      <4> QED
        BY <3>1, <3>2, <4>3, WindowType
    <3>4. CASE t # q.tenant
      <4>1. Guessing(t)' \subseteq Guessing(t)
        BY <2>2, <3>4 DEF Guessing
      <4>2. Cardinality(Guessing(t)') <= Cardinality(Guessing(t))
        BY <3>1, <4>1, FewerRequests
      <4>3. failures[t].count + Cardinality(Guessing(t)) <= FailureLimit - 1 + Cardinality(Requests)
        BY <2>3 DEF GateInv, GuessesCounted
      <4> QED
        BY <3>1, <3>2, <4>2, <4>3, WindowType
    <3> QED
      BY <3>3, <3>4
  <2>4. GuessesCounted'
    BY <1>2, <2>3 DEF GuessesCounted, Live
  <2>5. Cardinality(Comparing)' <= Slots
    BY <2>2, FewerComparing
  <2>6. Served(request[r])
    BY DEF GateInv, ServedWasVerified, Served
  <2>7. Served(request[r])'
    BY <1>2, <2>2, <2>6 DEF Served
  <2>8. request'[r].now <= clock /\ begun' \in 0..MaxBegun
    BY <1>1, <1>2, <2>2 DEF GateInv, BegunBefore, TypeOK
  <2> QED
    BY <1>2, <2>2, <2>4, <2>5, <2>7, <2>8, OneRequest
<1> QED
  BY <1>3, <1>4, <1>5

LEMMA AcquireStep ==
  ASSUME GateInv, NEW r \in Requests, Acquire(r)
  PROVE  GateInv'
<1>1. /\ TypeOK /\ request[r].stage = "admitted"
      /\ UNCHANGED <<clock, cache, failures, begun, verified, wrong>>
      /\ request[r].outcome \in Outcomes
  BY RequestType DEF GateInv, Acquire
<1>2. CASE Cardinality(Comparing) < Slots
  <2>1. Go(r, "comparing") /\ "comparing" \in Stages
    BY <1>2 DEF Acquire, Stages
  <2>2. request[r].outcome = "served" => Served(request[r])
    BY DEF GateInv, ServedWasVerified, Served
  <2>3. /\ request' \in [Requests -> Request]
        /\ \A u \in Requests : u # r => request'[u] = request[u]
        /\ request'[r].stage = "comparing" /\ request'[r].outcome = request[r].outcome
        /\ request'[r].now = request[r].now /\ request'[r].tenant = request[r].tenant
        /\ request'[r].password = request[r].password
    BY <1>1, <2>1, Goes
  <2>4. request[r].outcome = "served" => Served(request'[r])
    BY <2>2, <2>3 DEF Served
  <2> QED
    BY <1>1, <1>2, <2>1, <2>3, <2>4, PlainStep DEF Past
<1>3. CASE ~(Cardinality(Comparing) < Slots)
  <2>1. Answer(r, "busy") /\ "busy" \in Outcomes
    BY <1>3 DEF Acquire, Outcomes
  <2>2. /\ request' \in [Requests -> Request]
        /\ \A u \in Requests : u # r => request'[u] = request[u]
        /\ request'[r].stage = "idle" /\ request'[r].outcome = "busy"
        /\ request'[r].now = request[r].now /\ request'[r].tenant = request[r].tenant
        /\ request'[r].password = request[r].password
    BY <1>1, <2>1, Answers
  <2> QED
    BY <1>1, <2>1, <2>2, PlainStep DEF Past, Stages
<1> QED
  BY <1>2, <1>3

LEMMA CompareStep ==
  ASSUME GateInv, NEW r \in Requests, Compare(r)
  PROVE  GateInv'
<1>1. /\ TypeOK /\ request[r].stage = "comparing"
      /\ UNCHANGED <<clock, cache, failures, begun, verified, wrong>>
      /\ Go(r, "compared") /\ "compared" \in Stages
      /\ request[r].outcome \in Outcomes
  BY RequestType DEF GateInv, Compare, Stages
<1>2. request[r].outcome = "served" => Served(request[r])
  BY DEF GateInv, ServedWasVerified, Served
<1>3. /\ request' \in [Requests -> Request]
      /\ \A u \in Requests : u # r => request'[u] = request[u]
      /\ request'[r].stage = "compared" /\ request'[r].outcome = request[r].outcome
      /\ request'[r].now = request[r].now /\ request'[r].tenant = request[r].tenant
      /\ request'[r].password = request[r].password
  BY <1>1, Goes
<1>4. request[r].outcome = "served" => Served(request'[r])
  BY <1>2, <1>3 DEF Served
<1> QED
  BY <1>1, <1>3, <1>4, PlainStep DEF Past

(* A comparison that failed is taken from the requests that may still be *)
(* counted as it is counted.                                             *)
LEMMA FailureStep ==
  ASSUME GateInv, NEW r \in Requests, RecordFailure(r)
  PROVE  GateInv'
<1> DEFINE q == request[r]
           f == failures[q.tenant]
           g == CountedFailure(f, q.now)
<1>1. /\ TypeOK /\ q \in Request /\ q.stage = "compared" /\ q.tenant \in Tenants
      /\ q.now \in 0..MaxClock /\ q.now + Window \in Time /\ q.now <= clock
      /\ clock \in 0..MaxClock
      /\ UNCHANGED <<clock, cache, begun, verified>>
      /\ Answer(r, "challenged") /\ "challenged" \in Outcomes
  BY RequestType DEF GateInv, RecordFailure, Outcomes, BegunBefore, TypeOK
<1>2. /\ request' \in [Requests -> Request]
      /\ \A u \in Requests : u # r => request'[u] = request[u]
      /\ request'[r].stage = "idle" /\ request'[r].outcome = "challenged"
      /\ request'[r].now = q.now /\ request'[r].tenant = q.tenant
      /\ request'[r].password = q.password
  BY <1>1, Answers
<1>3. /\ f \in [count : Nat, until : Time]
      /\ f.count \in Nat /\ f.until \in Time
  BY <1>1 DEF TypeOK
<1>4. /\ g \in [count : Nat, until : Time]
      /\ Live(f, q.now) => g.count = f.count + 1 /\ g.until = f.until
      /\ ~Live(f, q.now) => g.count = 1
  BY <1>1, <1>3 DEF CountedFailure
<1>5. failures' = [failures EXCEPT ![q.tenant] = g]
  BY DEF RecordFailure
<1>6. wrong' \in [Tenants -> Seq(0..MaxClock)]
  <2>1. wrong' = [wrong EXCEPT ![q.tenant] = Append(@, clock)] /\ clock \in 0..MaxClock
    BY <1>1 DEF RecordFailure
  <2>2. wrong \in [Tenants -> Seq(0..MaxClock)] /\ q.tenant \in Tenants
    BY <1>1 DEF TypeOK
  <2> QED
    BY <2>1, <2>2
<1> HIDE DEF g
<1>7. TypeOK'
  BY <1>1, <1>2, <1>4, <1>5, <1>6 DEF TypeOK
<1>8. ASSUME NEW t \in Tenants, Live(failures'[t], clock)
      PROVE  failures'[t].count + Cardinality(Guessing(t)')
               <= FailureLimit - 1 + Cardinality(Requests)
  <2>1. Guessing(t)' \subseteq Requests /\ Guessing(t) \subseteq Requests
    BY DEF Guessing
  <2>2. /\ Cardinality(Guessing(t)') \in Nat /\ Cardinality(Guessing(t)) \in Nat
        /\ Cardinality(Requests) \in Nat
        /\ Cardinality(Guessing(t)) <= Cardinality(Requests)
    BY <2>1, RequestSets
  <2>3. Live(failures[t], clock) => failures[t].count + Cardinality(Guessing(t))
                                      <= FailureLimit - 1 + Cardinality(Requests)
    BY DEF GateInv, GuessesCounted
  <2>4. CASE t = q.tenant
    <3>1. r \in Guessing(t) /\ Guessing(t)' \subseteq Guessing(t) \ {r}
      BY <1>1, <1>2, <2>4 DEF Guessing, Past
    <3>2. Cardinality(Guessing(t)') + 1 <= Cardinality(Guessing(t))
      BY <2>1, <3>1, OneRequestLess
    <3>3. failures'[t] = g /\ failures[t] = f
      BY <1>1, <1>5, <2>4 DEF TypeOK
    <3>4. CASE Live(f, q.now)
      <4>1. g.count = f.count + 1 /\ g.until = f.until
        BY <1>4, <3>4
      <4>2. Live(f, clock)
        BY <2>4, <1>8, <3>3, <4>1 DEF Live
      <4> QED
        BY <1>3, <2>2, <2>3, <3>2, <3>3, <4>1, <4>2, WindowType
    <3>5. CASE ~Live(f, q.now)
      BY <1>4, <2>2, <3>2, <3>3, <3>5, WindowType
    <3> QED
      BY <3>4, <3>5
  <2>5. CASE t # q.tenant
    <3>1. failures'[t] = failures[t] /\ failures[t].count \in Nat
      BY <1>1, <1>5, <2>5 DEF TypeOK
    <3>2. Guessing(t)' \subseteq Guessing(t)
      BY <1>2, <2>5 DEF Guessing, Past
    <3>3. Cardinality(Guessing(t)') <= Cardinality(Guessing(t))
      BY <2>1, <3>2, FewerRequests
    <3> QED
      BY <1>8, <2>2, <2>3, <3>1, <3>3, WindowType
  <2> QED
    BY <2>4, <2>5
<1>9. GuessesCounted'
  BY <1>1, <1>8 DEF GuessesCounted, Live
<1>10. Cardinality(Comparing)' <= Slots
  BY <1>2, FewerComparing
<1>11. BegunBefore'
  BY <1>1, <1>2 DEF GateInv, BegunBefore
<1>12. CacheIsVerified' /\ CacheIsBounded'
  BY <1>1 DEF GateInv, CacheIsVerified, CacheIsBounded
<1>13. ServedWasVerified'
  <2>1. ASSUME NEW u \in Requests PROVE Served(request[u])'
    BY <1>1, <1>2 DEF GateInv, ServedWasVerified, Served
  <2> QED
    BY <2>1 DEF ServedWasVerified, Served
<1> QED
  BY <1>7, <1>9, <1>10, <1>11, <1>12, <1>13 DEF GateInv

(* What the cache keeps to have room for one more credential. *)
LEMMA RoomMade ==
  ASSUME GateInv, NEW now \in Nat, NEW kept \in WithRoom(now)
  PROVE  /\ DOMAIN kept \subseteq DOMAIN cache
         /\ \A k \in DOMAIN kept : kept[k] = cache[k]
         /\ IsFiniteSet(DOMAIN kept)
         /\ Cardinality(DOMAIN kept) + 1 <= CacheLimit
<1>1. IsFiniteSet(DOMAIN cache) /\ CacheLimit \in Nat
  BY WindowType DEF GateInv, CacheIsBounded
<1> DEFINE live == DOMAIN cache \ Expired(now)
<1>2. live \subseteq DOMAIN cache /\ IsFiniteSet(live) /\ Cardinality(live) \in Nat
      /\ Cardinality(DOMAIN cache) \in Nat
  BY <1>1, FS_Subset, FS_CardinalityType
<1>3. CASE Cardinality(DOMAIN cache) < CacheLimit /\ kept = cache
  BY <1>1, <1>2, <1>3
<1>4. CASE Cardinality(live) < CacheLimit /\ kept = Without(Expired(now))
  <2>1. DOMAIN kept = live /\ \A k \in DOMAIN kept : kept[k] = cache[k]
    BY <1>4 DEF Without
  <2> QED
    BY <1>1, <1>2, <1>4, <2>1
<1>5. CASE \E k \in live : kept = Without(Expired(now) \union {k})
  <2>1. PICK k \in live : kept = Without(Expired(now) \union {k})
    BY <1>5
  <2>2. DOMAIN kept = live \ {k} /\ \A x \in DOMAIN kept : kept[x] = cache[x]
    BY <2>1 DEF Without
  <2>3. IsFiniteSet(live \ {k}) /\ Cardinality(live \ {k}) = Cardinality(live) - 1
    BY <1>2, <2>1, FS_RemoveElement
  <2>4. Cardinality(live) <= Cardinality(DOMAIN cache)
    BY <1>1, FS_Subset
  <2>5. Cardinality(DOMAIN cache) <= CacheLimit
    BY DEF GateInv, CacheIsBounded
  <2>6. Cardinality(live) <= CacheLimit
    BY <1>1, <1>2, <2>4, <2>5
  <2> QED
    BY <1>1, <1>2, <2>2, <2>3, <2>6
<1> QED
  BY <1>3, <1>4, <1>5 DEF WithRoom

LEMMA SuccessStep ==
  ASSUME GateInv, NEW r \in Requests, RecordSuccess(r)
  PROVE  GateInv'
<1> DEFINE q == request[r]
           key == Key(q.tenant, q.password)
           proof == <<q.tenant, q.password, q.now>>
<1>1. /\ TypeOK /\ q \in Request /\ q.stage = "compared" /\ q.tenant \in Tenants
      /\ q.password \in Passwords /\ q.now \in 0..MaxClock /\ q.now + Window \in Time
      /\ q.now <= clock
      /\ UNCHANGED <<clock, failures, begun, wrong>>
      /\ Answer(r, "served") /\ "served" \in Outcomes
      /\ verified' = verified \union {proof}
  BY RequestType DEF GateInv, RecordSuccess, Outcomes, BegunBefore
<1>2. /\ request' \in [Requests -> Request]
      /\ \A u \in Requests : u # r => request'[u] = request[u]
      /\ request'[r].stage = "idle" /\ request'[r].outcome = "served"
      /\ request'[r].now = q.now /\ request'[r].tenant = q.tenant
      /\ request'[r].password = q.password
  BY <1>1, Answers
<1>3. PICK kept \in WithRoom(q.now) :
        cache' = [k \in DOMAIN kept \union {key} |-> IF k = key THEN q.now + Window ELSE kept[k]]
  BY DEF RecordSuccess
<1>4. /\ DOMAIN kept \subseteq DOMAIN cache
      /\ \A k \in DOMAIN kept : kept[k] = cache[k]
      /\ IsFiniteSet(DOMAIN kept)
      /\ Cardinality(DOMAIN kept) + 1 <= CacheLimit
  BY <1>1, WindowType, RoomMade
<1>5. key \in Keys /\ key[1] = q.tenant /\ key[2] = q.password
  BY <1>1 DEF Key, Keys
<1> HIDE DEF key
<1>6. /\ DOMAIN cache' = DOMAIN kept \union {key}
      /\ cache'[key] = q.now + Window
      /\ \A k \in DOMAIN kept : k # key => cache'[k] = cache[k]
      /\ cache' = [k \in DOMAIN cache' |-> cache'[k]]
  BY <1>3, <1>4
<1>7. TypeOK'
  <2>1. DOMAIN cache' \subseteq Keys
    BY <1>1, <1>4, <1>5, <1>6 DEF TypeOK
  <2>2. \A k \in DOMAIN cache' : cache'[k] \in Time
    BY <1>1, <1>4, <1>6 DEF TypeOK
  <2>3. cache' \in [DOMAIN cache' -> Time]
    BY <1>6, <2>2
  <2>4. proof \in Tenants \X Passwords \X (0..MaxClock)
    BY <1>1
  <2> QED
    BY <1>1, <1>2, <2>1, <2>3, <2>4 DEF TypeOK
<1>8. CacheIsVerified'
  <2>1. proof \in verified' /\ proof[1] = key[1] /\ proof[2] = key[2]
        /\ cache'[key] = proof[3] + Window
    BY <1>1, <1>5, <1>6
  <2>2. ASSUME NEW k \in DOMAIN cache', k # key
        PROVE  \E v \in verified' : v[1] = k[1] /\ v[2] = k[2] /\ cache'[k] = v[3] + Window
    <3>1. k \in DOMAIN cache /\ cache'[k] = cache[k]
      BY <1>4, <1>6, <2>2
    <3>2. PICK v \in verified : v[1] = k[1] /\ v[2] = k[2] /\ cache[k] = v[3] + Window
      BY <3>1 DEF GateInv, CacheIsVerified
    <3> QED
      BY <1>1, <3>1, <3>2
  <2> HIDE DEF proof
  <2> QED
    BY <2>1, <2>2 DEF CacheIsVerified
<1>9. CacheIsBounded'
  <2>1. IsFiniteSet(DOMAIN cache') /\ Cardinality(DOMAIN cache') <= Cardinality(DOMAIN kept) + 1
    <3>1. IsFiniteSet(DOMAIN kept)
      BY <1>4
    <3>2. \A x : IsFiniteSet(DOMAIN kept \union {x})
                 /\ Cardinality(DOMAIN kept \union {x}) <= Cardinality(DOMAIN kept) + 1
      BY <3>1, OneMore
    <3>3. DOMAIN cache' = DOMAIN kept \union {key}
      BY <1>6
    <3> QED
      BY <3>2, <3>3
  <2>2. Cardinality(DOMAIN cache') \in Nat /\ Cardinality(DOMAIN kept) \in Nat
    BY <1>4, <2>1, FS_CardinalityType
  <2> QED
    BY <1>4, <2>1, <2>2, WindowType DEF CacheIsBounded
<1>10. GuessesCounted'
  BY <1>1, <1>2, <1>7, FewerGuesses DEF Past
<1>11. Cardinality(Comparing)' <= Slots
  BY <1>2, FewerComparing
<1>12. BegunBefore'
  BY <1>1, <1>2 DEF GateInv, BegunBefore
<1>13. ServedWasVerified'
  <2>1. ASSUME NEW u \in Requests, u # r PROVE Served(request[u])'
    BY <1>1, <1>2, <2>1 DEF GateInv, ServedWasVerified, Served
  <2>2. Served(request[r])'
    <3>1. proof \in verified' /\ proof[1] = q.tenant /\ proof[2] = q.password /\ proof[3] = q.now
      BY <1>1
    <3>2. q.now + Window > q.now
      BY <1>1, WindowType
    <3> HIDE DEF proof
    <3> QED
      BY <1>2, <3>1, <3>2 DEF Served
  <2> QED
    BY <2>1, <2>2 DEF ServedWasVerified, Served
<1> QED
  BY <1>7, <1>8, <1>9, <1>10, <1>11, <1>12, <1>13 DEF GateInv

LEMMA TickStep == ASSUME GateInv, Tick PROVE GateInv'
<1>1. /\ clock \in 0..MaxClock /\ clock' = clock + 1 /\ clock' \in 0..MaxClock
      /\ UNCHANGED <<cache, failures, request, begun, verified, wrong>>
  BY WindowType DEF Tick, GateInv, TypeOK
<1>2. TypeOK'
  BY <1>1 DEF GateInv, TypeOK
<1>3. BegunBefore'
  <2>1. ASSUME NEW r \in Requests PROVE request[r].now <= clock'
    BY <1>1, RequestType DEF GateInv, BegunBefore
  <2> QED
    BY <1>1, <2>1 DEF BegunBefore
<1>4. GuessesCounted'
  <2>1. ASSUME NEW t \in Tenants PROVE Live(failures[t], clock') => Live(failures[t], clock)
    BY <1>1, WindowType DEF Live, GateInv, TypeOK, Time
  <2>2. \A t \in Tenants : Guessing(t)' = Guessing(t)
    BY <1>1 DEF Guessing
  <2> QED
    BY <1>1, <2>1, <2>2 DEF GateInv, GuessesCounted, Live
<1>5. Comparing' = Comparing
  BY <1>1 DEF Comparing
<1>6. CacheIsVerified' /\ CacheIsBounded' /\ ServedWasVerified'
  BY <1>1 DEF GateInv, CacheIsVerified, CacheIsBounded, ServedWasVerified
<1> QED
  BY <1>2, <1>3, <1>4, <1>5, <1>6 DEF GateInv

LEMMA GateStep == ASSUME GateInv, [Next]_vars PROVE GateInv'
<1>1. CASE UNCHANGED vars
  <2>1. UNCHANGED <<clock, cache, failures, request, begun, verified, wrong>>
    BY <1>1 DEF vars
  <2>2. Comparing' = Comparing /\ \A t : Guessing(t)' = Guessing(t)
    BY <2>1 DEF Comparing, Guessing
  <2> QED
    BY <2>1, <2>2 DEF GateInv, TypeOK, BegunBefore, CacheIsVerified, CacheIsBounded,
                      ServedWasVerified, GuessesCounted, Live
<1> QED
  BY <1>1, TickStep, BeginStep, LookStep, AcquireStep, CompareStep, FailureStep, SuccessStep
     DEF Next, Serve

LEMMA GateIsSafe == Spec => []GateInv
BY GateInit, GateStep, PTL DEF Spec

(* The gate's shared state and its requests keep their types. *)
THEOREM TypeCorrect == Spec => []TypeOK
<1>1. GateInv => TypeOK
  BY DEF GateInv
<1> QED
  BY <1>1, GateIsSafe, PTL

(* The cache and the slots keep their limits, for every number of requests. *)
THEOREM LimitsAreKept == Spec => []LimitsHold
<1>1. GateInv => LimitsHold
  BY DEF GateInv, CacheIsBounded, LimitsHold
<1> QED
  BY <1>1, GateIsSafe, PTL

(* Nobody is served without a password compared within the window before. *)
THEOREM OnlyVerifiedAreServed == Spec => []ServedWasVerified
<1>1. GateInv => ServedWasVerified
  BY DEF GateInv
<1> QED
  BY <1>1, GateIsSafe, PTL

(* The wrong passwords of a window pass the limit by less than the requests *)
(* in progress: each of them was past the look before the limit was met.    *)
THEOREM GuessesAreBounded == Spec => []GuessesBounded
<1>1. ASSUME GateInv, NEW t \in Tenants, Live(failures[t], clock)
      PROVE  failures[t].count <= FailureLimit - 1 + Cardinality(Requests)
  <2>1. Guessing(t) \subseteq Requests
    BY DEF Guessing
  <2>2. Cardinality(Guessing(t)) \in Nat /\ Cardinality(Requests) \in Nat
    BY <2>1, RequestSets
  <2>3. failures[t].count + Cardinality(Guessing(t)) <= FailureLimit - 1 + Cardinality(Requests)
    BY <1>1 DEF GateInv, GuessesCounted
  <2>4. failures[t].count \in Nat
    BY <1>1 DEF GateInv, TypeOK
  <2> QED
    BY <2>2, <2>3, <2>4, WindowType
<1>2. GateInv => GuessesBounded
  BY <1>1 DEF GuessesBounded
<1> QED
  BY <1>2, GateIsSafe, PTL


--------------------------------------------------------------------------------
(* Nobody is turned away early: what is counted for a tenant was wrong, and *)
(* recently enough to be counted still.                                     *)

(* The times of w that are at most a window before u. *)
Late(w, u) == {n \in DOMAIN w : w[n] + Window >= u}

FailuresWereWrong ==
  \A t \in Tenants : /\ failures[t].until <= clock + Window
                     /\ failures[t].count <= Cardinality(Late(wrong[t], failures[t].until))

(* The wrong passwords that turned a request away, as LockoutIsEarned has it. *)
Earned(q) == q.outcome = "locked" => FailureLimit <= Cardinality(Late(wrong[q.tenant], q.now + 1))

LockInv == FailuresWereWrong /\ \A r \in Requests : Earned(request[r])

LEMMA LateIsFinite ==
  ASSUME NEW w \in Seq(0..MaxClock), NEW u
  PROVE  IsFiniteSet(Late(w, u)) /\ Cardinality(Late(w, u)) \in Nat
<1>1. DOMAIN w = 1..Len(w) /\ Len(w) \in Nat
  OBVIOUS
<1>2. IsFiniteSet(1..Len(w))
  BY <1>1, FS_Interval
<1>3. Late(w, u) \subseteq 1..Len(w)
  BY <1>1 DEF Late
<1>4. IsFiniteSet(Late(w, u))
  BY <1>2, <1>3, FS_Subset
<1> QED
  BY <1>4, FS_CardinalityType

LEMMA MembersOfLists ==
  ASSUME NEW S, NEW w \in Seq(S), NEW n \in DOMAIN w
  PROVE  w[n] \in S
<1>1. DOMAIN w = 1..Len(w) /\ Len(w) \in Nat
  OBVIOUS
<1> QED
  BY <1>1

LEMMA TimesAreNumbers ==
  ASSUME NEW w \in Seq(0..MaxClock), NEW n \in DOMAIN w
  PROVE  w[n] \in Int
<1>1. w[n] \in 0..MaxClock
  BY MembersOfLists
<1> QED
  BY <1>1, WindowType

(* An earlier time admits more of them. *)
LEMMA EarlierIsMore ==
  ASSUME NEW w \in Seq(0..MaxClock), NEW u \in Int, NEW v \in Int, v <= u
  PROVE  Cardinality(Late(w, u)) <= Cardinality(Late(w, v))
<1>1. \A n \in DOMAIN w : w[n] \in Int
  BY TimesAreNumbers
<1>2. Late(w, u) \subseteq Late(w, v)
  BY <1>1, WindowType DEF Late
<1> QED
  BY <1>2, LateIsFinite, FS_Subset

(* One more wrong password: none is lost, and the new one counts. *)
LEMMA OneMoreWrong ==
  ASSUME NEW w \in Seq(0..MaxClock), NEW c \in 0..MaxClock, NEW u \in Int
  PROVE  /\ Cardinality(Late(w, u)) <= Cardinality(Late(Append(w, c), u))
         /\ c + Window >= u => Cardinality(Late(w, u)) + 1 <= Cardinality(Late(Append(w, c), u))
<1> DEFINE x == Append(w, c)
           n == Len(w) + 1
<1>1. /\ x \in Seq(0..MaxClock) /\ Len(x) = n /\ Len(w) \in Nat /\ x[n] = c
      /\ \A i \in 1..Len(w) : x[i] = w[i]
      /\ DOMAIN x = 1..n /\ DOMAIN w = 1..Len(w)
  OBVIOUS
<1> HIDE DEF x
<1>2. Late(w, u) \subseteq Late(x, u)
  BY <1>1 DEF Late
<1>3. /\ IsFiniteSet(Late(w, u)) /\ Cardinality(Late(w, u)) \in Nat
      /\ IsFiniteSet(Late(x, u)) /\ Cardinality(Late(x, u)) \in Nat
  BY <1>1, LateIsFinite
<1>4. Cardinality(Late(w, u)) <= Cardinality(Late(x, u))
  BY <1>2, <1>3, FS_Subset
<1>5. ASSUME c + Window >= u
      PROVE  Cardinality(Late(w, u)) + 1 <= Cardinality(Late(x, u))
  <2>1. n \notin Late(w, u) /\ Late(w, u) \union {n} \subseteq Late(x, u)
    BY <1>1, <1>2, <1>5 DEF Late
  <2>2. /\ IsFiniteSet(Late(w, u) \union {n})
        /\ Cardinality(Late(w, u) \union {n}) = Cardinality(Late(w, u)) + 1
    BY <1>3, <2>1, FS_AddElement
  <2> QED
    BY <1>3, <2>1, <2>2, FS_Subset
<1>6. QED
  BY <1>4, <1>5 DEF x

LEMMA LockTypes ==
  ASSUME GateInv, NEW t \in Tenants
  PROVE  /\ wrong[t] \in Seq(0..MaxClock) /\ clock \in 0..MaxClock
         /\ failures[t].count \in Nat /\ failures[t].until \in Nat
BY WindowType DEF GateInv, TypeOK, Time

LEMMA LockInit == Init => LockInv
<1> SUFFICES ASSUME Init PROVE LockInv
  OBVIOUS
<1>1. GateInv
  BY GateInit
<1>2. ASSUME NEW t \in Tenants
      PROVE  /\ failures[t].until <= clock + Window
             /\ failures[t].count <= Cardinality(Late(wrong[t], failures[t].until))
  <2>1. failures[t].count = 0 /\ failures[t].until = 0 /\ clock = 0
    BY DEF Init
  <2>2. Cardinality(Late(wrong[t], failures[t].until)) \in Nat
    BY <1>1, LockTypes, LateIsFinite
  <2> QED
    BY <2>1, <2>2, WindowType
<1>3. \A r \in Requests : request[r].outcome = "none"
  BY DEF Init
<1> QED
  BY <1>2, <1>3 DEF LockInv, FailuresWereWrong, Earned

(* A step that counts nothing, and locks nobody out. *)
LEMMA QuietStep ==
  ASSUME GateInv, LockInv, UNCHANGED <<failures, wrong>>, clock' \in Nat, clock <= clock',
         \A r \in Requests : request'[r].outcome = "locked" =>
           request'[r] = request[r] \/ Earned(request'[r])
  PROVE  LockInv'
<1>1. ASSUME NEW t \in Tenants PROVE failures[t].until <= clock' + Window
  <2>1. failures[t].until <= clock + Window
    BY DEF LockInv, FailuresWereWrong
  <2> QED
    BY <2>1, LockTypes, WindowType
<1>2. FailuresWereWrong'
  BY <1>1 DEF LockInv, FailuresWereWrong
<1>3. \A r \in Requests : Earned(request'[r])
  BY DEF LockInv, Earned
<1>4. \A r \in Requests : Earned(request[r])'
  BY <1>3 DEF Earned
<1> QED
  BY <1>2, <1>4 DEF LockInv

LEMMA LookLock ==
  ASSUME GateInv, LockInv, NEW r \in Requests, Look(r)
  PROVE  LockInv'
<1> DEFINE q == request[r]
           k == Key(q.tenant, q.password)
<1>1. /\ TypeOK /\ q.tenant \in Tenants /\ q.outcome \in Outcomes /\ q.now \in 0..MaxClock
      /\ UNCHANGED <<clock, failures, wrong>> /\ clock \in Nat
  <2>1. TypeOK
    BY DEF GateInv
  <2>2. clock \in Nat
    BY <2>1, WindowType DEF TypeOK
  <2> QED
    BY <2>1, <2>2, RequestType DEF Look
<1>2. CASE Cached(k, q.now)
  <2>1. Answer(r, "served") /\ "served" \in Outcomes
    BY <1>2 DEF Look, Outcomes
  <2>2. \A u \in Requests : request'[u].outcome = "locked" => request'[u] = request[u]
    BY <1>1, <2>1, Answers
  <2> QED
    BY <1>1, <2>2, QuietStep
<1>3. CASE ~Cached(k, q.now) /\ Locked(q.tenant, q.now)
  <2>1. Answer(r, "locked") /\ "locked" \in Outcomes
    BY <1>3 DEF Look, Outcomes
  <2>2. /\ \A u \in Requests : u # r => request'[u] = request[u]
        /\ request'[r].now = q.now /\ request'[r].tenant = q.tenant
    BY <1>1, <2>1, Answers
  <2> DEFINE t == q.tenant
  <2>3. /\ failures[t].until > q.now /\ failures[t].count >= FailureLimit
        /\ failures[t].count <= Cardinality(Late(wrong[t], failures[t].until))
    BY <1>1, <1>3 DEF Locked, Live, LockInv, FailuresWereWrong
  <2>4. /\ wrong[t] \in Seq(0..MaxClock) /\ failures[t].until \in Nat /\ failures[t].count \in Nat
        /\ Cardinality(Late(wrong[t], failures[t].until)) \in Nat
        /\ Cardinality(Late(wrong[t], q.now + 1)) \in Nat
    BY <1>1, LockTypes, LateIsFinite
  <2>5. q.now + 1 \in Int /\ q.now + 1 <= failures[t].until
    BY <1>1, <2>3, <2>4
  <2>6. Cardinality(Late(wrong[t], failures[t].until)) <= Cardinality(Late(wrong[t], q.now + 1))
    BY <2>4, <2>5, EarlierIsMore
  <2>7. FailureLimit <= Cardinality(Late(wrong[t], q.now + 1))
    BY <2>3, <2>4, <2>6, WindowType
  <2>8. Earned(request'[r])
    BY <2>2, <2>7 DEF Earned
  <2> QED
    BY <1>1, <2>2, <2>8, QuietStep
<1>4. CASE ~Cached(k, q.now) /\ ~Locked(q.tenant, q.now)
  <2>1. Go(r, "admitted") /\ "admitted" \in Stages
    BY <1>4 DEF Look, Stages
  <2>2. /\ \A u \in Requests : u # r => request'[u] = request[u]
        /\ request'[r].outcome = q.outcome /\ request'[r].now = q.now
        /\ request'[r].tenant = q.tenant
    BY <1>1, <2>1, Goes
  <2>3. Earned(request'[r])
    BY <2>2 DEF LockInv, Earned
  <2> QED
    BY <1>1, <2>2, <2>3, QuietStep
<1> QED
  BY <1>2, <1>3, <1>4

LEMMA FailureLock ==
  ASSUME GateInv, LockInv, NEW r \in Requests, RecordFailure(r)
  PROVE  LockInv'
<1> DEFINE q == request[r]
           f == failures[q.tenant]
           g == CountedFailure(f, q.now)
           w == wrong[q.tenant]
<1>1. /\ TypeOK /\ q.tenant \in Tenants /\ q.now \in 0..MaxClock /\ q.now <= clock
      /\ clock \in 0..MaxClock /\ clock' = clock
      /\ Answer(r, "challenged") /\ "challenged" \in Outcomes
  BY RequestType DEF GateInv, RecordFailure, Outcomes, BegunBefore, TypeOK
<1>2. \A u \in Requests : request'[u].outcome = "locked" => u # r /\ request'[u] = request[u]
  BY <1>1, Answers
<1>3. /\ w \in Seq(0..MaxClock) /\ f.count \in Nat /\ f.until \in Nat
      /\ f.until <= clock + Window /\ f.count <= Cardinality(Late(w, f.until))
      /\ f \in [count : Nat, until : Time]
  BY <1>1, LockTypes DEF LockInv, FailuresWereWrong, TypeOK
<1>4. /\ Live(f, q.now) => g.count = f.count + 1 /\ g.until = f.until
      /\ ~Live(f, q.now) => g.count = 1 /\ g.until = q.now + Window
  BY <1>3 DEF CountedFailure
<1>5. /\ failures' = [failures EXCEPT ![q.tenant] = g]
      /\ wrong' = [wrong EXCEPT ![q.tenant] = Append(w, clock)]
  BY DEF RecordFailure
<1>6. /\ failures'[q.tenant] = g /\ wrong'[q.tenant] = Append(w, clock)
      /\ \A t \in Tenants : t # q.tenant => failures'[t] = failures[t] /\ wrong'[t] = wrong[t]
  BY <1>1, <1>5 DEF TypeOK
<1> HIDE DEF g
<1>7. g.until \in Int /\ g.until <= clock + Window
  BY <1>1, <1>3, <1>4, WindowType
<1>8. Append(w, clock) \in Seq(0..MaxClock)
  BY <1>1, <1>3
<1>9. g.count <= Cardinality(Late(Append(w, clock), g.until))
  <2>1. Cardinality(Late(w, g.until)) + 1 <= Cardinality(Late(Append(w, clock), g.until))
    BY <1>1, <1>3, <1>7, WindowType, OneMoreWrong
  <2>2. /\ Cardinality(Late(w, g.until)) \in Nat
        /\ Cardinality(Late(Append(w, clock), g.until)) \in Nat
    BY <1>3, <1>8, LateIsFinite
  <2>3. CASE Live(f, q.now)
    <3>1. g.count = f.count + 1 /\ f.count <= Cardinality(Late(w, g.until))
      BY <1>3, <1>4, <2>3
    <3> QED
      BY <1>3, <2>1, <2>2, <3>1
  <2>4. CASE ~Live(f, q.now)
    BY <1>4, <2>1, <2>2, <2>4
  <2> QED
    BY <2>3, <2>4
<1>10. FailuresWereWrong'
  BY <1>1, <1>6, <1>7, <1>9 DEF LockInv, FailuresWereWrong
<1>11. ASSUME NEW u \in Requests PROVE Earned(request[u])'
  <2> DEFINE p == request[u]
  <2> SUFFICES ASSUME request'[u].outcome = "locked"
               PROVE  FailureLimit <= Cardinality(Late(wrong'[p.tenant], p.now + 1))
    BY <1>2 DEF Earned
  <2>1. p.tenant \in Tenants /\ p.now \in 0..MaxClock /\ p.outcome = "locked"
    BY <1>1, <1>2, RequestType
  <2>2. FailureLimit <= Cardinality(Late(wrong[p.tenant], p.now + 1))
    BY <2>1 DEF LockInv, Earned
  <2>3. CASE p.tenant # q.tenant
    BY <1>6, <2>1, <2>2, <2>3
  <2>4. CASE p.tenant = q.tenant
    <3>1. p.now + 1 \in Int
      BY <2>1
    <3>2. Cardinality(Late(w, p.now + 1)) <= Cardinality(Late(Append(w, clock), p.now + 1))
      BY <1>1, <1>3, <3>1, OneMoreWrong
    <3>3. /\ Cardinality(Late(w, p.now + 1)) \in Nat
          /\ Cardinality(Late(Append(w, clock), p.now + 1)) \in Nat
      BY <1>3, <1>8, LateIsFinite
    <3>4. FailureLimit <= Cardinality(Late(w, p.now + 1))
      BY <2>2, <2>4
    <3>5. FailureLimit <= Cardinality(Late(Append(w, clock), p.now + 1))
      BY <3>2, <3>3, <3>4, WindowType
    <3>6. wrong'[p.tenant] = Append(w, clock)
      BY <1>6, <2>4
    <3> HIDE DEF p, w
    <3> QED
      BY <3>5, <3>6
  <2> QED
    BY <2>3, <2>4
<1> QED
  BY <1>10, <1>11 DEF LockInv

LEMMA LockStep == ASSUME GateInv, LockInv, [Next]_vars PROVE LockInv'
<1>1. TypeOK /\ clock \in Nat
  BY WindowType DEF GateInv, TypeOK
<1>2. CASE UNCHANGED vars \/ Tick
  <2>1. UNCHANGED <<failures, wrong, request>> /\ clock' \in Nat /\ clock <= clock'
    BY <1>1, <1>2 DEF vars, Tick
  <2> QED
    BY <2>1, QuietStep
<1>3. ASSUME NEW r \in Requests, NEW t \in Tenants, NEW p \in Passwords, Begin(r, t, p)
      PROVE  LockInv'
  <2>1. /\ UNCHANGED <<clock, failures, wrong>>
        /\ \A u \in Requests : request'[u].outcome = "locked" => request'[u] = request[u]
    BY <1>1, <1>3 DEF Begin, TypeOK
  <2> QED
    BY <1>1, <2>1, QuietStep
<1>4. ASSUME NEW r \in Requests, Acquire(r) \/ Compare(r) \/ RecordSuccess(r)
      PROVE  LockInv'
  <2>1. UNCHANGED <<clock, failures, wrong>>
    BY <1>4 DEF Acquire, Compare, RecordSuccess
  <2>2. \/ Go(r, "comparing") \/ Go(r, "compared") \/ Answer(r, "busy") \/ Answer(r, "served")
    BY <1>4 DEF Acquire, Compare, RecordSuccess
  <2>3. /\ \A u \in Requests : u # r => request'[u] = request[u]
        /\ request'[r].outcome = "locked" =>
             /\ request'[r].outcome = request[r].outcome /\ request'[r].now = request[r].now
             /\ request'[r].tenant = request[r].tenant
    BY <1>1, <2>2, Goes, Answers DEF Stages, Outcomes
  <2>4. \A u \in Requests : request'[u].outcome = "locked" =>
          request'[u] = request[u] \/ Earned(request'[u])
    BY <2>3 DEF LockInv, Earned
  <2> QED
    BY <1>1, <2>1, <2>4, QuietStep
<1> QED
  BY <1>2, <1>3, <1>4, LookLock, FailureLock DEF Next, Serve

(* A tenant's visitors are turned away only after that many wrong passwords *)
(* for this tenant, all recorded within the window before the request: the  *)
(* failure count never holds one that is older, or another tenant's.        *)
THEOREM LockoutsAreEarned == Spec => []LockoutIsEarned
<1>1. Init => GateInv /\ LockInv
  BY GateInit, LockInit
<1>2. GateInv /\ LockInv /\ [Next]_vars => (GateInv /\ LockInv)'
  BY GateStep, LockStep
<1>3. GateInv /\ LockInv => LockoutIsEarned
  <2> SUFFICES ASSUME GateInv, LockInv, NEW r \in Requests, request[r].outcome = "locked"
               PROVE  LET q == request[r] IN
                 FailureLimit <= Cardinality({n \in DOMAIN wrong[q.tenant] :
                                                wrong[q.tenant][n] + Window > q.now})
    BY DEF LockoutIsEarned
  <2> DEFINE q == request[r]
             w == wrong[q.tenant]
  <2>1. TypeOK
    BY DEF GateInv
  <2>2. q.tenant \in Tenants /\ q.now \in 0..MaxClock
    BY <2>1, RequestType
  <2>3. w \in Seq(0..MaxClock)
    BY <2>2, LockTypes
  <2>4. \A n \in DOMAIN w : w[n] \in Int
    BY <2>3, TimesAreNumbers
  <2>5. Late(w, q.now + 1) = {n \in DOMAIN w : w[n] + Window > q.now}
    BY <2>2, <2>4, WindowType DEF Late
  <2>6. FailureLimit <= Cardinality(Late(w, q.now + 1))
    BY DEF LockInv, Earned
  <2> QED
    BY <2>5, <2>6
<1> QED
  BY <1>1, <1>2, <1>3, PTL DEF Spec

================================================================================
