------------------------------- MODULE GatedHost -------------------------------
(***************************************************************************)
(* The host behind its gate, from a request's host to its password and to  *)
(* its content: HostGate, with PolicyGate in the place of its action       *)
(* Password (Gate.ServeHTTP, hostpolicy/policy.go).  A request that is to  *)
(* give a password makes one attempt at the gate, and goes on into the     *)
(* server or is refused in the step that ends the attempt.                 *)
(***************************************************************************)
EXTENDS HostGate

CONSTANTS Passwords, Right, CacheLimit, FailureLimit, Slots, Window, MaxClock, MaxBegun

VARIABLES
  clock, cache, failures, begun, verified, wrong,  \* as in PolicyGate
  attempt,  \* PolicyGate's requests: the last attempt of each reader
  gave      \* requests that have given a password since they arrived

Gate == INSTANCE PolicyGate WITH Tenants <- Protected, Requests <- Readers, request <- attempt

ASSUME AttemptAssumption ==
  /\ IsFiniteSet(Readers) /\ Protected # {}
  /\ Right \in [Protected -> Passwords]
  /\ {CacheLimit, FailureLimit, Slots, Window} \subseteq Nat \ {0}
  /\ {MaxClock, MaxBegun} \subseteq Nat

policyVars == <<clock, cache, failures, attempt, begun, verified, wrong>>
gatedVars == <<vars, policyVars, gave>>

--------------------------------------------------------------------------------
(* Steps that do not concern the password. *)

ArriveFresh(r, h, p) == Arrive(r, h, p) /\ gave' = gave \ {r} /\ UNCHANGED policyVars

HostStep(r) ==
  /\ (Read(r) /\ UNCHANGED gateVars) \/ GateTenant(r) \/ GateCanonical(r) \/ ServeContent(r)
  /\ UNCHANGED <<policyVars, gave>>

(* A request that is to give a password and has not begun to. *)
Asking(r) == request[r].phase = "password" /\ attempt[r].stage = "idle"

(* No Basic credentials, or not with the tenant's slug as the user. *)
Challenge(r) == Asking(r) /\ Finish(r, "refused") /\ UNCHANGED <<policyVars, gave>>

(* The host's own check lets a reader of a preview see its content. *)
PreviewAccess(r) ==
  /\ Asking(r)
  /\ request[r].tenant.kind = "preview" /\ request[r].path = "content"
  /\ EnterServer(r)
  /\ UNCHANGED <<policyVars, gave>>

AnyTenant(r) == CHOOSE s \in Protected : TRUE
AskedTenant(r) == request[r].tenant.slug

GivePassword(r, p) ==
  /\ Asking(r)
  /\ Gate!Begin(r, AskedTenant(r), p)
  /\ gave' = gave \union {r}
  /\ UNCHANGED vars

(* The attempt goes on; when it ends, the request does. *)
Attempt(r) ==
  /\ \/ Gate!Look(r) \/ Gate!Acquire(r) \/ Gate!Compare(r)
     \/ Gate!RecordFailure(r) \/ Gate!RecordSuccess(r)
  /\ CASE attempt'[r].stage # "idle" -> UNCHANGED vars
       [] attempt'[r].stage = "idle" /\ attempt'[r].outcome = "served" -> EnterServer(r)
       [] OTHER -> Finish(r, "refused")
  /\ UNCHANGED gave

--------------------------------------------------------------------------------
GatedInit == Init /\ Gate!Init /\ gave = {}

GatedStep(r) ==
  \/ \E h \in Hosts, p \in PathKinds : ArriveFresh(r, h, p)
  \/ HostStep(r)
  \/ Challenge(r)
  \/ PreviewAccess(r)
  \/ \E p \in Passwords : GivePassword(r, p)
  \/ Attempt(r)

GatedNext ==
  \/ AdminStep /\ UNCHANGED <<policyVars, gave>>
  \/ Gate!Tick /\ UNCHANGED <<vars, gave>>
  \/ \E r \in Readers : GatedStep(r)

GatedSpec == GatedInit /\ [][GatedNext]_gatedVars

--------------------------------------------------------------------------------
(* Properties. *)

(* What a request gave at the gate: t's password, which a comparison had   *)
(* found right not a window ago.                                           *)
GavePassword(r, t) ==
  /\ r \in gave
  /\ attempt[r].tenant = t.slug /\ attempt[r].password = Right[t.slug]
  /\ \E v \in verified :
       v[1] = t.slug /\ v[2] = Right[t.slug] /\ v[3] + Window > attempt[r].now

(* Through three lookups of several reads each, a shared cache and every   *)
(* change of other hosts: a request gets into the server on a host that is *)
(* not its tenant's public one only with this tenant's password, given by  *)
(* itself, or by the host's check for previews.                            *)
PrivateNeedsPassword ==
  \A r \in steady :
    LET q == request[r]
        t == Resolve(q.host)
    IN q.phase = "idle" /\ q.outcome \in {"content", "healthy"} /\ q.path # "plugin"
         => \/ q.host = Primary[t.slug]
            \/ q.path = "content" /\ t.kind = "preview"
            \/ GavePassword(r, t)

================================================================================
