------------------------------- MODULE AuditChain -------------------------------
(***************************************************************************)
(* The audit log (audit/log.go).  One Logger per process signs each admin  *)
(* mutation into a chain and appends it to a sink, which may refuse the    *)
(* row, or store it and lose the acknowledgement.  The Logger keeps its    *)
(* counter and the last signature in memory only; a sink may outlive it.   *)
(* An HMAC is modelled as the sequence of bodies it covers: two are equal  *)
(* only when everything under them is.                                     *)
(***************************************************************************)
EXTENDS Integers, Sequences, FiniteSetsExt

CONSTANTS
  Tenants,  \* tenant ids above 0; 0 marks cross-tenant operations
  Actions,  \* actor, action, subject, time and meta of an entry
  MaxRows,  \* bound: rows in the sink
  MaxSkips  \* bound: ids a Logger loses

ASSUME TenantsAssumption == Tenants \subseteq Nat \ {0}
ASSUME BoundsAssumption == {MaxRows, MaxSkips} \subseteq Nat

VARIABLES
  nextID,    \* Logger.nextID
  lastSig,   \* Logger.lastSig
  rows,      \* the entries in the sink, oldest first
  skipped,   \* ids this Logger took for entries it could not encode
  unlinked,  \* the Logger no longer knows the sink's last row
  breaks,    \* rows appended while unlinked
  changed    \* rows changed after they were stored

logger == <<nextID, lastSig>>
vars == <<logger, rows, skipped, unlinked, breaks, changed>>

TenantIDs == Tenants \union {0}
Body == [id : Nat, tenant : TenantIDs, action : Actions]
Entry == [body : Body, prevSig : Seq(Body), sig : Seq(Body)]

NoSig == << >>

SignIgnoringPrev(prev, body) == <<body>>
Sign(prev, body) == Append(prev, body)

NextEntry(t, a) ==
  LET body == [id |-> nextID + 1, tenant |-> t, action |-> a]
  IN [body |-> body, prevSig |-> lastSig, sig |-> Sign(lastSig, body)]

--------------------------------------------------------------------------------
(* Record, by what the sink does. *)

Store(e) ==
  /\ Len(rows) < MaxRows
  /\ rows' = Append(rows, e)
  /\ breaks' = IF unlinked THEN breaks \union {Len(rows) + 1} ELSE breaks

Record(t, a) ==
  LET e == NextEntry(t, a)
  IN /\ Store(e)
     /\ nextID' = e.body.id
     /\ lastSig' = e.sig
     /\ unlinked' = FALSE
     /\ UNCHANGED <<skipped, changed>>

(* The meta data cannot be encoded: the id is lost.  The handlers of this  *)
(* repository pass only strings and numbers.                               *)
RecordUnencodable ==
  /\ Cardinality(skipped) < MaxSkips
  /\ nextID' = nextID + 1
  /\ skipped' = skipped \union {nextID + 1}
  /\ UNCHANGED <<lastSig, rows, unlinked, breaks, changed>>

IDSkipped == nextID' = nextID + 1
IDRolledBack == nextID' = nextID

(* The sink refuses the row: the counter is rolled back. *)
RecordRefused(t, a) ==
  /\ IDRolledBack
  /\ UNCHANGED <<lastSig, rows, skipped, unlinked, breaks, changed>>

(* The sink stores the row but reports an error. *)
RecordUnacknowledged(t, a) ==
  /\ Store(NextEntry(t, a))
  /\ IDRolledBack
  /\ unlinked' = TRUE
  /\ UNCHANGED <<lastSig, skipped, changed>>

--------------------------------------------------------------------------------
(* New: a process starts with an empty Logger, on the sink it finds: the   *)
(* old one if it is a database, an empty one if it is a MemorySink.        *)

NewLogger == nextID' = 0 /\ lastSig' = NoSig /\ skipped' = {}

RestartOnSameSink ==
  /\ NewLogger
  /\ unlinked' = (rows # << >>)
  /\ UNCHANGED <<rows, breaks, changed>>

RestartOnMemorySink ==
  /\ NewLogger
  /\ rows' = << >>
  /\ unlinked' = FALSE
  /\ breaks' = {} /\ changed' = {}

(* Somebody edits the body of a stored row. *)
ChangeRow(i, body) ==
  /\ i \notin changed
  /\ body # rows[i].body
  /\ rows' = [rows EXCEPT ![i].body = body]
  /\ changed' = changed \union {i}
  /\ UNCHANGED <<logger, skipped, unlinked, breaks>>

--------------------------------------------------------------------------------
(* Verify(0) reads every row, Verify(t) those of t and the cross-tenant ones. *)

List(t) == SelectSeq(rows, LAMBDA e : t = 0 \/ e.body.tenant \in {t, 0})

PrevOf(entries, i) == IF i = 1 THEN NoSig ELSE entries[i - 1].sig

MatchesChain(prev, e) == e.sig = Sign(prev, e.body)

Broken(entries) ==
  {i \in DOMAIN entries : ~MatchesChain(PrevOf(entries, i), entries[i])}

(* The first row that breaks, or -1. *)
Verify(t) ==
  LET b == Broken(List(t))
  IN IF b = {} THEN -1 ELSE Min(b)

--------------------------------------------------------------------------------
Init ==
  /\ nextID = 0
  /\ lastSig = NoSig
  /\ rows = << >>
  /\ skipped = {}
  /\ unlinked = FALSE
  /\ breaks = {}
  /\ changed = {}

Next ==
  \/ \E t \in TenantIDs, a \in Actions :
       Record(t, a) \/ RecordRefused(t, a) \/ RecordUnacknowledged(t, a)
  \/ RecordUnencodable
  \/ RestartOnSameSink
  \/ RestartOnMemorySink
  \/ \E i \in DOMAIN rows, t \in TenantIDs, a \in Actions :
       ChangeRow(i, [rows[i].body EXCEPT !.tenant = t, !.action = a])

Spec == Init /\ [][Next]_vars

--------------------------------------------------------------------------------
(* Properties. *)

(* Type invariant of the Logger and its sink. *)
TypeOK ==
  /\ nextID \in Nat
  /\ lastSig \in Seq(Body)
  /\ rows \in Seq(Entry)
  /\ skipped \subseteq 1..nextID
  /\ unlinked \in BOOLEAN
  /\ breaks \subseteq DOMAIN rows /\ changed \subseteq DOMAIN rows

(* Verify(0) reports nothing but real causes, and misses none: the rows    *)
(* where the chain breaks are exactly the changed ones and those whose     *)
(* predecessor the Logger did not know, after a restart on a sink that     *)
(* persists or a lost acknowledgement.                                     *)
BreaksHaveCauses == Broken(rows) = breaks \union changed

(* While nothing goes wrong in the sink every id is accounted for, once: a *)
(* refused row leaves no gap (audit/log.go:105-110).                       *)
IDsAreAccountedFor ==
  breaks = {} /\ ~unlinked =>
    /\ {rows[i].body.id : i \in DOMAIN rows} \union skipped = 1..nextID
    /\ Len(rows) + Cardinality(skipped) = nextID

(* "Returns -1 if the whole chain verifies" (audit/log.go:115-117): on a   *)
(* chain nothing disturbed, for every tenant.                              *)
TenantChainVerifies ==
  breaks = {} /\ changed = {} => \A t \in TenantIDs : Verify(t) = -1

================================================================================
