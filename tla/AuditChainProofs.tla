---------------------------- MODULE AuditChainProofs ----------------------------
(* What holds of AuditChain for every set of tenants and actions and every  *)
(* number of rows, proved.                                                  *)
EXTENDS AuditChain, SequenceTheorems, FiniteSetTheorems, TLAPS

LEMMA AppendIsInjective ==
  ASSUME NEW S, NEW s \in Seq(S), NEW t \in Seq(S), NEW x \in S, NEW y \in S,
         Append(s, x) = Append(t, y)
  PROVE  s = t /\ x = y
<1>1. Len(s) = Len(t)
  BY AppendProperties
<1>2. x = y
  BY <1>1, AppendProperties
<1>3. \A i \in 1..Len(s) : s[i] = t[i]
  BY <1>1, AppendProperties
<1> QED
  BY <1>1, <1>2, <1>3, SeqEqual

(* A signature is never empty, and tells the one before it and the body. *)
LEMMA SignProperties ==
  ASSUME NEW prev \in Seq(Body), NEW body \in Body
  PROVE  /\ Sign(prev, body) \in Seq(Body)
         /\ Sign(prev, body) # NoSig
         /\ Sign(prev, body) # prev
BY AppendProperties, LenProperties DEF Sign, NoSig

LEMMA SignIsInjective ==
  ASSUME NEW prev \in Seq(Body), NEW body \in Body,
         NEW prev2 \in Seq(Body), NEW body2 \in Body,
         Sign(prev, body) = Sign(prev2, body2)
  PROVE  prev = prev2 /\ body = body2
BY AppendIsInjective DEF Sign

LEMMA NextEntryType ==
  ASSUME TypeOK, NEW t \in TenantIDs, NEW a \in Actions
  PROVE  /\ NextEntry(t, a) \in Entry
         /\ NextEntry(t, a).sig = Sign(lastSig, NextEntry(t, a).body)
         /\ NextEntry(t, a).body.id = nextID + 1
<1>1. [id |-> nextID + 1, tenant |-> t, action |-> a] \in Body
  BY DEF TypeOK, Body
<1> QED
  BY <1>1, SignProperties DEF TypeOK, Entry, NextEntry

--------------------------------------------------------------------------------
(* Type correctness. *)

LEMMA StoreType ==
  ASSUME TypeOK, NEW e \in Entry, Store(e)
  PROVE  /\ rows' \in Seq(Entry)
         /\ Len(rows') = Len(rows) + 1
         /\ \A i \in 1..Len(rows) : rows'[i] = rows[i]
         /\ rows'[Len(rows) + 1] = e
         /\ breaks' \subseteq DOMAIN rows'
         /\ changed \subseteq DOMAIN rows'
<1>1. /\ rows' \in Seq(Entry)
      /\ Len(rows') = Len(rows) + 1
      /\ \A i \in 1..Len(rows) : rows'[i] = rows[i]
      /\ rows'[Len(rows) + 1] = e
  BY AppendProperties DEF TypeOK, Store
<1>2. DOMAIN rows = 1..Len(rows) /\ DOMAIN rows' = 1..Len(rows) + 1 /\ Len(rows) \in Nat
  BY <1>1, LenProperties DEF TypeOK
<1>3. breaks' \subseteq DOMAIN rows' /\ changed \subseteq DOMAIN rows'
  BY <1>2 DEF TypeOK, Store
<1> QED
  BY <1>1, <1>3

LEMMA ChangeRowType ==
  ASSUME TypeOK, NEW i \in DOMAIN rows, NEW body \in Body, ChangeRow(i, body)
  PROVE  /\ rows' \in Seq(Entry)
         /\ Len(rows') = Len(rows)
         /\ DOMAIN rows' = DOMAIN rows
         /\ rows'[i] = [rows[i] EXCEPT !.body = body]
         /\ \A j \in DOMAIN rows : j # i => rows'[j] = rows[j]
<1>1. i \in 1..Len(rows) /\ rows[i] \in Entry /\ rows \in Seq(Entry)
  BY LenProperties, ElementOfSeq DEF TypeOK
<1>2. [rows[i] EXCEPT !.body = body] \in Entry
  BY <1>1 DEF Entry
<1>3. rows' = [rows EXCEPT ![i] = [rows[i] EXCEPT !.body = body]]
  BY DEF ChangeRow
<1>4. DOMAIN rows' = DOMAIN rows
  BY <1>3
<1> QED
  BY <1>1, <1>2, <1>3, <1>4, ExceptSeq

LEMMA ChangedBodyType ==
  ASSUME TypeOK, NEW i \in DOMAIN rows, NEW t \in TenantIDs, NEW a \in Actions
  PROVE  [rows[i].body EXCEPT !.tenant = t, !.action = a] \in Body
<1>1. i \in 1..Len(rows) /\ rows \in Seq(Entry)
  BY LenProperties DEF TypeOK
<1>2. rows[i] \in Entry
  BY <1>1, ElementOfSeq
<1>3. rows[i].body \in Body
  BY <1>2 DEF Entry
<1> QED
  BY <1>3 DEF Body

LEMMA NoSigType == NoSig \in Seq(Body) /\ << >> \in Seq(Entry) /\ DOMAIN NoSig = {}
BY EmptySeq DEF NoSig

LEMMA TypeInit == Init => TypeOK
<1> SUFFICES ASSUME Init PROVE TypeOK
  OBVIOUS
<1>1. rows \in Seq(Entry) /\ lastSig \in Seq(Body)
  BY NoSigType DEF Init
<1>2. nextID = 0 /\ skipped = {} /\ unlinked = FALSE /\ breaks = {} /\ changed = {}
  BY DEF Init
<1> QED
  BY <1>1, <1>2 DEF TypeOK

LEMMA TypeStep ==
  ASSUME TypeOK, [Next]_vars
  PROVE  TypeOK'
<1>1. CASE UNCHANGED vars
  BY <1>1 DEF TypeOK, vars, logger
<1>2. ASSUME NEW t \in TenantIDs, NEW a \in Actions, Record(t, a)
      PROVE  TypeOK'
  <2>1. NextEntry(t, a) \in Entry /\ Store(NextEntry(t, a)) /\ NextEntry(t, a).body.id = nextID + 1
    BY <1>2, NextEntryType DEF Record
  <2>2. nextID' = nextID + 1 /\ lastSig' = NextEntry(t, a).sig /\ unlinked' = FALSE
        /\ skipped' = skipped /\ changed' = changed
    BY <1>2, <2>1 DEF Record
  <2>3. lastSig' \in Seq(Body)
    BY <2>1, <2>2 DEF Entry
  <2>4. rows' \in Seq(Entry) /\ breaks' \subseteq DOMAIN rows' /\ changed' \subseteq DOMAIN rows'
    BY <2>1, <2>2, StoreType
  <2>5. nextID' \in Nat /\ skipped' \subseteq 1..nextID'
    BY <2>2 DEF TypeOK
  <2> QED
    BY <2>2, <2>3, <2>4, <2>5 DEF TypeOK
<1>3. ASSUME NEW t \in TenantIDs, NEW a \in Actions, RecordRefused(t, a)
      PROVE  TypeOK'
  BY <1>3 DEF TypeOK, RecordRefused, IDRolledBack
<1>4. ASSUME NEW t \in TenantIDs, NEW a \in Actions, RecordUnacknowledged(t, a)
      PROVE  TypeOK'
  BY <1>4, NextEntryType, StoreType DEF TypeOK, RecordUnacknowledged, IDRolledBack
<1>5. CASE RecordUnencodable
  BY <1>5 DEF TypeOK, RecordUnencodable
<1>6. CASE RestartOnSameSink
  BY <1>6, NoSigType DEF TypeOK, RestartOnSameSink, NewLogger
<1>7. CASE RestartOnMemorySink
  BY <1>7, NoSigType DEF TypeOK, RestartOnMemorySink, NewLogger
<1>8. ASSUME NEW i \in DOMAIN rows, NEW body \in Body, ChangeRow(i, body)
      PROVE  TypeOK'
  BY <1>8, ChangeRowType DEF TypeOK, ChangeRow, logger
<1> QED
  BY <1>1, <1>2, <1>3, <1>4, <1>5, <1>6, <1>7, <1>8, ChangedBodyType DEF Next

(* Type correctness of the Logger and its sink. *)
THEOREM TypeCorrect == Spec => []TypeOK
BY TypeInit, TypeStep, PTL DEF Spec

--------------------------------------------------------------------------------
(* The invariant behind BreaksHaveCauses. *)

Last == PrevOf(rows, Len(rows) + 1)

(* While linked, the Logger signs on top of the sink's last row ... *)
LinkedToLast == ~unlinked => lastSig = Last

(* ... and once it lost the link it signs on top of anything else. *)
UnlinkedFromLast == unlinked => rows # << >> /\ lastSig # Last

(* A row nobody changed has the body its signature covers. *)
SignedBodies ==
  \A i \in DOMAIN rows : \E prev \in Seq(Body), body \in Body :
    /\ rows[i].sig = Sign(prev, body)
    /\ i \notin changed => body = rows[i].body

IInv ==
  /\ TypeOK
  /\ LinkedToLast
  /\ UnlinkedFromLast
  /\ SignedBodies
  /\ BreaksHaveCauses

LEMMA RowTypes ==
  ASSUME TypeOK
  PROVE  /\ Len(rows) \in Nat
         /\ DOMAIN rows = 1..Len(rows)
         /\ \A i \in DOMAIN rows : rows[i] \in Entry /\ rows[i].sig \in Seq(Body)
                                  /\ rows[i].body \in Body
         /\ rows = << >> <=> Len(rows) = 0
<1>1. Len(rows) \in Nat /\ DOMAIN rows = 1..Len(rows)
  BY LenProperties DEF TypeOK
<1>2. \A i \in DOMAIN rows : rows[i] \in Entry
  BY <1>1, ElementOfSeq DEF TypeOK
<1>3. rows = << >> <=> Len(rows) = 0
  BY EmptySeq DEF TypeOK
<1> QED
  BY <1>1, <1>2, <1>3 DEF Entry

LEMMA LastType ==
  ASSUME TypeOK
  PROVE  /\ Last \in Seq(Body)
         /\ rows # << >> => Last = rows[Len(rows)].sig
         /\ rows = << >> => Last = NoSig
BY RowTypes, NoSigType DEF Last, PrevOf

(* Storing a row breaks the chain there exactly if it is not signed on top *)
(* of the last row, and nowhere else.                                      *)
LEMMA StoreBreaks ==
  ASSUME TypeOK, NEW t \in TenantIDs, NEW a \in Actions, Store(NextEntry(t, a))
  PROVE  Broken(rows') = Broken(rows) \union (IF lastSig = Last THEN {} ELSE {Len(rows) + 1})
<1> DEFINE e == NextEntry(t, a)
           n == Len(rows) + 1
<1>1. e \in Entry /\ e.sig = Sign(lastSig, e.body) /\ e.body \in Body
  BY NextEntryType DEF Entry
<1>2. /\ rows' \in Seq(Entry) /\ Len(rows') = n
      /\ \A i \in 1..Len(rows) : rows'[i] = rows[i]
      /\ rows'[n] = e
  BY <1>1, StoreType
<1>3. DOMAIN rows = 1..Len(rows) /\ DOMAIN rows' = 1..n /\ Len(rows) \in Nat
  BY <1>2, RowTypes, LenProperties
<1>4. \A i \in 1..n : PrevOf(rows', i) = PrevOf(rows, i)
  BY <1>2, <1>3 DEF PrevOf
<1>5. \A i \in 1..Len(rows) : i \in Broken(rows') <=> i \in Broken(rows)
  BY <1>2, <1>3, <1>4 DEF Broken
<1>6. lastSig \in Seq(Body) /\ Last \in Seq(Body)
  BY LastType DEF TypeOK
<1>7. Sign(lastSig, e.body) = Sign(Last, e.body) <=> lastSig = Last
  BY <1>1, <1>6, SignIsInjective
<1>8. n \in Broken(rows') <=> lastSig # Last
  BY <1>1, <1>2, <1>3, <1>4, <1>7 DEF Broken, MatchesChain, Last
<1>9. Broken(rows) \subseteq 1..Len(rows) /\ Broken(rows') \subseteq 1..n
  BY <1>3 DEF Broken
<1> QED
  BY <1>3, <1>5, <1>8, <1>9

(* After a row is stored, Last is its signature. *)
LEMMA StoreLast ==
  ASSUME TypeOK, NEW t \in TenantIDs, NEW a \in Actions, Store(NextEntry(t, a))
  PROVE  /\ Last' = Sign(lastSig, NextEntry(t, a).body)
         /\ rows' # << >>
         /\ NextEntry(t, a).body \in Body
<1>1. NextEntry(t, a) \in Entry /\ NextEntry(t, a).sig = Sign(lastSig, NextEntry(t, a).body)
  BY NextEntryType
<1>2. rows' \in Seq(Entry) /\ Len(rows') = Len(rows) + 1 /\ rows'[Len(rows) + 1] = NextEntry(t, a)
  BY <1>1, StoreType
<1>3. Len(rows) \in Nat
  BY RowTypes
<1> QED
  BY <1>1, <1>2, <1>3, EmptySeq DEF Last, PrevOf, Entry

LEMMA StoreSigned ==
  ASSUME TypeOK, SignedBodies, NEW t \in TenantIDs, NEW a \in Actions,
         Store(NextEntry(t, a)), changed' = changed
  PROVE  SignedBodies'
<1> DEFINE e == NextEntry(t, a)
<1>1. e \in Entry /\ e.sig = Sign(lastSig, e.body) /\ e.body \in Body
  BY NextEntryType DEF Entry
<1>2. /\ rows' \in Seq(Entry) /\ Len(rows') = Len(rows) + 1
      /\ \A i \in 1..Len(rows) : rows'[i] = rows[i]
      /\ rows'[Len(rows) + 1] = e
  BY <1>1, StoreType
<1>3. DOMAIN rows = 1..Len(rows) /\ DOMAIN rows' = 1..Len(rows) + 1 /\ Len(rows) \in Nat
  BY <1>2, RowTypes, LenProperties
<1>4. lastSig \in Seq(Body)
  BY DEF TypeOK
<1>5. ASSUME NEW i \in DOMAIN rows'
      PROVE  \E prev \in Seq(Body), body \in Body :
               rows'[i].sig = Sign(prev, body) /\ (i \notin changed' => body = rows'[i].body)
  <2>1. CASE i \in DOMAIN rows
    BY <2>1, <1>2, <1>3 DEF SignedBodies
  <2>2. CASE i = Len(rows) + 1
    BY <2>2, <1>1, <1>2, <1>4
  <2> QED
    BY <2>1, <2>2, <1>3
<1> QED
  BY <1>5 DEF SignedBodies

LEMMA InvInit == Init => IInv
<1> SUFFICES ASSUME Init PROVE IInv
  OBVIOUS
<1>1. rows = << >> /\ Len(rows) = 0 /\ DOMAIN rows = {}
  BY EmptySeq DEF Init
<1>2. TypeOK
  BY TypeInit
<1>3. LinkedToLast /\ UnlinkedFromLast
  BY <1>1, LastType, <1>2 DEF LinkedToLast, UnlinkedFromLast, Init
<1>4. SignedBodies /\ BreaksHaveCauses
  BY <1>1 DEF SignedBodies, BreaksHaveCauses, Broken, Init
<1> QED
  BY <1>2, <1>3, <1>4 DEF IInv

LEMMA RecordStep ==
  ASSUME IInv, TypeOK', NEW t \in TenantIDs, NEW a \in Actions, Record(t, a)
  PROVE  IInv'
<1>1. TypeOK /\ Store(NextEntry(t, a)) /\ unlinked' = FALSE /\ changed' = changed
      /\ lastSig' = NextEntry(t, a).sig
  BY DEF IInv, Record
<1>2. lastSig' = Sign(lastSig, NextEntry(t, a).body)
  BY <1>1, NextEntryType
<1>3. LinkedToLast' /\ UnlinkedFromLast'
  BY <1>1, <1>2, StoreLast DEF LinkedToLast, UnlinkedFromLast
<1>4. SignedBodies'
  BY <1>1, StoreSigned DEF IInv
<1>5. unlinked <=> lastSig # Last
  BY DEF IInv, LinkedToLast, UnlinkedFromLast
<1>6. BreaksHaveCauses'
  BY <1>1, <1>5, StoreBreaks DEF IInv, BreaksHaveCauses, Store
<1> QED
  BY <1>3, <1>4, <1>6 DEF IInv

LEMMA UnacknowledgedStep ==
  ASSUME IInv, TypeOK', NEW t \in TenantIDs, NEW a \in Actions, RecordUnacknowledged(t, a)
  PROVE  IInv'
<1>1. TypeOK /\ Store(NextEntry(t, a)) /\ unlinked' = TRUE /\ changed' = changed
      /\ lastSig' = lastSig
  BY DEF IInv, RecordUnacknowledged
<1>2. lastSig' # Last' /\ rows' # << >>
  BY <1>1, StoreLast, SignProperties DEF TypeOK
<1>3. LinkedToLast' /\ UnlinkedFromLast'
  BY <1>1, <1>2 DEF LinkedToLast, UnlinkedFromLast
<1>4. SignedBodies'
  BY <1>1, StoreSigned DEF IInv
<1>5. unlinked <=> lastSig # Last
  BY DEF IInv, LinkedToLast, UnlinkedFromLast
<1>6. BreaksHaveCauses'
  BY <1>1, <1>5, StoreBreaks DEF IInv, BreaksHaveCauses, Store
<1> QED
  BY <1>3, <1>4, <1>6 DEF IInv

(* A step that leaves the rows, what is known of them and the link alone. *)
LEMMA SameRowsStep ==
  ASSUME IInv, TypeOK', UNCHANGED <<rows, lastSig, unlinked, breaks, changed>>
  PROVE  IInv'
BY DEF IInv, LinkedToLast, UnlinkedFromLast, SignedBodies, BreaksHaveCauses, Last

LEMMA RestartOnSameSinkStep ==
  ASSUME IInv, TypeOK', RestartOnSameSink
  PROVE  IInv'
<1>1. lastSig' = NoSig /\ unlinked' = (rows # << >>) /\ UNCHANGED <<rows, breaks, changed>>
  BY DEF RestartOnSameSink, NewLogger
<1>2. TypeOK /\ Last' = Last
  BY <1>1 DEF IInv, Last
<1>3. rows # << >> => Last # NoSig
  <2>1. SUFFICES ASSUME rows # << >> PROVE rows[Len(rows)].sig # NoSig
    BY <1>2, LastType
  <2>2. Len(rows) \in DOMAIN rows
    BY <1>2, <2>1, RowTypes
  <2>3. PICK prev \in Seq(Body), body \in Body : rows[Len(rows)].sig = Sign(prev, body)
    BY <2>2 DEF IInv, SignedBodies
  <2> QED
    BY <2>3, SignProperties
<1>4. LinkedToLast' /\ UnlinkedFromLast'
  BY <1>1, <1>2, <1>3, LastType DEF LinkedToLast, UnlinkedFromLast
<1>5. SignedBodies' /\ BreaksHaveCauses'
  BY <1>1 DEF IInv, SignedBodies, BreaksHaveCauses
<1> QED
  BY <1>4, <1>5 DEF IInv

LEMMA RestartOnMemorySinkStep ==
  ASSUME IInv, TypeOK', RestartOnMemorySink
  PROVE  IInv'
<1>1. lastSig' = NoSig /\ rows' = << >> /\ unlinked' = FALSE /\ breaks' = {} /\ changed' = {}
  BY DEF RestartOnMemorySink, NewLogger
<1>2. Len(rows') = 0 /\ DOMAIN rows' = {}
  BY <1>1, EmptySeq
<1>3. Last' = NoSig
  BY <1>1, <1>2 DEF Last, PrevOf
<1>4. LinkedToLast' /\ UnlinkedFromLast'
  BY <1>1, <1>3 DEF LinkedToLast, UnlinkedFromLast
<1>5. SignedBodies' /\ BreaksHaveCauses'
  BY <1>1, <1>2 DEF SignedBodies, BreaksHaveCauses, Broken
<1> QED
  BY <1>4, <1>5 DEF IInv

(* A changed body never matches its signature, and signatures stay. *)
LEMMA ChangeRowStep ==
  ASSUME IInv, TypeOK', NEW i \in DOMAIN rows, NEW body \in Body, ChangeRow(i, body)
  PROVE  IInv'
<1>1. /\ TypeOK
      /\ i \notin changed /\ body # rows[i].body /\ changed' = changed \union {i}
      /\ UNCHANGED <<lastSig, unlinked, breaks>>
  BY DEF IInv, ChangeRow, logger
<1>2. /\ Len(rows') = Len(rows) /\ DOMAIN rows' = DOMAIN rows
      /\ rows'[i] = [rows[i] EXCEPT !.body = body]
      /\ \A j \in DOMAIN rows : j # i => rows'[j] = rows[j]
  BY <1>1, ChangeRowType
<1>3. /\ Len(rows) \in Nat /\ DOMAIN rows = 1..Len(rows)
      /\ \A j \in DOMAIN rows : rows[j] \in Entry /\ rows[j].sig \in Seq(Body)
  BY <1>1, RowTypes
<1>4. rows'[i].sig = rows[i].sig /\ rows'[i].body = body
  BY <1>2, <1>3 DEF Entry
<1>5. \A j \in DOMAIN rows : rows'[j].sig = rows[j].sig
  BY <1>2, <1>4
<1>6. \A j \in 1..Len(rows) + 1 : PrevOf(rows', j) = PrevOf(rows, j)
  BY <1>3, <1>5 DEF PrevOf
<1>7. Last' = Last
  BY <1>2, <1>3, <1>6 DEF Last
<1>8. rows # << >> => rows' # << >>
  BY <1>2, <1>3
<1>9. LinkedToLast' /\ UnlinkedFromLast'
  BY <1>1, <1>7, <1>8 DEF IInv, LinkedToLast, UnlinkedFromLast
<1>10. SignedBodies'
  BY <1>1, <1>2, <1>5 DEF IInv, SignedBodies
<1>11. i \in Broken(rows')
  <2>1. PICK prev \in Seq(Body), old \in Body : rows[i].sig = Sign(prev, old) /\ old = rows[i].body
    BY <1>1 DEF IInv, SignedBodies
  <2>2. PrevOf(rows, i) \in Seq(Body)
    BY <1>3, NoSigType DEF PrevOf
  <2>3. rows[i].sig # Sign(PrevOf(rows, i), body)
    BY <2>1, <2>2, <1>1, SignIsInjective
  <2>4. PrevOf(rows', i) = PrevOf(rows, i)
    BY <1>3, <1>6
  <2>5. ~MatchesChain(PrevOf(rows', i), rows'[i])
    BY <2>3, <2>4, <1>4 DEF MatchesChain
  <2> QED
    BY <2>5, <1>2 DEF Broken
<1>12. \A j \in DOMAIN rows \ {i} : j \in Broken(rows') <=> j \in Broken(rows)
  BY <1>2, <1>3, <1>6 DEF Broken
<1>13. Broken(rows) \subseteq DOMAIN rows /\ Broken(rows') \subseteq DOMAIN rows
  BY <1>2 DEF Broken
<1>14. BreaksHaveCauses'
  BY <1>1, <1>11, <1>12, <1>13 DEF IInv, BreaksHaveCauses
<1> QED
  BY <1>9, <1>10, <1>14 DEF IInv

LEMMA InvStep ==
  ASSUME IInv, [Next]_vars
  PROVE  IInv'
<1>1. TypeOK'
  BY TypeStep DEF IInv
<1>2. CASE UNCHANGED vars
  BY <1>1, <1>2, SameRowsStep DEF vars, logger
<1>3. ASSUME NEW t \in TenantIDs, NEW a \in Actions, RecordRefused(t, a)
      PROVE  IInv'
  BY <1>1, <1>3, SameRowsStep DEF RecordRefused
<1>4. CASE RecordUnencodable
  BY <1>1, <1>4, SameRowsStep DEF RecordUnencodable
<1> QED
  BY <1>1, <1>2, <1>3, <1>4, RecordStep, UnacknowledgedStep, RestartOnSameSinkStep,
     RestartOnMemorySinkStep, ChangeRowStep, ChangedBodyType DEF Next, IInv

(* Verify(0) names exactly the rows that were changed and those appended   *)
(* while the Logger did not know their predecessor (audit/log.go:118-139). *)
THEOREM BreaksAreExplained == Spec => []BreaksHaveCauses
<1>1. Spec => []IInv
  BY InvInit, InvStep, PTL DEF Spec
<1>2. IInv => BreaksHaveCauses
  BY DEF IInv
<1> QED
  BY <1>1, <1>2, PTL

--------------------------------------------------------------------------------
(* The ids. *)

RowIDs == {rows[i].body.id : i \in DOMAIN rows}

LEMMA SkippedIsFinite ==
  ASSUME TypeOK
  PROVE  IsFiniteSet(skipped) /\ Cardinality(skipped) \in Nat
<1>1. nextID \in Int /\ 1 \in Int /\ skipped \in SUBSET (1..nextID)
  BY DEF TypeOK
<1>2. IsFiniteSet(1..nextID)
  BY <1>1, FS_Interval
<1>3. IsFiniteSet(skipped)
  BY <1>1, <1>2, FS_Subset
<1> QED
  BY <1>3, FS_CardinalityType

LEMMA RowsUnchangedKeepIDs ==
  ASSUME IDsAreAccountedFor, UNCHANGED <<rows, breaks, unlinked, nextID, skipped>>
  PROVE  IDsAreAccountedFor'
BY DEF IDsAreAccountedFor

LEMMA RecordKeepsIDs ==
  ASSUME TypeOK, IDsAreAccountedFor, NEW t \in TenantIDs, NEW a \in Actions, Record(t, a)
  PROVE  IDsAreAccountedFor'
<1> DEFINE e == NextEntry(t, a)
<1>1. SUFFICES ASSUME breaks' = {} /\ ~unlinked'
               PROVE  RowIDs' \union skipped' = 1..nextID' /\ Len(rows') + Cardinality(skipped') = nextID'
  BY DEF IDsAreAccountedFor, RowIDs
<1>2. e \in Entry /\ e.body.id = nextID + 1 /\ Store(e) /\ nextID' = nextID + 1 /\ skipped' = skipped
  BY NextEntryType DEF Record
<1>3. ~unlinked /\ breaks = {}
  BY <1>1, <1>2 DEF Store, TypeOK
<1>4. RowIDs \union skipped = 1..nextID /\ Len(rows) + Cardinality(skipped) = nextID
  BY <1>3 DEF IDsAreAccountedFor, RowIDs
<1>5. /\ rows' \in Seq(Entry) /\ Len(rows') = Len(rows) + 1
      /\ \A i \in 1..Len(rows) : rows'[i] = rows[i]
      /\ rows'[Len(rows) + 1] = e
  BY <1>2, StoreType
<1>6. DOMAIN rows = 1..Len(rows) /\ DOMAIN rows' = 1..Len(rows) + 1 /\ Len(rows) \in Nat
  BY <1>5, RowTypes, LenProperties
<1>7. RowIDs' = RowIDs \union {nextID + 1}
  BY <1>2, <1>5, <1>6 DEF RowIDs
<1>8. nextID \in Nat /\ Cardinality(skipped) \in Nat
  BY SkippedIsFinite DEF TypeOK
<1>9. RowIDs' \union skipped' = 1..nextID'
  BY <1>2, <1>4, <1>7, <1>8
<1>10. Len(rows') + Cardinality(skipped') = nextID'
  BY <1>2, <1>4, <1>5, <1>6, <1>8
<1> QED
  BY <1>9, <1>10

LEMMA UnencodableKeepsIDs ==
  ASSUME TypeOK, IDsAreAccountedFor, RecordUnencodable
  PROVE  IDsAreAccountedFor'
<1>1. nextID' = nextID + 1 /\ skipped' = skipped \union {nextID + 1}
      /\ UNCHANGED <<rows, unlinked, breaks>>
  BY DEF RecordUnencodable
<1>2. nextID \in Nat /\ nextID + 1 \notin skipped
  BY DEF TypeOK
<1>3. Cardinality(skipped') = Cardinality(skipped) + 1 /\ Cardinality(skipped) \in Nat
  BY <1>1, <1>2, SkippedIsFinite, FS_AddElement
<1>4. Len(rows) \in Nat
  BY RowTypes
<1>5. SUFFICES ASSUME breaks = {} /\ ~unlinked
               PROVE  RowIDs' \union skipped' = 1..nextID' /\ Len(rows') + Cardinality(skipped') = nextID'
  BY <1>1 DEF IDsAreAccountedFor, RowIDs
<1>6. RowIDs \union skipped = 1..nextID /\ Len(rows) + Cardinality(skipped) = nextID
  BY <1>5 DEF IDsAreAccountedFor, RowIDs
<1>7. RowIDs' = RowIDs
  BY <1>1 DEF RowIDs
<1>8. RowIDs' \union skipped' = 1..nextID'
  BY <1>1, <1>2, <1>6, <1>7
<1>9. Len(rows') + Cardinality(skipped') = nextID'
  BY <1>1, <1>2, <1>3, <1>4, <1>6
<1> QED
  BY <1>8, <1>9

LEMMA NoRowsNoIDs ==
  ASSUME rows' = << >>, nextID' = 0, skipped' = {}
  PROVE  IDsAreAccountedFor'
<1>1. Len(rows') = 0 /\ DOMAIN rows' = {}
  BY EmptySeq
<1>2. Cardinality({}) = 0
  BY FS_EmptySet
<1>3. RowIDs' \union skipped' = 1..nextID' /\ Len(rows') + Cardinality(skipped') = nextID'
  BY <1>1, <1>2 DEF RowIDs
<1> QED
  BY <1>3 DEF IDsAreAccountedFor, RowIDs

LEMMA ChangeRowKeepsIDs ==
  ASSUME TypeOK, IDsAreAccountedFor, NEW i \in DOMAIN rows, NEW body \in Body,
         ChangeRow(i, body), body.id = rows[i].body.id
  PROVE  IDsAreAccountedFor'
<1>1. UNCHANGED <<nextID, skipped, unlinked, breaks>>
  BY DEF ChangeRow, logger
<1>2. /\ Len(rows') = Len(rows) /\ DOMAIN rows' = DOMAIN rows
      /\ rows'[i] = [rows[i] EXCEPT !.body = body]
      /\ \A j \in DOMAIN rows : j # i => rows'[j] = rows[j]
  BY ChangeRowType
<1>3. rows[i] \in Entry
  BY RowTypes
<1>4. rows'[i].body.id = rows[i].body.id
  BY <1>2, <1>3 DEF Entry
<1>5. \A j \in DOMAIN rows : rows'[j].body.id = rows[j].body.id
  BY <1>2, <1>4
<1>6. RowIDs' = RowIDs
  BY <1>2, <1>5 DEF RowIDs
<1> QED
  BY <1>1, <1>2, <1>6 DEF IDsAreAccountedFor, RowIDs

LEMMA IDsInit == Init => IDsAreAccountedFor
<1> SUFFICES ASSUME Init PROVE IDsAreAccountedFor
  OBVIOUS
<1>1. rows = << >> /\ skipped = {} /\ nextID = 0 /\ Len(rows) = 0 /\ DOMAIN rows = {}
  BY EmptySeq DEF Init
<1>2. Cardinality({}) = 0
  BY FS_EmptySet
<1> QED
  BY <1>1, <1>2 DEF IDsAreAccountedFor

LEMMA IDsStep ==
  ASSUME TypeOK, IDsAreAccountedFor, [Next]_vars
  PROVE  IDsAreAccountedFor'
<1>1. CASE UNCHANGED vars
  BY <1>1, RowsUnchangedKeepIDs DEF vars, logger
<1>2. ASSUME NEW t \in TenantIDs, NEW a \in Actions, RecordRefused(t, a)
      PROVE  IDsAreAccountedFor'
  BY <1>2, RowsUnchangedKeepIDs DEF RecordRefused, IDRolledBack
<1>3. ASSUME NEW t \in TenantIDs, NEW a \in Actions, RecordUnacknowledged(t, a)
      PROVE  IDsAreAccountedFor'
  BY <1>3 DEF RecordUnacknowledged, IDsAreAccountedFor
<1>4. CASE RestartOnSameSink
  <2>1. CASE rows = << >>
    BY <1>4, <2>1, NoRowsNoIDs DEF RestartOnSameSink, NewLogger
  <2>2. CASE rows # << >>
    BY <1>4, <2>2 DEF RestartOnSameSink, IDsAreAccountedFor
  <2> QED
    BY <2>1, <2>2
<1>5. CASE RestartOnMemorySink
  BY <1>5, NoRowsNoIDs DEF RestartOnMemorySink, NewLogger
<1>6. ASSUME NEW i \in DOMAIN rows, NEW t \in TenantIDs, NEW a \in Actions,
             ChangeRow(i, [rows[i].body EXCEPT !.tenant = t, !.action = a])
      PROVE  IDsAreAccountedFor'
  <2>1. rows[i].body \in Body
    BY RowTypes
  <2>2. [rows[i].body EXCEPT !.tenant = t, !.action = a].id = rows[i].body.id
    BY <2>1 DEF Body
  <2> QED
    BY <1>6, <2>2, ChangedBodyType, ChangeRowKeepsIDs
<1> QED
  BY <1>1, <1>2, <1>3, <1>4, <1>5, <1>6, RecordKeepsIDs, UnencodableKeepsIDs DEF Next

(* No id is lost or given twice while the sink behaves (audit/log.go:105-110). *)
THEOREM IDsAccounted == Spec => []IDsAreAccountedFor
BY TypeCorrect, IDsInit, IDsStep, PTL DEF Spec

================================================================================
