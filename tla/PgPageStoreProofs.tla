--------------------------- MODULE PgPageStoreProofs ---------------------------
(***************************************************************************)
(* Theorems of PgPageStore for any number of tenants, writers, paths and   *)
(* bodies and all bounds.                                                  *)
(*                                                                         *)
(* The tenant's lock makes the rows of an open transaction private: until  *)
(* it commits, the tenant's committed rows are those it started from.  The *)
(* invariant therefore says of each open transaction what its rows and the *)
(* statements still to run are worth against the states its tenant ever    *)
(* had, and of the ids that each has one owner.  A second invariant says   *)
(* of each open batch where its pages end, and that they end apart; a      *)
(* third, of each open rollback, with which content each page ends.        *)
(***************************************************************************)
EXTENDS PgPageStore, FiniteSetTheorems, TLAPS

--------------------------------------------------------------------------------
(* The inductive invariant. *)

(* read[t] has the state of every revision, the last being the current one. *)
ReadIsCurrent ==
  \A t \in Tenants :
    /\ Len(read[t]) = revisions[t] + 1
    /\ read[t][revisions[t] + 1] = P!StatesOf(pages, t)

(* A page's version never falls. *)
Ascending ==
  \A t \in Tenants : \A m, n \in DOMAIN read[t] : m <= n =>
    \A i \in P!ID : read[t][m][i] # Absent /\ read[t][n][i] # Absent =>
      read[t][m][i].version <= read[t][n][i].version

PagesDiffer == \A t \in Tenants : Ledger!DistinctPaths(P!StatesOf(pages, t))

(* The ids tenant t ever had, and those an open transaction of t holds. *)
Had(t, i) == \E n \in DOMAIN read[t] : read[t][n][i] # Absent
Writes(t, i) == \E w \in Writers : tx[w] # NoTx /\ tx[w].tenant = t /\ tx[w].rows[i] # Absent
Owns(t, i) == Had(t, i) \/ Writes(t, i)

(* An id has one owner for ever, and none before the sequence gave it out. *)
Owners ==
  \A t \in Tenants, i \in P!ID : Owns(t, i) =>
    /\ i <= nextID
    /\ \A u \in Tenants : Owns(u, i) => u = t

(* Versions of page i against all that tenant t ever had. *)
UpTo(t, i, v) == \A n \in DOMAIN read[t] : read[t][n][i] # Absent => read[t][n][i].version <= v
Newer(t, i, v) == \A n \in DOMAIN read[t] : read[t][n][i] # Absent => read[t][n][i].version < v

Updates(todo, i) == \E o \in todo : o.kind = "update" /\ o.id = i

(* What a statement that x has still to run may rely on. *)
StatementOK(x, s) ==
  /\ s.kind = "create" => s.id = 0 /\ s.version = P!FirstVersion /\ s.content \in P!Content
  /\ s.kind # "create" => s.id \in P!ID /\ Had(x.tenant, s.id)
  /\ s.kind \in {"update", "restore"} => s.content \in P!Content
  /\ s.kind \in {"update", "restore", "stage"} => s.version # 0
  /\ s.kind = "stage" => s.content \in RowContent /\ Updates(x.todo, s.id)
  /\ s.kind = "delete" => x.before[s.id] # Absent
  /\ s.kind = "restore" => Newer(x.tenant, s.id, s.version)

(* A row is what it was, or new, or about to be: never behind, and staged  *)
(* only while its update is still to come.                                 *)
RowOK(x, i) ==
  x.rows[i] # Absent =>
    /\ UpTo(x.tenant, i, x.rows[i].version)
    /\ \/ x.rows[i] = x.before[i]
       \/ x.rows[i] \in P!State /\ Newer(x.tenant, i, x.rows[i].version)
       \/ Updates(x.todo, i)

(* A single write has its one statement before it or the one row behind it. *)
OneWrite(x) ==
  \/ x.rows = x.before /\ \E s \in x.todo : x.todo = {s}
  \/ x.todo = {} /\ \A i \in P!ID \ {x.last} : x.rows[i] = x.before[i]

HasEffect(x) == x.rows # x.before \/ \E s \in x.todo : s.kind # "stage"

TransactionOK(x) ==
  /\ x.before = P!StatesOf(pages, x.tenant)
  /\ x.revision = revisions[x.tenant]
  /\ \A s \in x.todo : StatementOK(x, s)
  /\ \A i \in P!ID : RowOK(x, i)
  /\ Ledger!DistinctPaths(x.rows)
  /\ HasEffect(x)
  /\ ~IsBatch(x) => OneWrite(x)

TransactionsOK == \A w \in Writers : tx[w] # NoTx => TransactionOK(tx[w])

(* The lock: a tenant has one open transaction at most. *)
Exclusive ==
  \A v, w \in Writers : tx[v] # NoTx /\ tx[w] # NoTx /\ tx[v].tenant = tx[w].tenant => v = w

(* The events follow each other from the marker on, up to some revision. *)
HistoryOf(t) ==
  /\ \E n \in start[t]..revisions[t] : Revisions(history[t]) = start[t] + 1 .. n
  /\ \A e, f \in history[t] : e.revision = f.revision => e = f
  /\ ~adopted => history[t] = {}

Exact(t, e) ==
  /\ e.before = P!Changed(read[t][e.revision], read[t][e.revision + 1])
  /\ e.after = P!Changed(read[t][e.revision + 1], read[t][e.revision])

HistoryOK == \A t \in Tenants : HistoryOf(t) /\ \A e \in history[t] : Exact(t, e)

ReceiptsOK == ReceiptsAreReal /\ \A r \in receipts : r.afterRevision <= revisions[r.scope]

IInv ==
  /\ TypeOK
  /\ ReadIsCurrent
  /\ Ascending
  /\ PagesDiffer
  /\ Owners
  /\ TransactionsOK
  /\ Exclusive
  /\ HistoryOK
  /\ ReceiptsOK

--------------------------------------------------------------------------------
(* What the statements of a batch that are still to run come to. *)

(* Page i is at path p when x has run. *)
Ends(x, i, p) ==
  \/ /\ x.rows[i] # Absent
     /\ x.rows[i].content.path = p
     /\ \A s \in x.todo : s.id = i => s.kind = "stage"
  \/ \E s \in x.todo : s.id = i /\ s.kind \in {"update", "restore"} /\ s.content.path = p

(* One change at most is left for a page. *)
OneChange(x) ==
  \A s, o \in x.todo :
    s.id = o.id /\ s.kind \notin {"create", "stage"} /\ o.kind \notin {"create", "stage"} => s = o

(* Each statement finds its row, and no two pages end at one path. *)
RowsFound(x) == \A s \in x.todo : Found(x.rows, s)

EndsDiffer(x) ==
  /\ \A i, j \in P!ID, p \in Paths : Ends(x, i, p) /\ Ends(x, j, p) => i = j
  /\ \A s \in x.todo : s.kind = "create" =>
       /\ \A i \in P!ID : ~Ends(x, i, s.content.path)
       /\ \A o \in x.todo : o.kind = "create" /\ o.content.path = s.content.path => o = s

(* Until its update runs a row is at the path it will have, or staged, or  *)
(* to be staged first.                                                     *)
RowsStaged(x) ==
  /\ \A i \in P!ID : x.rows[i] # Absent => x.rows[i].content.path \in Paths \union {StagedPath(i)}
  /\ \A s \in x.todo : s.kind = "stage" => s.content.path = StagedPath(s.id)
  /\ \A s \in x.todo : s.kind = "update" =>
       \/ x.rows[s.id].content.path \in {s.content.path, StagedPath(s.id)}
       \/ \E o \in x.todo : o.kind = "stage" /\ o.id = s.id

BatchOK(x) == OneChange(x) /\ RowsFound(x) /\ EndsDiffer(x) /\ RowsStaged(x)

BatchesOK == \A w \in Writers : tx[w] # NoTx /\ IsBatch(tx[w]) => BatchOK(tx[w])

--------------------------------------------------------------------------------
(* Types. *)

LEMMA StatesOfType ==
  ASSUME NEW ps \in P!PageSets(P!Page), NEW t
  PROVE  P!StatesOf(ps, t) \in P!PageSets(P!State)
BY DEF P!PageSets, P!StatesOf, P!PageState, P!Page, P!State

LEMMA ChangedType ==
  ASSUME NEW old \in P!PageSets(P!State), NEW new \in P!PageSets(P!State)
  PROVE  P!Changed(old, new) \in P!PageSets(P!State)
BY DEF P!PageSets, P!Changed

LEMMA OnlyType ==
  ASSUME NEW s \in P!PageSets(P!State), NEW i
  PROVE  P!Only(i, s[i]) \in P!PageSets(P!State)
BY DEF P!PageSets, P!Only, P!NoPages

LEMMA NoPagesType == ASSUME NEW S PROVE P!NoPages \in P!PageSets(S)
BY DEF P!NoPages, P!PageSets

(* A state is a row, and no row or page is Absent. *)
LEMMA StateFacts ==
  /\ P!Content \subseteq RowContent /\ P!State \subseteq Row
  /\ Absent \notin RowContent /\ Absent \notin Row /\ Absent \notin P!Page
  /\ P!PageSets(P!State) \subseteq P!PageSets(Row)
<1>1. P!Content \subseteq RowContent
  BY DEF P!Content, RowContent
<1>2. P!State \subseteq Row
  BY <1>1 DEF P!State, Row
<1>3. P!PageSets(P!State) \subseteq P!PageSets(Row)
  BY <1>2 DEF P!PageSets
<1> QED BY <1>1, <1>2, <1>3, AbsentAssumption

(* The state a tenant reads of its pages, page by page. *)
LEMMA StatesOfOwn ==
  ASSUME NEW ps \in P!PageSets(P!Page), NEW t, NEW i \in P!ID, ps[i] # Absent, ps[i].tenant = t
  PROVE  /\ P!StatesOf(ps, t)[i] = [version |-> ps[i].version, content |-> ps[i].content]
         /\ P!StatesOf(ps, t)[i] # Absent
<1>1. ps[i] \in P!Page
  BY DEF P!PageSets
<1>2. P!StatesOf(ps, t)[i] = [version |-> ps[i].version, content |-> ps[i].content]
  BY DEF P!StatesOf, P!PageState
<1>3. [version |-> ps[i].version, content |-> ps[i].content] \in P!State
  BY <1>1 DEF P!Page, P!State
<1> QED BY <1>2, <1>3, StateFacts

LEMMA StatesOfOther ==
  ASSUME NEW ps \in P!PageSets(P!Page), NEW t, NEW i \in P!ID, P!StatesOf(ps, t)[i] # Absent
  PROVE  /\ ps[i] # Absent /\ ps[i].tenant = t
         /\ P!StatesOf(ps, t)[i] = [version |-> ps[i].version, content |-> ps[i].content]
BY DEF P!StatesOf, P!PageState

LEMMA TransactionType ==
  ASSUME TypeOK, NEW w \in Writers, tx[w] # NoTx
  PROVE  /\ tx[w] \in Transaction
         /\ tx[w].tenant \in Tenants
         /\ tx[w].before \in P!PageSets(P!State)
         /\ tx[w].rows \in P!PageSets(Row)
         /\ tx[w].todo \in SUBSET Statements
<1>1. tx[w] \in Transaction
  BY DEF TypeOK
<1> QED BY <1>1 DEF Transaction

LEMMA ReadType ==
  ASSUME TypeOK, ReadIsCurrent, NEW t \in Tenants
  PROVE  /\ read[t] \in Seq(P!PageSets(P!State))
         /\ DOMAIN read[t] = 1..(revisions[t] + 1)
         /\ revisions[t] \in Nat
         /\ revisions[t] + 1 \in DOMAIN read[t]
         /\ \A n \in DOMAIN read[t] : read[t][n] \in P!PageSets(P!State)
         /\ read[t][revisions[t] + 1] = P!StatesOf(pages, t)
<1>1. read[t] \in Seq(P!PageSets(P!State)) /\ revisions[t] \in 0..MaxRevision
  BY DEF TypeOK
<1>2. revisions[t] \in Nat /\ Len(read[t]) = revisions[t] + 1 /\ read[t][revisions[t] + 1] = P!StatesOf(pages, t)
  BY <1>1, BoundsAssumption DEF ReadIsCurrent
<1> QED BY <1>1, <1>2

LEMMA ReadPageType ==
  ASSUME TypeOK, ReadIsCurrent, NEW t \in Tenants, NEW n \in DOMAIN read[t], NEW i \in P!ID, read[t][n][i] # Absent
  PROVE  read[t][n][i] \in P!State /\ read[t][n][i].version \in Nat
<1>1. read[t][n] \in P!PageSets(P!State)
  BY ReadType
<1> QED BY <1>1 DEF P!PageSets, P!State

(* A page the tenant has now is in its newest version. *)
LEMMA CurrentIsNewest ==
  ASSUME TypeOK, ReadIsCurrent, Ascending, NEW t \in Tenants, NEW i \in P!ID,
         P!StatesOf(pages, t)[i] # Absent
  PROVE  /\ Had(t, i)
         /\ UpTo(t, i, P!StatesOf(pages, t)[i].version)
         /\ P!StatesOf(pages, t)[i] \in P!State
<1>1. /\ revisions[t] + 1 \in DOMAIN read[t] /\ read[t][revisions[t] + 1] = P!StatesOf(pages, t)
      /\ \A n \in DOMAIN read[t] : n <= revisions[t] + 1
  BY ReadType
<1>2. Had(t, i)
  BY <1>1 DEF Had
<1>3. UpTo(t, i, P!StatesOf(pages, t)[i].version)
  BY <1>1 DEF UpTo, Ascending
<1>4. P!StatesOf(pages, t)[i] \in P!State
  BY <1>1, ReadPageType
<1> QED BY <1>2, <1>3, <1>4

(* A transaction is as good as it was while its tenant's state is the same. *)
LEMMA TransactionStays ==
  ASSUME NEW x, TransactionOK(x),
         read'[x.tenant] = read[x.tenant], revisions'[x.tenant] = revisions[x.tenant],
         P!StatesOf(pages', x.tenant) = P!StatesOf(pages, x.tenant)
  PROVE  TransactionOK(x)'
<1> DEFINE t == x.tenant
<1>1. \A i, v : (UpTo(t, i, v)' <=> UpTo(t, i, v)) /\ (Newer(t, i, v)' <=> Newer(t, i, v)) /\ (Had(t, i)' <=> Had(t, i))
  BY DEF UpTo, Newer, Had
<1>2. \A s \in x.todo : StatementOK(x, s)'
  BY <1>1 DEF TransactionOK, StatementOK
<1>3. \A i \in P!ID : RowOK(x, i)'
  BY <1>1 DEF TransactionOK, RowOK
<1> QED BY <1>2, <1>3 DEF TransactionOK, HasEffect, OneWrite, IsBatch, Ledger!DistinctPaths

LEMMA OwnersStay ==
  ASSUME Owners, nextID \in Nat, nextID' \in Nat, nextID <= nextID',
         \A t \in Tenants, i \in P!ID : Owns(t, i)' => Owns(t, i)
  PROVE  Owners'
BY DEF Owners, P!ID

--------------------------------------------------------------------------------
(* The beginning of a transaction. *)

Begun(t, operation, statements) ==
  [tenant |-> t, operation |-> operation, revision |-> revisions[t],
   before |-> P!StatesOf(pages, t), rows |-> P!StatesOf(pages, t),
   todo |-> statements, last |-> 0]

LEMMA BegunType ==
  ASSUME TypeOK, NEW t \in Tenants, NEW operation \in P!Events, NEW statements \in SUBSET Statements
  PROVE  Begun(t, operation, statements) \in Transaction
<1>1. revisions[t] \in 0..MaxRevision /\ pages \in P!PageSets(P!Page)
  BY DEF TypeOK
<1>2. P!StatesOf(pages, t) \in P!PageSets(P!State) /\ P!StatesOf(pages, t) \in P!PageSets(Row)
  BY <1>1, StatesOfType, StateFacts
<1>3. 0 \in 0..MaxID
  BY BoundsAssumption
<1> QED BY <1>1, <1>2, <1>3 DEF Begun, Transaction

LEMMA BegunOK ==
  ASSUME IInv, NEW t \in Tenants, NEW operation \in P!Events, NEW statements \in SUBSET Statements,
         NEW x, x = Begun(t, operation, statements),
         \A s \in statements : StatementOK(x, s),
         \E s \in statements : s.kind # "stage",
         ~IsBatch(x) => \E s \in statements : statements = {s}
  PROVE  TransactionOK(x)
<1>1. /\ x.tenant = t /\ x.revision = revisions[t] /\ x.todo = statements
      /\ x.before = P!StatesOf(pages, t) /\ x.rows = P!StatesOf(pages, t)
  BY DEF Begun
<1>2. \A i \in P!ID : RowOK(x, i)
  BY <1>1, CurrentIsNewest DEF RowOK, IInv
<1>3. Ledger!DistinctPaths(x.rows)
  BY <1>1 DEF IInv, PagesDiffer
<1> QED BY <1>1, <1>2, <1>3 DEF TransactionOK, HasEffect, OneWrite

LEMMA BeginKeeps ==
  ASSUME IInv, NEW w \in Writers, NEW t \in Tenants, tx[w] = NoTx, Lock(t),
         NEW operation \in P!Events, NEW statements \in SUBSET Statements,
         Begin(w, t, operation, statements),
         TransactionOK(Begun(t, operation, statements))
  PROVE  IInv'
<1>1. PICK x \in Transaction : x = Begun(t, operation, statements)
  BY BegunType DEF IInv
<1>2. tx' = [tx EXCEPT ![w] = x]
  BY <1>1 DEF Begin, Begun
<1>3. /\ pages' = pages /\ nextID' = nextID /\ revisions' = revisions /\ adopted' = adopted
      /\ start' = start /\ history' = history /\ read' = read /\ receipts' = receipts
  BY DEF Begin
<1>4. x.tenant = t /\ x.rows = P!StatesOf(pages, t)
  BY <1>1 DEF Begun
<1>5. tx \in [Writers -> Transaction \union {NoTx}]
  BY DEF IInv, TypeOK
<1>6. tx'[w] = x /\ \A v \in Writers : v # w => tx'[v] = tx[v]
  BY <1>2, <1>5
<1>7. TypeOK'
  <2>1. tx' \in [Writers -> Transaction \union {NoTx}]
    BY <1>2, <1>5
  <2> QED BY <1>3, <2>1 DEF IInv, TypeOK
<1>8. ReadIsCurrent' /\ Ascending' /\ PagesDiffer' /\ HistoryOK' /\ ReceiptsOK'
  BY <1>3 DEF IInv, ReadIsCurrent, Ascending, PagesDiffer, HistoryOK, HistoryOf, Exact, ReceiptsOK, ReceiptsAreReal
<1>9. TransactionsOK'
  <2> SUFFICES ASSUME NEW v \in Writers, tx'[v] # NoTx PROVE TransactionOK(tx[v])'
    BY DEF TransactionsOK
  <2>1. PICK y : y = tx'[v]
    OBVIOUS
  <2>2. TransactionOK(y)
    BY <1>1, <1>6, <2>1 DEF IInv, TransactionsOK
  <2>3. TransactionOK(y)'
    BY <1>3, <2>2, TransactionStays
  <2> QED BY <2>1, <2>3
<1>10. Exclusive'
  <2>1. \A v \in Writers : tx[v] # NoTx => tx[v].tenant # t
    BY DEF Lock
  <2> QED BY <1>4, <1>6, <2>1 DEF IInv, Exclusive
<1>11. Owners'
  <2>1. ASSUME NEW u \in Tenants, NEW i \in P!ID, Owns(u, i)'
        PROVE  Owns(u, i)
    <3>1. CASE Had(u, i)'
      BY <1>3, <3>1 DEF Owns, Had
    <3>2. CASE Writes(u, i)'
      <4>1. PICK v \in Writers : tx'[v] # NoTx /\ tx'[v].tenant = u /\ tx'[v].rows[i] # Absent
        BY <3>2 DEF Writes
      <4>2. CASE v = w
        <5>1. u = t /\ P!StatesOf(pages, t)[i] # Absent
          BY <1>4, <1>6, <4>1, <4>2
        <5> QED BY <5>1, CurrentIsNewest DEF Owns, IInv
      <4>3. CASE v # w
        BY <1>6, <4>1, <4>3 DEF Owns, Writes
      <4> QED BY <4>2, <4>3
    <3> QED BY <2>1, <3>1, <3>2 DEF Owns
  <2>2. nextID \in Nat
    BY DEF IInv, TypeOK
  <2> QED BY <1>3, <2>1, <2>2, OwnersStay DEF IInv
<1> QED BY <1>7, <1>8, <1>9, <1>10, <1>11 DEF IInv

LEMMA StatementType ==
  ASSUME NEW kind \in DOMAIN Rank, NEW id \in 0..MaxID, NEW v \in Nat, NEW c \in RowContent \union {Absent}
  PROVE  /\ Statement(kind, id, v, c) \in Statements
         /\ Statement(kind, id, v, c).kind = kind
         /\ Statement(kind, id, v, c).id = id
         /\ Statement(kind, id, v, c).version = v
         /\ Statement(kind, id, v, c).content = c
BY DEF Statement, Statements

LEMMA Kinds == DOMAIN Rank = {"stage", "delete", "create", "update", "restore"}
BY DEF Rank

(* A single write begins with its one statement. *)
LEMMA SingleBegins ==
  ASSUME IInv, NEW w \in Writers, NEW t \in Tenants, tx[w] = NoTx, Lock(t),
         NEW operation \in P!Events, ~(operation \in {"batch.apply", "batch.rollback"}),
         NEW s \in Statements, s.kind # "stage",
         Begin(w, t, operation, {s}),
         StatementOK(Begun(t, operation, {s}), s)
  PROVE  IInv'
<1>1. PICK x : x = Begun(t, operation, {s})
  OBVIOUS
<1>2. x.operation = operation
  BY <1>1 DEF Begun
<1>3. {s} \in SUBSET Statements /\ \E o \in {s} : {s} = {o} /\ o.kind # "stage"
  OBVIOUS
<1>4. TransactionOK(x)
  BY <1>1, <1>3, BegunOK
<1> QED BY <1>1, <1>3, <1>4, BeginKeeps

LEMMA CreateKeeps ==
  ASSUME IInv, NEW w \in Writers, NEW t \in Tenants, tx[w] = NoTx, Lock(t), NEW c \in P!Content, Create(w, t, c)
  PROVE  IInv'
<1>1. PICK s \in Statements : /\ s = Statement("create", 0, P!FirstVersion, c)
                              /\ s.kind = "create" /\ s.id = 0 /\ s.version = P!FirstVersion /\ s.content = c
  <2>1. 0 \in 0..MaxID /\ P!FirstVersion \in Nat /\ c \in RowContent
    BY BoundsAssumption, StateFacts DEF P!FirstVersion
  <2> QED BY <2>1, Kinds, StatementType
<1>2. StatementOK(Begun(t, "create", {s}), s)
  BY <1>1 DEF StatementOK
<1> QED BY <1>1, <1>2, SingleBegins DEF Create, P!Events

LEMMA BelongsHad ==
  ASSUME IInv, NEW t \in Tenants, NEW i \in P!ID, P!BelongsTo(t, i)
  PROVE  P!StatesOf(pages, t)[i] # Absent /\ Had(t, i)
<1>1. P!StatesOf(pages, t)[i] # Absent
  <2>1. pages \in P!PageSets(P!Page)
    BY DEF IInv, TypeOK
  <2>2. pages[i] # Absent /\ pages[i].tenant = t
    BY DEF P!BelongsTo
  <2> QED BY <2>1, <2>2, StatesOfOwn
<1> QED BY <1>1, CurrentIsNewest DEF IInv

LEMMA UpdateKeeps ==
  ASSUME IInv, NEW w \in Writers, NEW t \in Tenants, tx[w] = NoTx, Lock(t),
         NEW i \in P!ID, NEW v \in Nat \ {0}, NEW c \in P!Content, Update(w, t, i, v, c)
  PROVE  IInv'
<1>1. PICK s \in Statements : /\ s = Statement("update", i, v, c)
                              /\ s.kind = "update" /\ s.id = i /\ s.version = v /\ s.content = c
  <2>1. i \in 0..MaxID /\ c \in RowContent
    BY StateFacts DEF P!ID
  <2> QED BY <2>1, Kinds, StatementType
<1>2. Had(t, i)
  BY BelongsHad DEF Update
<1>3. StatementOK(Begun(t, "update", {s}), s)
  BY <1>1, <1>2 DEF StatementOK, Begun
<1> QED BY <1>1, <1>3, SingleBegins DEF Update, P!Events

LEMMA DeleteKeeps ==
  ASSUME IInv, NEW w \in Writers, NEW t \in Tenants, tx[w] = NoTx, Lock(t),
         NEW i \in P!ID, NEW v \in Nat \ {0}, Delete(w, t, i, v)
  PROVE  IInv'
<1>1. PICK s \in Statements : /\ s = Statement("delete", i, v, Absent)
                              /\ s.kind = "delete" /\ s.id = i
  <2>1. i \in 0..MaxID
    BY DEF P!ID
  <2> QED BY <2>1, Kinds, StatementType
<1>2. Had(t, i) /\ P!StatesOf(pages, t)[i] # Absent
  BY BelongsHad DEF Delete
<1>3. StatementOK(Begun(t, "delete", {s}), s)
  BY <1>1, <1>2 DEF StatementOK, Begun
<1> QED BY <1>1, <1>3, SingleBegins DEF Delete, P!Events

--------------------------------------------------------------------------------
(* The beginning of a batch. *)

MutationOK(t, i, m) ==
  /\ m.kind \in {"none", "delete", "update", "restore"}
  /\ m.kind \in {"update", "restore"} => m.version \in Nat \ {0} /\ m.content \in P!Content
  /\ m.kind = "delete" => m.content = Absent
  /\ m.kind = "restore" => Had(t, i) /\ Newer(t, i, m.version)

(* What is known of every batch a caller can present. *)
Presentable(t, b) ==
  /\ \A i \in P!ID : MutationOK(t, i, b.targets[i])
  /\ b.creates \in Seq(P!Content)

(* A mutation of a page meets the page it is for, unless it restores it. *)
LEMMA CheckedMutation ==
  ASSUME IInv, NEW t \in Tenants, NEW b, NEW allowRestore, P!CheckPageBatch(t, b, allowRestore), NEW i \in P!ID,
         MutationOK(t, i, b.targets[i])
  PROVE  LET s == P!StatesOf(pages, t)[i]
             m == b.targets[i]
         IN /\ b.baseline = P!StatesOf(pages, t)
            /\ m.kind \in {"update", "delete"} =>
                 s # Absent /\ s \in P!State /\ m.version = s.version /\ m.version \in Nat \ {0} /\ Had(t, i)
            /\ m.kind = "restore" => s = Absent
<1>1. b.baseline = P!StatesOf(pages, t)
  BY DEF P!CheckPageBatch, P!BaselineMatches
<1>2. /\ b.targets[i].kind = "restore" => P!StatesOf(pages, t)[i] = Absent
      /\ b.targets[i].kind \in {"update", "delete"} =>
           P!StatesOf(pages, t)[i] # Absent /\ P!StatesOf(pages, t)[i].version = b.targets[i].version
  BY DEF P!CheckPageBatch
<1>3. P!StatesOf(pages, t)[i] # Absent => P!StatesOf(pages, t)[i] \in P!State /\ Had(t, i)
  BY CurrentIsNewest DEF IInv
<1> QED BY <1>1, <1>2, <1>3 DEF P!State

(* The three kinds of statements a batch consists of. *)
Moves(b, s) ==
  /\ s.kind = "stage" /\ s.id \in P!ID
  /\ b.targets[s.id].kind = "update"
  /\ b.targets[s.id].content.path # b.baseline[s.id].content.path
  /\ s = Statement("stage", s.id, b.targets[s.id].version, Staged(s.id, b.baseline[s.id].content))
  /\ s.version = b.targets[s.id].version
  /\ s.content = Staged(s.id, b.baseline[s.id].content)

Mutates(b, s) ==
  /\ s.kind = b.targets[s.id].kind /\ s.id \in P!ID
  /\ s.kind # "none"
  /\ s = Statement(b.targets[s.id].kind, s.id, b.targets[s.id].version, b.targets[s.id].content)
  /\ s.version = b.targets[s.id].version
  /\ s.content = b.targets[s.id].content

Creates(b, s) ==
  \E k \in DOMAIN b.creates :
    /\ s = Statement("create", 0, P!FirstVersion, b.creates[k])
    /\ s.kind = "create" /\ s.id = 0 /\ s.version = P!FirstVersion /\ s.content = b.creates[k]

LEMMA BatchStatementKinds ==
  ASSUME NEW b, NEW s
  PROVE  s \in BatchStatements(b) <=> Moves(b, s) \/ Mutates(b, s) \/ Creates(b, s)
<1>1. ASSUME NEW k, NEW i, NEW v, NEW c
      PROVE  /\ Statement(k, i, v, c).kind = k /\ Statement(k, i, v, c).id = i
             /\ Statement(k, i, v, c).version = v /\ Statement(k, i, v, c).content = c
  BY DEF Statement
<1>2. s \in MoveStatements(b) <=> Moves(b, s)
  BY <1>1 DEF MoveStatements, Moves
<1>3. s \in {Statement(b.targets[i].kind, i, b.targets[i].version, b.targets[i].content) :
               i \in {j \in P!ID : b.targets[j].kind # "none"}} <=> Mutates(b, s)
  BY <1>1 DEF Mutates
<1>4. s \in {Statement("create", 0, P!FirstVersion, b.creates[k]) : k \in DOMAIN b.creates} <=> Creates(b, s)
  BY <1>1 DEF Creates
<1> QED BY <1>2, <1>3, <1>4 DEF BatchStatements

(* The statements of a batch are statements, and may rely on what the      *)
(* check of the batch found.                                               *)
LEMMA BatchStatementsOK ==
  ASSUME IInv, NEW t \in Tenants, NEW b, NEW allowRestore, P!CheckPageBatch(t, b, allowRestore),
         Presentable(t, b), NEW operation \in P!Events
  PROVE  /\ BatchStatements(b) \in SUBSET Statements
         /\ \A s \in BatchStatements(b) : StatementOK(Begun(t, operation, BatchStatements(b)), s)
         /\ \E s \in BatchStatements(b) : s.kind # "stage"
<1>1. PICK x : x = Begun(t, operation, BatchStatements(b))
  OBVIOUS
<1>2. x.tenant = t /\ x.todo = BatchStatements(b) /\ x.before = P!StatesOf(pages, t)
  BY <1>1 DEF Begun
<1>3. ASSUME NEW s, Moves(b, s)
      PROVE  s \in Statements /\ StatementOK(x, s)
  <2> DEFINE i == s.id
             m == b.targets[i]
             p == P!StatesOf(pages, t)[i]
  <2>1. s.kind = "stage" /\ i \in P!ID /\ m.kind = "update" /\ MutationOK(t, i, m)
    BY <1>3 DEF Moves, Presentable
  <2>2. b.baseline = P!StatesOf(pages, t) /\ p # Absent /\ p \in P!State /\ m.version \in Nat \ {0} /\ Had(t, i)
    BY <2>1, CheckedMutation
  <2>3. p.content \in P!Content
    BY <2>2 DEF P!State
  <2>4. Staged(i, p.content) \in RowContent
    BY <2>1, <2>3 DEF Staged, RowContent, P!Content
  <2>5. s = Statement("stage", i, m.version, Staged(i, p.content))
        /\ s.version = m.version /\ s.content = Staged(i, p.content)
    BY <1>3, <2>2 DEF Moves
  <2>6. i \in 0..MaxID
    BY <2>1 DEF P!ID
  <2>7. s \in Statements
    BY <2>2, <2>4, <2>5, <2>6, Kinds, StatementType
  <2>8. Updates(x.todo, i)
    <3>1. PICK o : o = Statement(m.kind, i, m.version, m.content)
      OBVIOUS
    <3>2. o.kind = "update" /\ o.id = i /\ o.version = m.version /\ o.content = m.content
      BY <2>1, <3>1 DEF Statement
    <3>3. Mutates(b, o)
      BY <2>1, <3>1, <3>2 DEF Mutates
    <3> QED BY <1>2, <3>2, <3>3, BatchStatementKinds DEF Updates
  <2>9. StatementOK(x, s)
    BY <1>2, <2>1, <2>2, <2>4, <2>5, <2>8 DEF StatementOK
  <2> QED BY <2>7, <2>9
<1>4. ASSUME NEW s, Mutates(b, s)
      PROVE  s \in Statements /\ StatementOK(x, s)
  <2> DEFINE i == s.id
             m == b.targets[i]
  <2>1. /\ s.kind = m.kind /\ i \in P!ID /\ s.version = m.version /\ s.content = m.content
        /\ s = Statement(m.kind, i, m.version, m.content)
        /\ m.kind # "none"
    BY <1>4 DEF Mutates
  <2>2. MutationOK(t, i, m)
    BY <2>1 DEF Presentable
  <2>3. /\ m.kind \in {"update", "delete"} =>
             P!StatesOf(pages, t)[i] # Absent /\ m.version \in Nat \ {0} /\ Had(t, i)
        /\ m.kind \in {"update", "delete", "restore"}
        /\ m.kind \in {"update", "restore"} => m.version \in Nat \ {0} /\ m.content \in P!Content
        /\ m.kind = "delete" => m.content = Absent
        /\ m.kind = "restore" => Had(t, i) /\ Newer(t, i, m.version)
    BY <2>1, <2>2, CheckedMutation DEF MutationOK
  <2>4. s \in Statements
    <3>1. m.version \in Nat /\ m.content \in RowContent \union {Absent}
      BY <2>3, StateFacts
    <3>2. i \in 0..MaxID
      BY <2>1 DEF P!ID
    <3> QED BY <2>1, <2>3, <3>1, <3>2, Kinds, StatementType
  <2>5. StatementOK(x, s)
    BY <1>2, <2>1, <2>3 DEF StatementOK
  <2> QED BY <2>4, <2>5
<1>5. ASSUME NEW s, Creates(b, s)
      PROVE  s \in Statements /\ StatementOK(x, s)
  <2>1. PICK k \in DOMAIN b.creates :
          /\ s = Statement("create", 0, P!FirstVersion, b.creates[k])
          /\ s.kind = "create" /\ s.id = 0 /\ s.version = P!FirstVersion /\ s.content = b.creates[k]
    BY <1>5 DEF Creates
  <2>2. b.creates[k] \in P!Content /\ b.creates[k] \in RowContent
    BY StateFacts DEF Presentable
  <2>3. 0 \in 0..MaxID /\ P!FirstVersion \in Nat
    BY BoundsAssumption DEF P!FirstVersion
  <2>4. s \in Statements
    BY <2>1, <2>2, <2>3, Kinds, StatementType
  <2>5. StatementOK(x, s)
    BY <2>1, <2>2 DEF StatementOK
  <2> QED BY <2>4, <2>5
<1>6. \E s \in BatchStatements(b) : s.kind # "stage"
  <2>1. b.creates # << >> \/ \E i \in P!ID : b.targets[i].kind # "none"
    BY DEF P!CheckPageBatch
  <2>2. CASE b.creates # << >>
    <3>1. 1 \in DOMAIN b.creates
      BY <2>2 DEF Presentable
    <3>2. PICK s : s = Statement("create", 0, P!FirstVersion, b.creates[1])
      OBVIOUS
    <3>3. s.kind = "create" /\ s.id = 0 /\ s.version = P!FirstVersion /\ s.content = b.creates[1]
      BY <3>2 DEF Statement
    <3> QED BY <3>1, <3>2, <3>3, BatchStatementKinds DEF Creates
  <2>3. ASSUME NEW i \in P!ID, b.targets[i].kind # "none"
        PROVE  \E s \in BatchStatements(b) : s.kind # "stage"
    <3>1. PICK s : s = Statement(b.targets[i].kind, i, b.targets[i].version, b.targets[i].content)
      OBVIOUS
    <3>2. s.kind = b.targets[i].kind /\ s.id = i /\ s.version = b.targets[i].version /\ s.content = b.targets[i].content
      BY <3>1 DEF Statement
    <3>3. s.kind # "stage"
      BY <2>3, <3>2 DEF Presentable, MutationOK
    <3>4. Mutates(b, s)
      BY <2>3, <3>1, <3>2 DEF Mutates
    <3> QED BY <3>3, <3>4, BatchStatementKinds
  <2> QED BY <2>1, <2>2, <2>3
<1> QED BY <1>1, <1>3, <1>4, <1>5, <1>6, BatchStatementKinds

LEMMA BatchKeeps ==
  ASSUME IInv, NEW w \in Writers, NEW t \in Tenants, tx[w] = NoTx, Lock(t), NEW b, Presentable(t, b),
         NEW operation \in {"batch.apply", "batch.rollback"}, ApplyBatch(w, t, b, operation)
  PROVE  IInv'
<1>1. operation \in P!Events
  BY DEF P!Events
<1>2. P!CheckPageBatch(t, b, operation = "batch.rollback") /\ Begin(w, t, operation, BatchStatements(b))
  BY DEF ApplyBatch
<1>3. PICK x : x = Begun(t, operation, BatchStatements(b))
  OBVIOUS
<1>4. IsBatch(x)
  BY <1>3 DEF IsBatch, Begun
<1>5. TransactionOK(x)
  BY <1>1, <1>2, <1>3, <1>4, BatchStatementsOK, BegunOK
<1> QED BY <1>1, <1>2, <1>3, <1>5, BatchStatementsOK, BeginKeeps

(* The batches a caller can present: computed from what it read, or from a *)
(* receipt.                                                                *)
LEMMA ChosenIsPresentable ==
  ASSUME IInv, NEW t \in Tenants, NEW n \in 0..revisions[t],
         NEW targets \in P!TargetChoices(read[t][n + 1]), NEW creates \in P!CreateChoices
  PROVE  Presentable(t, P!BatchFor(t, n, targets, creates))
<1> DEFINE states == read[t][n + 1]
<1>0. n + 1 \in DOMAIN read[t]
  BY ReadType DEF IInv
<1>1. states \in P!PageSets(P!State)
  BY <1>0, ReadType DEF IInv
<1>2. PICK D \in SUBSET P!IDsOf(states) :
        \E f \in [D -> P!Content \union {Absent}] :
        targets = [i \in P!ID |-> IF i \in D THEN P!MutationTo(states[i], f[i]) ELSE P!Untouched]
  BY DEF P!TargetChoices
<1>3. PICK f \in [D -> P!Content \union {Absent}] :
        targets = [i \in P!ID |-> IF i \in D THEN P!MutationTo(states[i], f[i]) ELSE P!Untouched]
  BY <1>2
<1>4. ASSUME NEW i \in P!ID PROVE MutationOK(t, i, targets[i])
  <2> HIDE DEF states
  <2>1. CASE i \in D
    <3>1. states[i] \in P!State
      BY <1>1, <2>1 DEF P!IDsOf, P!PageSets
    <3>2. targets[i] = P!MutationTo(states[i], f[i])
      BY <1>3, <2>1
    <3> QED BY <2>1, <3>1, <3>2 DEF P!MutationTo, P!Mutation, MutationOK, P!State
  <2>2. CASE i \notin D
    BY <1>3, <2>2 DEF P!Untouched, P!Mutation, MutationOK
  <2> QED BY <2>1, <2>2
<1>5. creates \in Seq(P!Content)
  BY DEF P!CreateChoices
<1> QED BY <1>4, <1>5 DEF Presentable, P!BatchFor

LEMMA RollbackIsPresentable ==
  ASSUME IInv, NEW t \in Tenants, NEW r \in receipts,
         P!BaselineMatches(t, P!RollbackBatch(r))
  PROVE  Presentable(t, P!RollbackBatch(r))
<1>1. r \in P!Receipt /\ r.scope = t /\ r.afterRevision = revisions[t]
  BY DEF P!BaselineMatches, P!RollbackBatch, IInv, TypeOK
<1>2. /\ r.before \in P!PageSets(P!State) /\ r.after \in P!PageSets(P!State)
      /\ r.beforeRevision \in Nat /\ r.afterRevision \in Nat
  BY <1>1 DEF P!Receipt
<1>3. /\ r.afterRevision = r.beforeRevision + 1
      /\ r.before = read[t][r.afterRevision] /\ r.after = read[t][r.afterRevision + 1]
  BY <1>1 DEF IInv, ReceiptsOK, ReceiptsAreReal
<1>4. /\ r.afterRevision \in DOMAIN read[t] /\ r.afterRevision + 1 \in DOMAIN read[t]
      /\ \A n \in DOMAIN read[t] : n <= r.afterRevision \/ n = r.afterRevision + 1
  <2>1. DOMAIN read[t] = 1..(revisions[t] + 1)
    BY ReadType DEF IInv
  <2>2. PICK a \in Nat : a = r.afterRevision
    BY <1>2
  <2>3. PICK b \in Nat : b = r.beforeRevision
    BY <1>2
  <2>4. DOMAIN read[t] = 1..(a + 1) /\ a = b + 1
    BY <1>1, <1>3, <2>1, <2>2, <2>3
  <2>5. a \in 1..(a + 1) /\ a + 1 \in 1..(a + 1) /\ \A n \in 1..(a + 1) : n <= a \/ n = a + 1
    BY <2>2, <2>3, <2>4
  <2> QED BY <2>2, <2>4, <2>5
<1>5. ASSUME NEW i \in P!ID
      PROVE  MutationOK(t, i, P!RollbackMutation(r.before[i], r.after[i]))
  <2> DEFINE old == r.before[i]
             new == r.after[i]
  <2>0. PICK m : m = P!RollbackMutation(old, new)
    OBVIOUS
  <2>1. old \in P!State \union {Absent} /\ new \in P!State \union {Absent}
    BY <1>2 DEF P!PageSets
  <2>2. CASE old # Absent /\ new = Absent
    <3>1. m.kind = "restore" /\ m.version = old.version + 1 /\ m.content = old.content
      BY <2>0, <2>2 DEF P!RollbackMutation, P!Mutation, P!RestoredVersion
    <3>2. old.version \in Nat /\ old.content \in P!Content
      BY <2>1, <2>2 DEF P!State
    <3>3. Had(t, i)
      BY <1>3, <1>4, <2>2 DEF Had
    <3>4. Newer(t, i, m.version)
      <4> SUFFICES ASSUME NEW n \in DOMAIN read[t], read[t][n][i] # Absent
                   PROVE  read[t][n][i].version < m.version
        BY DEF Newer
      <4>1. n <= r.afterRevision
        BY <1>3, <1>4, <2>2
      <4>2. read[t][n][i].version <= old.version
        BY <1>3, <1>4, <2>2, <4>1 DEF IInv, Ascending
      <4>3. read[t][n][i].version \in Nat
        BY ReadPageType DEF IInv
      <4> HIDE DEF old
      <4> QED BY <3>1, <3>2, <4>2, <4>3
    <3>5. m.version \in Nat \ {0}
      BY <3>1, <3>2
    <3>6. MutationOK(t, i, m)
      BY <3>1, <3>2, <3>3, <3>4, <3>5 DEF MutationOK
    <3> QED BY <2>0, <3>6
  <2>3. CASE ~(old # Absent /\ new = Absent)
    BY <2>1, <2>3 DEF P!RollbackMutation, P!Mutation, P!Untouched, MutationOK, P!State
  <2> QED BY <2>2, <2>3
<1> QED BY <1>5 DEF Presentable, P!RollbackBatch

LEMMA BeginWriteKeeps ==
  ASSUME IInv, NEW w \in Writers, NEW t \in Tenants, BeginWrite(w, t)
  PROVE  IInv'
<1>1. tx[w] = NoTx /\ Lock(t)
  BY DEF BeginWrite
<1>2. ASSUME NEW c \in P!Content, Create(w, t, c) PROVE IInv'
  BY <1>1, <1>2, CreateKeeps
<1>3. ASSUME NEW h \in P!Held PROVE h[1] \in P!ID /\ h[2] \in Nat \ {0}
  BY DEF P!Held
<1>4. ASSUME NEW h \in P!Held, NEW c \in P!Content, Update(w, t, h[1], h[2], c) PROVE IInv'
  BY <1>1, <1>3, <1>4, UpdateKeeps
<1>5. ASSUME NEW h \in P!Held, Delete(w, t, h[1], h[2]) PROVE IInv'
  BY <1>1, <1>3, <1>5, DeleteKeeps
<1>6. ASSUME NEW n \in 0..revisions[t], NEW targets \in P!TargetChoices(read[t][n + 1]),
             NEW creates \in P!CreateChoices, ApplyPageBatch(w, t, n, targets, creates)
      PROVE  IInv'
  BY <1>1, <1>6, ChosenIsPresentable, BatchKeeps DEF ApplyPageBatch
<1>7. ASSUME NEW r \in receipts, RollbackPageBatch(w, t, r) PROVE IInv'
  <2>1. ApplyBatch(w, t, P!RollbackBatch(r), "batch.rollback")
    BY <1>7 DEF RollbackPageBatch
  <2>2. P!BaselineMatches(t, P!RollbackBatch(r))
    BY <2>1 DEF ApplyBatch, P!CheckPageBatch
  <2> QED BY <1>1, <2>1, <2>2, RollbackIsPresentable, BatchKeeps
<1> QED BY <1>2, <1>4, <1>5, <1>6, <1>7 DEF BeginWrite

--------------------------------------------------------------------------------
(* A statement. *)

(* y is x after the statement s wrote row id. *)
After(x, s, id, y) ==
  /\ y.tenant = x.tenant /\ y.operation = x.operation
  /\ y.revision = x.revision /\ y.before = x.before
  /\ y.rows = [x.rows EXCEPT ![id] = RowAfter(s)]
  /\ y.todo = x.todo \ {s}
  /\ y.last = id

LEMMA StatementParts ==
  ASSUME NEW s \in Statements
  PROVE  /\ s.kind \in {"stage", "delete", "create", "update", "restore"}
         /\ s.id \in Nat /\ s.version \in Nat
         /\ s.content \in RowContent \union {Absent}
BY Kinds, BoundsAssumption DEF Statements

(* The row a statement leaves, kind by kind. *)
LEMMA RowAfterIs ==
  ASSUME NEW x, NEW s \in Statements, StatementOK(x, s)
  PROVE  /\ RowAfter(s) \in Row \union {Absent}
         /\ s.kind = "delete" => RowAfter(s) = Absent
         /\ s.kind # "delete" => RowAfter(s) \in Row /\ RowAfter(s) # Absent /\ RowAfter(s).content = s.content
         /\ s.kind = "update" => RowAfter(s) \in P!State /\ RowAfter(s).version = s.version + 1
         /\ s.kind \in {"create", "restore"} => RowAfter(s) \in P!State /\ RowAfter(s).version = s.version
         /\ s.kind = "stage" => RowAfter(s).version = s.version
<1>1. /\ s.kind \in {"stage", "delete", "create", "update", "restore"}
      /\ s.version \in Nat
  BY StatementParts
<1>2. CASE s.kind = "delete"
  BY <1>2 DEF RowAfter
<1>3. CASE s.kind = "update"
  <2>1. s.content \in P!Content
    BY <1>3 DEF StatementOK
  <2>2. RowAfter(s) = [version |-> s.version + 1, content |-> s.content]
    BY <1>3 DEF RowAfter, P!PageState, P!NextVersion
  <2>3. RowAfter(s) \in P!State
    BY <1>1, <2>1, <2>2 DEF P!State
  <2> QED BY <1>3, <2>2, <2>3, StateFacts
<1>4. CASE s.kind \in {"create", "restore"}
  <2>1. s.content \in P!Content /\ s.version \in Nat \ {0}
    BY <1>1, <1>4 DEF StatementOK, P!FirstVersion
  <2>2. RowAfter(s) = [version |-> s.version, content |-> s.content]
    BY <1>4 DEF RowAfter, P!PageState
  <2>3. RowAfter(s) \in P!State
    BY <2>1, <2>2 DEF P!State
  <2> QED BY <1>4, <2>2, <2>3, StateFacts
<1>5. CASE s.kind = "stage"
  <2>1. s.content \in RowContent /\ s.version \in Nat \ {0}
    BY <1>1, <1>5 DEF StatementOK
  <2>2. RowAfter(s) = [version |-> s.version, content |-> s.content]
    BY <1>5 DEF RowAfter, P!PageState
  <2>3. RowAfter(s) \in Row
    BY <2>1, <2>2 DEF Row
  <2> QED BY <1>5, <2>2, <2>3, StateFacts
<1> QED BY <1>1, <1>2, <1>3, <1>4, <1>5

LEMMA ExecuteIs ==
  ASSUME TypeOK, NEW w \in Writers, tx[w] # NoTx, NEW s \in tx[w].todo, StatementOK(tx[w], s), Execute(w, s)
  PROVE  \E id \in P!ID : \E y \in Transaction :
           /\ id = IF s.kind = "create" THEN nextID + 1 ELSE s.id
           /\ nextID' = IF s.kind = "create" THEN id ELSE nextID
           /\ tx' = [tx EXCEPT ![w] = y]
           /\ After(tx[w], s, id, y)
<1>1. PICK id \in P!ID : id = IF s.kind = "create" THEN nextID + 1 ELSE s.id
  BY DEF Execute
<1>2. tx' = [tx EXCEPT ![w].rows[id] = RowAfter(s), ![w].todo = @ \ {s}, ![w].last = id]
      /\ nextID' = IF s.kind = "create" THEN id ELSE nextID
  BY <1>1 DEF Execute
<1>3. PICK x \in Transaction : x = tx[w]
  BY TransactionType
<1>4. PICK y : y = [x EXCEPT !.rows = [x.rows EXCEPT ![id] = RowAfter(s)], !.todo = x.todo \ {s}, !.last = id]
  OBVIOUS
<1>5. tx \in [Writers -> Transaction \union {NoTx}]
  BY DEF TypeOK
<1>6. tx' = [tx EXCEPT ![w] = y]
  BY <1>2, <1>3, <1>4, <1>5 DEF Transaction
<1>7. After(x, s, id, y)
  BY <1>3, <1>4 DEF Transaction, After
<1>8. y \in Transaction
  <2>1. s \in Statements
    BY TransactionType
  <2>2. RowAfter(s) \in Row \union {Absent}
    BY <2>1, RowAfterIs
  <2>3. [x.rows EXCEPT ![id] = RowAfter(s)] \in P!PageSets(Row)
    BY <1>3, <2>2 DEF Transaction, P!PageSets
  <2>4. id \in 0..MaxID /\ x.todo \ {s} \in SUBSET Statements
    BY <1>3 DEF P!ID, Transaction
  <2> HIDE DEF RowAfter
  <2> QED BY <1>4, <2>3, <2>4 DEF Transaction
<1> QED BY <1>1, <1>2, <1>3, <1>6, <1>7, <1>8

(* A statement that succeeds keeps what is known of its transaction. *)
LEMMA StatementKeeps ==
  ASSUME TypeOK, ReadIsCurrent, NEW x \in Transaction, TransactionOK(x), NEW s \in x.todo,
         s \in Ready(x), Succeeds(x.rows, s),
         NEW id \in P!ID, s.kind # "create" => id = s.id, s.kind = "create" => ~Had(x.tenant, id),
         NEW y \in Transaction, After(x, s, id, y)
  PROVE  TransactionOK(y)
<1> DEFINE t == x.tenant
<1>0. /\ t \in Tenants /\ s \in Statements /\ StatementOK(x, s)
      /\ x.rows \in P!PageSets(Row) /\ x.before \in P!PageSets(P!State)
  BY DEF Transaction, TransactionOK
<1>1. /\ y.tenant = t /\ y.before = x.before /\ y.todo = x.todo \ {s} /\ y.revision = x.revision
      /\ y.operation = x.operation /\ y.last = id
      /\ y.rows[id] = RowAfter(s) /\ \A i \in P!ID : i # id => y.rows[i] = x.rows[i]
  BY <1>0 DEF After, P!PageSets
<1>2. s.kind \in {"stage", "delete", "create", "update", "restore"} /\ s.version \in Nat
  BY <1>0, StatementParts
<1>3. \A i : Updates(x.todo, i) => Updates(y.todo, i) \/ (s.kind = "update" /\ s.id = i)
  BY <1>1 DEF Updates
<1>4. s.kind = "update" => \A o \in x.todo : o.kind # "stage"
  <2>1. \A o \in x.todo : Rank[s.kind] <= Rank[o.kind]
    BY DEF Ready
  <2> QED BY <2>1 DEF Rank
<1>5. \A o \in y.todo : StatementOK(y, o)
  <2> SUFFICES ASSUME NEW o \in y.todo PROVE StatementOK(y, o)
    OBVIOUS
  <2>1. StatementOK(x, o) /\ o \in x.todo
    BY <1>1 DEF TransactionOK
  <2>2. o.kind = "stage" => Updates(y.todo, o.id)
    BY <1>3, <1>4, <2>1 DEF StatementOK
  <2> QED BY <1>1, <2>1, <2>2 DEF StatementOK
<1>6. s.kind \notin {"create", "restore"} => x.rows[s.id] # Absent /\ x.rows[s.id].version = s.version
  BY <1>2 DEF Succeeds, Found
<1>7. s.kind # "create" /\ x.rows[id] # Absent => UpTo(t, id, x.rows[id].version)
  BY DEF TransactionOK, RowOK
<1>8. /\ s.kind \in {"create", "update", "restore"} =>
           /\ RowAfter(s) \in P!State /\ Newer(t, id, RowAfter(s).version)
      /\ s.kind = "stage" => UpTo(t, id, RowAfter(s).version)
  <2>1. CASE s.kind = "create"
    <3>1. \A v : Newer(t, id, v)
      BY <2>1 DEF Had, Newer
    <3> QED BY <1>0, <2>1, <3>1, RowAfterIs
  <2>2. CASE s.kind = "update"
    <3>1. UpTo(t, id, s.version)
      BY <1>6, <1>7, <2>2
    <3>2. Newer(t, id, s.version + 1)
      BY <1>0, <1>2, <3>1, ReadPageType DEF UpTo, Newer
    <3> QED BY <1>0, <2>2, <3>2, RowAfterIs
  <2>3. CASE s.kind = "restore"
    <3>1. Newer(t, id, s.version)
      BY <1>0, <2>3 DEF StatementOK
    <3> QED BY <1>0, <2>3, <3>1, RowAfterIs
  <2>4. CASE s.kind = "stage"
    <3>1. UpTo(t, id, s.version)
      BY <1>6, <1>7, <2>4
    <3> QED BY <1>0, <2>4, <3>1, RowAfterIs
  <2>5. CASE s.kind = "delete"
    BY <2>5
  <2> QED BY <1>2, <2>1, <2>2, <2>3, <2>4, <2>5
<1>9. \A i \in P!ID : RowOK(y, i)
  <2>1. ASSUME NEW i \in P!ID, i # id PROVE RowOK(y, i)
    <3>1. RowOK(x, i)
      BY DEF TransactionOK
    <3>2. Updates(x.todo, i) => Updates(y.todo, i)
      BY <1>3, <2>1
    <3> QED BY <1>1, <2>1, <3>1, <3>2 DEF RowOK
  <2>2. RowOK(y, id)
    <3>1. CASE s.kind = "delete"
      BY <1>0, <1>1, <3>1, RowAfterIs DEF RowOK
    <3>2. CASE s.kind \in {"create", "update", "restore"}
      <4>1. UpTo(t, id, RowAfter(s).version)
        <5>1. RowAfter(s).version \in Nat /\ Newer(t, id, RowAfter(s).version)
          BY <1>8, <3>2 DEF P!State
        <5> QED BY <1>0, <5>1, ReadPageType DEF UpTo, Newer
      <4> QED BY <1>1, <1>8, <3>2, <4>1 DEF RowOK
    <3>3. CASE s.kind = "stage"
      <4>1. Updates(y.todo, id)
        BY <1>0, <1>3, <3>3 DEF StatementOK
      <4> QED BY <1>1, <1>8, <3>3, <4>1 DEF RowOK
    <3> QED BY <1>2, <3>1, <3>2, <3>3
  <2> QED BY <2>1, <2>2
<1>10. Ledger!DistinctPaths(y.rows)
  <2>1. ASSUME NEW i \in P!ID, i # id, x.rows[i] # Absent, RowAfter(s) # Absent
        PROVE  x.rows[i].content.path # RowAfter(s).content.path
    <3>1. s.kind # "delete" /\ RowAfter(s).content = s.content
      BY <1>0, <2>1, RowAfterIs
    <3>2. i # s.id
      BY <1>0, <2>1 DEF StatementOK, P!ID
    <3> QED BY <2>1, <3>1, <3>2 DEF Succeeds, PathFree, P!IDsOf
  <2>2. \A i, j \in P!ID : x.rows[i] # Absent /\ x.rows[j] # Absent
                            /\ x.rows[i].content.path = x.rows[j].content.path => i = j
    BY DEF TransactionOK, Ledger!DistinctPaths
  <2> QED BY <1>1, <2>1, <2>2 DEF Ledger!DistinctPaths
<1>11. HasEffect(y)
  <2>1. CASE s.kind = "stage"
    <3>1. PICK o \in x.todo : o.kind = "update" /\ o.id = s.id
      BY <1>0, <2>1 DEF StatementOK, Updates
    <3> QED BY <1>1, <2>1, <3>1 DEF HasEffect
  <2>2. CASE s.kind = "delete"
    <3>1. x.before[id] # Absent /\ RowAfter(s) = Absent
      BY <1>0, <2>2, RowAfterIs DEF StatementOK
    <3> QED BY <1>1, <3>1 DEF HasEffect
  <2>3. CASE s.kind \in {"create", "update", "restore"}
    <3>1. RowAfter(s) # x.before[id]
      <4> SUFFICES ASSUME RowAfter(s) = x.before[id] PROVE FALSE
        OBVIOUS
      <4>1. RowAfter(s) # Absent /\ Newer(t, id, RowAfter(s).version) /\ RowAfter(s).version \in Nat
        BY <1>0, <1>8, <2>3, RowAfterIs DEF P!State
      <4>2. revisions[t] + 1 \in DOMAIN read[t] /\ read[t][revisions[t] + 1] = x.before
        BY <1>0, ReadType DEF TransactionOK
      <4> QED BY <4>1, <4>2 DEF Newer
    <3> QED BY <1>1, <3>1 DEF HasEffect
  <2> QED BY <1>2, <2>1, <2>2, <2>3
<1>12. ~IsBatch(y) => OneWrite(y)
  BY <1>1 DEF IsBatch, OneWrite, TransactionOK
<1> QED BY <1>1, <1>5, <1>9, <1>10, <1>11, <1>12 DEF TransactionOK

(* An id the sequence gives out was nobody's. *)
LEMMA NewIDIsFresh ==
  ASSUME Owners, TypeOK, NEW t \in Tenants, NEW i \in P!ID, i > nextID
  PROVE  ~Owns(t, i)
BY DEF Owners, TypeOK, P!ID

LEMMA ExecuteKeeps ==
  ASSUME IInv, NEW w \in Writers, tx[w] # NoTx, NEW s \in tx[w].todo, Execute(w, s)
  PROVE  IInv'
<1>1. PICK x \in Transaction : x = tx[w]
  BY TransactionType DEF IInv
<1>2. TransactionOK(x) /\ x.tenant \in Tenants /\ s \in Statements /\ StatementOK(x, s)
  BY <1>1 DEF IInv, TransactionsOK, TransactionOK, Transaction
<1>3. PICK id \in P!ID, y \in Transaction :
        /\ id = IF s.kind = "create" THEN nextID + 1 ELSE s.id
        /\ nextID' = IF s.kind = "create" THEN id ELSE nextID
        /\ tx' = [tx EXCEPT ![w] = y]
        /\ After(x, s, id, y)
  BY <1>1, <1>2, ExecuteIs DEF IInv
<1>4. s \in Ready(x) /\ Succeeds(x.rows, s)
  BY <1>1 DEF Execute
<1>5. /\ pages' = pages /\ revisions' = revisions /\ adopted' = adopted
      /\ start' = start /\ history' = history /\ read' = read /\ receipts' = receipts
  BY DEF Execute
<1>6. nextID \in Nat /\ nextID' \in 0..MaxID /\ nextID <= nextID' /\ (s.kind = "create" => id > nextID /\ nextID' = id)
  <2>1. nextID \in 0..MaxID
    BY DEF IInv, TypeOK
  <2> QED BY <1>3, <2>1, BoundsAssumption DEF P!ID
<1>7. tx \in [Writers -> Transaction \union {NoTx}]
  BY DEF IInv, TypeOK
<1>8. tx'[w] = y /\ \A v \in Writers : v # w => tx'[v] = tx[v]
  BY <1>3, <1>7
<1>9. TypeOK'
  <2>1. tx' \in [Writers -> Transaction \union {NoTx}]
    BY <1>3, <1>7
  <2> QED BY <1>5, <1>6, <2>1 DEF IInv, TypeOK
<1>10. ReadIsCurrent' /\ Ascending' /\ PagesDiffer' /\ HistoryOK' /\ ReceiptsOK'
  BY <1>5 DEF IInv, ReadIsCurrent, Ascending, PagesDiffer, HistoryOK, HistoryOf, Exact, ReceiptsOK, ReceiptsAreReal
<1>11. TransactionOK(y)
  <2>1. s.kind = "create" => ~Had(x.tenant, id)
    BY <1>2, <1>6, NewIDIsFresh DEF IInv, Owns
  <2>2. s.kind # "create" => id = s.id
    BY <1>3
  <2>3. s \in x.todo /\ TypeOK /\ ReadIsCurrent
    BY <1>1 DEF IInv
  <2> QED BY <1>2, <1>3, <1>4, <2>1, <2>2, <2>3, StatementKeeps
<1>12. TransactionsOK'
  <2> SUFFICES ASSUME NEW v \in Writers, tx'[v] # NoTx PROVE TransactionOK(tx[v])'
    BY DEF TransactionsOK
  <2>1. PICK z : z = tx'[v]
    OBVIOUS
  <2>2. TransactionOK(z)
    BY <1>8, <1>11, <2>1 DEF IInv, TransactionsOK
  <2>3. TransactionOK(z)'
    BY <1>5, <2>2, TransactionStays
  <2> QED BY <2>1, <2>3
<1>13. y.tenant = x.tenant
  BY <1>3 DEF After
<1>14. Exclusive'
  BY <1>1, <1>8, <1>13 DEF IInv, Exclusive
<1>15. ASSUME NEW u \in Tenants, NEW i \in P!ID, Owns(u, i)'
       PROVE  Owns(u, i) \/ (s.kind = "create" /\ u = x.tenant /\ i = id)
  <2>1. CASE Had(u, i)'
    BY <1>5, <2>1 DEF Owns, Had
  <2>2. CASE Writes(u, i)'
    <3>1. PICK v \in Writers : tx'[v] # NoTx /\ tx'[v].tenant = u /\ tx'[v].rows[i] # Absent
      BY <2>2 DEF Writes
    <3>2. CASE v # w
      BY <1>8, <3>1, <3>2 DEF Owns, Writes
    <3>3. CASE v = w /\ i # id
      <4>1. u = x.tenant /\ x.rows[i] # Absent
        BY <1>3, <1>8, <1>13, <3>1, <3>3 DEF After, Transaction, P!PageSets
      <4> QED BY <1>1, <4>1 DEF Owns, Writes
    <3>4. CASE v = w /\ i = id /\ s.kind # "create"
      <4>1. u = x.tenant /\ i = s.id
        BY <1>3, <1>8, <1>13, <3>1, <3>4
      <4>2. Had(x.tenant, s.id)
        BY <1>2, <3>4 DEF StatementOK
      <4> QED BY <4>1, <4>2 DEF Owns
    <3>5. CASE v = w /\ i = id /\ s.kind = "create"
      BY <1>8, <1>13, <3>1, <3>5
    <3> QED BY <3>2, <3>3, <3>4, <3>5
  <2> QED BY <1>15, <2>1, <2>2 DEF Owns
<1>16. Owners'
  <2> SUFFICES ASSUME NEW t \in Tenants, NEW i \in P!ID, Owns(t, i)'
               PROVE  i <= nextID' /\ \A u \in Tenants : Owns(u, i)' => u = t
    BY DEF Owners
  <2>1. CASE s.kind = "create" /\ i = id
    <3>1. \A u \in Tenants : ~Owns(u, i)
      BY <1>6, <2>1, NewIDIsFresh DEF IInv
    <3>2. \A u \in Tenants : Owns(u, i)' => u = x.tenant
      BY <1>15, <3>1
    <3> QED BY <1>6, <2>1, <3>2 DEF P!ID
  <2>2. CASE ~(s.kind = "create" /\ i = id)
    <3>1. \A u \in Tenants : Owns(u, i)' => Owns(u, i)
      BY <1>15, <2>2
    <3>2. i <= nextID /\ \A u \in Tenants : Owns(u, i) => u = t
      BY <3>1 DEF IInv, Owners
    <3> QED BY <1>6, <3>1, <3>2 DEF P!ID
  <2> QED BY <2>1, <2>2
<1> QED BY <1>9, <1>10, <1>12, <1>14, <1>16 DEF IInv

--------------------------------------------------------------------------------
(* A transaction that ends without a trace, and migration 0002. *)

LEMMA AbortKeeps ==
  ASSUME IInv, NEW w \in Writers, Abort(w)
  PROVE  IInv'
<1>1. /\ pages' = pages /\ revisions' = revisions /\ adopted' = adopted
      /\ start' = start /\ history' = history /\ read' = read /\ receipts' = receipts
      /\ tx' = [tx EXCEPT ![w] = NoTx]
  BY DEF Abort
<1>2. nextID \in Nat /\ nextID' \in 0..MaxID /\ nextID <= nextID'
  <2>1. nextID \in 0..MaxID
    BY DEF IInv, TypeOK
  <2> QED BY <2>1, BoundsAssumption DEF Abort
<1>3. tx \in [Writers -> Transaction \union {NoTx}]
  BY DEF IInv, TypeOK
<1>4. tx'[w] = NoTx /\ \A v \in Writers : v # w => tx'[v] = tx[v]
  BY <1>1, <1>3
<1>5. TypeOK'
  <2>1. tx' \in [Writers -> Transaction \union {NoTx}]
    BY <1>1, <1>3
  <2> QED BY <1>1, <1>2, <2>1 DEF IInv, TypeOK
<1>6. ReadIsCurrent' /\ Ascending' /\ PagesDiffer' /\ HistoryOK' /\ ReceiptsOK'
  BY <1>1 DEF IInv, ReadIsCurrent, Ascending, PagesDiffer, HistoryOK, HistoryOf, Exact, ReceiptsOK, ReceiptsAreReal
<1>7. TransactionsOK'
  <2> SUFFICES ASSUME NEW v \in Writers, tx'[v] # NoTx PROVE TransactionOK(tx[v])'
    BY DEF TransactionsOK
  <2>1. PICK z : z = tx'[v]
    OBVIOUS
  <2>2. TransactionOK(z)
    BY <1>4, <2>1 DEF IInv, TransactionsOK
  <2>3. TransactionOK(z)'
    BY <1>1, <2>2, TransactionStays
  <2> QED BY <2>1, <2>3
<1>8. Exclusive'
  BY <1>4 DEF IInv, Exclusive
<1>9. Owners'
  <2>1. ASSUME NEW u \in Tenants, NEW i \in P!ID, Owns(u, i)' PROVE Owns(u, i)
    BY <1>1, <1>4, <2>1 DEF Owns, Had, Writes
  <2> QED BY <1>2, <2>1, OwnersStay DEF IInv
<1> QED BY <1>5, <1>6, <1>7, <1>8, <1>9 DEF IInv

LEMMA AdoptKeeps ==
  ASSUME IInv, Adopt
  PROVE  IInv'
<1>1. /\ pages' = pages /\ revisions' = revisions /\ adopted' = TRUE /\ nextID' = nextID
      /\ start' = revisions /\ history' = history /\ read' = read /\ receipts' = receipts /\ tx' = tx
      /\ ~adopted
  BY DEF Adopt
<1>2. TypeOK'
  BY <1>1 DEF IInv, TypeOK
<1>3. ReadIsCurrent' /\ Ascending' /\ PagesDiffer' /\ ReceiptsOK' /\ Exclusive'
  BY <1>1 DEF IInv, ReadIsCurrent, Ascending, PagesDiffer, ReceiptsOK, ReceiptsAreReal, Exclusive
<1>4. TransactionsOK'
  <2> SUFFICES ASSUME NEW v \in Writers, tx'[v] # NoTx PROVE TransactionOK(tx[v])'
    BY DEF TransactionsOK
  <2>1. PICK z : z = tx'[v]
    OBVIOUS
  <2>2. TransactionOK(z)
    BY <1>1, <2>1 DEF IInv, TransactionsOK
  <2>3. TransactionOK(z)'
    BY <1>1, <2>2, TransactionStays
  <2> QED BY <2>1, <2>3
<1>5. Owners'
  BY <1>1 DEF IInv, Owners, Owns, Had, Writes
<1>6. HistoryOK'
  <2> SUFFICES ASSUME NEW t \in Tenants PROVE HistoryOf(t)' /\ \A e \in history'[t] : Exact(t, e)'
    BY DEF HistoryOK
  <2>1. history[t] = {}
    BY <1>1 DEF IInv, HistoryOK, HistoryOf
  <2>2. revisions[t] \in Nat /\ Revisions(history[t]) = {}
    BY <2>1, ReadType DEF IInv, Revisions
  <2>3. revisions[t] \in revisions[t]..revisions[t] /\ revisions[t] + 1 .. revisions[t] = {}
    BY <2>2
  <2> QED BY <1>1, <2>1, <2>2, <2>3 DEF HistoryOf, Revisions
<1> QED BY <1>2, <1>3, <1>4, <1>5, <1>6 DEF IInv

--------------------------------------------------------------------------------
(* A commit. *)

(* All that a transaction with no statement left wrote are real pages. *)
LEMMA RowsAtCommit ==
  ASSUME TypeOK, NEW x \in Transaction, TransactionOK(x), x.todo = {}
  PROVE  /\ x.rows \in P!PageSets(P!State)
         /\ x.rows # x.before
         /\ \A i \in P!ID : x.rows[i] # Absent /\ x.rows[i] # x.before[i] => Newer(x.tenant, i, x.rows[i].version)
<1>1. \A i : ~Updates(x.todo, i)
  BY DEF Updates
<1>2. x.before \in P!PageSets(P!State) /\ x.rows \in P!PageSets(Row)
  BY DEF Transaction
<1>3. \A i \in P!ID : x.rows[i] # Absent =>
        \/ x.rows[i] = x.before[i]
        \/ x.rows[i] \in P!State /\ Newer(x.tenant, i, x.rows[i].version)
  BY <1>1 DEF TransactionOK, RowOK
<1>4. x.rows \in P!PageSets(P!State)
  BY <1>2, <1>3 DEF P!PageSets
<1> QED BY <1>3, <1>4 DEF TransactionOK, HasEffect

(* The page a row becomes. *)
PageOf(x, i) == [tenant |-> x.tenant, version |-> x.rows[i].version, content |-> x.rows[i].content]

LEMMA WrittenPage ==
  ASSUME NEW x, NEW i \in P!ID
  PROVE  /\ x.rows[i] = x.before[i] => Written(x)[i] = pages[i]
         /\ x.rows[i] # x.before[i] /\ x.rows[i] = Absent => Written(x)[i] = Absent
         /\ x.rows[i] # x.before[i] /\ x.rows[i] # Absent => Written(x)[i] = PageOf(x, i)
<1>1. CASE x.rows[i] = x.before[i]
  BY <1>1 DEF Written
<1>2. CASE x.rows[i] # x.before[i] /\ x.rows[i] = Absent
  BY <1>2 DEF Written
<1>3. CASE x.rows[i] # x.before[i] /\ x.rows[i] # Absent
  BY <1>3 DEF Written, PageOf
<1> QED BY <1>1, <1>2, <1>3

LEMMA PageOfRow ==
  ASSUME NEW x, x.tenant \in Tenants, NEW i \in P!ID, x.rows[i] \in P!State
  PROVE  /\ PageOf(x, i) \in P!Page /\ PageOf(x, i) # Absent
         /\ PageOf(x, i).tenant = x.tenant
         /\ x.rows[i] = [version |-> PageOf(x, i).version, content |-> PageOf(x, i).content]
<1>1. PageOf(x, i) \in P!Page
  BY DEF P!State, P!Page, PageOf
<1>2. PageOf(x, i).tenant = x.tenant
  BY DEF PageOf
<1>3. x.rows[i] = [version |-> PageOf(x, i).version, content |-> PageOf(x, i).content]
  BY DEF P!State, PageOf
<1> QED BY <1>1, <1>2, <1>3, StateFacts

(* What is written becomes the tenant's state, and no other's. *)
LEMMA WrittenIs ==
  ASSUME IInv, NEW w \in Writers, tx[w] # NoTx, NEW x \in Transaction, x = tx[w], x.todo = {}
  PROVE  /\ Written(x) \in P!PageSets(P!Page)
         /\ P!StatesOf(Written(x), x.tenant) = x.rows
         /\ \A u \in Tenants \ {x.tenant} : P!StatesOf(Written(x), u) = P!StatesOf(pages, u)
<1> DEFINE t == x.tenant
           ps == Written(x)
<1>1. /\ TransactionOK(x) /\ t \in Tenants /\ pages \in P!PageSets(P!Page)
      /\ x.before = P!StatesOf(pages, t)
  BY DEF IInv, TransactionsOK, Transaction, TypeOK, TransactionOK
<1>2. x.rows \in P!PageSets(P!State)
  BY <1>1, RowsAtCommit DEF IInv
<1>3. ASSUME NEW i \in P!ID
      PROVE  \/ x.rows[i] = x.before[i] /\ ps[i] = pages[i]
             \/ x.rows[i] = Absent /\ x.before[i] # Absent /\ ps[i] = Absent
             \/ x.rows[i] # Absent /\ ps[i] = PageOf(x, i)
  <2> HIDE DEF ps
  <2>1. /\ x.rows[i] = x.before[i] => ps[i] = pages[i]
        /\ x.rows[i] # x.before[i] /\ x.rows[i] = Absent => ps[i] = Absent
        /\ x.rows[i] # x.before[i] /\ x.rows[i] # Absent => ps[i] = PageOf(x, i)
    BY WrittenPage DEF ps
  <2> QED BY <2>1
<1>4. \A i \in P!ID : x.rows[i] # Absent => x.rows[i] \in P!State
  BY <1>2 DEF P!PageSets
<1>5. ASSUME NEW i \in P!ID PROVE ps[i] \in P!Page \union {Absent}
  <2>1. pages[i] \in P!Page \union {Absent}
    BY <1>1 DEF P!PageSets
  <2> HIDE DEF ps
  <2> QED BY <1>1, <1>3, <1>4, <2>1, PageOfRow
<1>6. ps \in P!PageSets(P!Page)
  BY <1>5 DEF Written, P!PageSets
<1>7. ASSUME NEW i \in P!ID PROVE P!StatesOf(ps, t)[i] = x.rows[i]
  <2> HIDE DEF ps
  <2>1. CASE x.rows[i] = x.before[i] /\ ps[i] = pages[i]
    <3>1. P!StatesOf(ps, t)[i] = P!StatesOf(pages, t)[i]
      BY <2>1 DEF P!StatesOf
    <3> QED BY <1>1, <2>1, <3>1
  <2>2. CASE x.rows[i] = Absent /\ ps[i] = Absent
    BY <2>2 DEF P!StatesOf
  <2>3. CASE x.rows[i] # Absent /\ ps[i] = PageOf(x, i)
    <3>1. /\ ps[i] # Absent /\ ps[i].tenant = t
          /\ x.rows[i] = [version |-> ps[i].version, content |-> ps[i].content]
      BY <1>1, <1>4, <2>3, PageOfRow
    <3>2. P!StatesOf(ps, t)[i] = [version |-> ps[i].version, content |-> ps[i].content]
      BY <1>6, <3>1, StatesOfOwn
    <3> QED BY <3>1, <3>2
  <2> QED BY <1>3, <2>1, <2>2, <2>3
<1>8. P!StatesOf(ps, t) = x.rows
  <2>1. P!StatesOf(ps, t) \in P!PageSets(P!State)
    BY <1>6, StatesOfType
  <2> HIDE DEF ps
  <2> QED BY <1>2, <1>7, <2>1 DEF P!PageSets
<1>9. ASSUME NEW u \in Tenants, u # t, NEW i \in P!ID
      PROVE  P!StatesOf(ps, u)[i] = P!StatesOf(pages, u)[i]
  <2> HIDE DEF ps
  <2>1. CASE ps[i] = pages[i]
    BY <2>1 DEF P!StatesOf
  <2>2. CASE ps[i] = Absent /\ x.before[i] # Absent
    <3>1. P!StatesOf(pages, t)[i] # Absent
      BY <1>1, <2>2
    <3>2. pages[i].tenant = t
      BY <3>1 DEF P!StatesOf
    <3> QED BY <1>9, <2>2, <3>2 DEF P!StatesOf
  <2>3. CASE x.rows[i] # Absent /\ ps[i] = PageOf(x, i)
    <3>1. ps[i].tenant # u
      BY <1>1, <1>4, <1>9, <2>3, PageOfRow
    <3>2. Owns(t, i)
      BY <2>3 DEF Owns, Writes
    <3>3. ~Had(u, i)
      BY <1>1, <1>9, <3>2 DEF IInv, Owners, Owns
    <3>4. P!StatesOf(pages, u)[i] = Absent
      BY <3>3, CurrentIsNewest DEF IInv
    <3> QED BY <3>1, <3>4 DEF P!StatesOf
  <2> QED BY <1>3, <2>1, <2>2, <2>3
<1>10. ASSUME NEW u \in Tenants, u # t
       PROVE  P!StatesOf(ps, u) = P!StatesOf(pages, u)
  <2> HIDE DEF ps
  <2>1. P!StatesOf(ps, u) \in P!PageSets(P!State) /\ P!StatesOf(pages, u) \in P!PageSets(P!State)
    BY <1>1, <1>6, StatesOfType
  <2> QED BY <1>9, <1>10, <2>1 DEF P!PageSets
<1> QED BY <1>6, <1>8, <1>10

(* What a commit leaves, beside the history and the receipts. *)
Committed(w, x) ==
  LET t == x.tenant
      R == revisions[t]
  IN /\ tx'[w] = NoTx /\ \A v \in Writers : v # w => tx'[v] = tx[v]
     /\ revisions'[t] = R + 1 /\ R + 1 \in 0..MaxRevision
     /\ Len(read'[t]) = R + 2
     /\ DOMAIN read'[t] = 1..(R + 2)
     /\ DOMAIN read[t] = 1..(R + 1)
     /\ \A n \in 1..(R + 1) : read'[t][n] = read[t][n]
     /\ read[t][R + 1] = x.before
     /\ read'[t][R + 2] = x.rows
     /\ P!StatesOf(pages', t) = x.rows
     /\ \A u \in Tenants \ {t} :
          /\ read'[u] = read[u] /\ revisions'[u] = revisions[u]
          /\ P!StatesOf(pages', u) = P!StatesOf(pages, u)

LEMMA AppendIs ==
  ASSUME NEW S, NEW s \in Seq(S), NEW e \in S, NEW n \in Nat, Len(s) = n + 1
  PROVE  /\ Len(Append(s, e)) = n + 2
         /\ DOMAIN Append(s, e) = 1..(n + 2)
         /\ DOMAIN s = 1..(n + 1)
         /\ \A m \in 1..(n + 1) : Append(s, e)[m] = s[m]
         /\ Append(s, e)[n + 2] = e
         /\ Append(s, e) \in Seq(S)
OBVIOUS

LEMMA CommitIs ==
  ASSUME IInv, NEW w \in Writers, NEW logged \in BOOLEAN, NEW answered \in BOOLEAN, Commit(w, logged, answered),
         NEW x \in Transaction, x = tx[w]
  PROVE  /\ Committed(w, x)
         /\ pages' \in P!PageSets(P!Page) /\ tx' \in [Writers -> Transaction \union {NoTx}]
         /\ read' \in [Tenants -> Seq(P!PageSets(P!State))]
         /\ revisions' \in [Tenants -> 0..MaxRevision]
<1> DEFINE t == x.tenant
           R == revisions[t]
<1>1. /\ tx[w] # NoTx /\ x.todo = {} /\ t \in Tenants
      /\ R + 1 <= MaxRevision
      /\ tx' = [tx EXCEPT ![w] = NoTx]
      /\ pages' = Written(x)
      /\ revisions' = [revisions EXCEPT ![t] = R + 1]
      /\ read' = [read EXCEPT ![t] = Append(read[t], P!StatesOf(Written(x), t))]
  BY DEF Commit, Transaction
<1>2. /\ tx \in [Writers -> Transaction \union {NoTx}]
      /\ read \in [Tenants -> Seq(P!PageSets(P!State))]
      /\ revisions \in [Tenants -> 0..MaxRevision]
  BY DEF IInv, TypeOK
<1>3. /\ pages' \in P!PageSets(P!Page)
      /\ P!StatesOf(pages', t) = x.rows
      /\ \A u \in Tenants \ {t} : P!StatesOf(pages', u) = P!StatesOf(pages, u)
  BY <1>1, WrittenIs
<1>4. read' = [read EXCEPT ![t] = Append(read[t], x.rows)]
  BY <1>1, <1>3
<1>5. TransactionOK(x)
  BY <1>1 DEF IInv, TransactionsOK
<1>6. x.rows \in P!PageSets(P!State) /\ x.before = P!StatesOf(pages, t)
  BY <1>1, <1>5, RowsAtCommit DEF IInv, TransactionOK
<1>7. R \in Nat /\ Len(read[t]) = R + 1 /\ read[t] \in Seq(P!PageSets(P!State)) /\ read[t][R + 1] = x.before
  BY <1>1, <1>2, <1>6, ReadType DEF IInv, ReadIsCurrent
<1>8. R + 1 \in 0..MaxRevision
  BY <1>1, <1>7, BoundsAssumption
<1>9. tx'[w] = NoTx /\ \A v \in Writers : v # w => tx'[v] = tx[v]
  BY <1>1, <1>2
<1>10. /\ revisions'[t] = R + 1 /\ read'[t] = Append(read[t], x.rows)
       /\ \A u \in Tenants \ {t} : read'[u] = read[u] /\ revisions'[u] = revisions[u]
  BY <1>1, <1>2, <1>4
<1>11. /\ Len(Append(read[t], x.rows)) = R + 2
       /\ DOMAIN Append(read[t], x.rows) = 1..(R + 2)
       /\ DOMAIN read[t] = 1..(R + 1)
       /\ \A n \in 1..(R + 1) : Append(read[t], x.rows)[n] = read[t][n]
       /\ Append(read[t], x.rows)[R + 2] = x.rows
       /\ Append(read[t], x.rows) \in Seq(P!PageSets(P!State))
  BY <1>6, <1>7, AppendIs
<1>12. Committed(w, x)
  BY <1>3, <1>7, <1>8, <1>9, <1>10, <1>11 DEF Committed
<1>13. read' \in [Tenants -> Seq(P!PageSets(P!State))] /\ revisions' \in [Tenants -> 0..MaxRevision]
       /\ tx' \in [Writers -> Transaction \union {NoTx}]
  BY <1>1, <1>2, <1>4, <1>8, <1>11
<1> QED BY <1>3, <1>12, <1>13

LEMMA CommittedVersions ==
  ASSUME TypeOK, ReadIsCurrent, Ascending, NEW w \in Writers, NEW x \in Transaction, TransactionOK(x),
         x.todo = {}, Committed(w, x)
  PROVE  Ascending'
<1> DEFINE t == x.tenant
           R == revisions[t]
<1>1. t \in Tenants /\ R \in Nat /\ R + 1 \in 1..(R + 1)
  BY ReadType DEF Transaction
<1>2. /\ DOMAIN read'[t] = 1..(R + 2) /\ DOMAIN read[t] = 1..(R + 1)
      /\ \A n \in 1..(R + 1) : read'[t][n] = read[t][n]
      /\ read[t][R + 1] = x.before /\ read'[t][R + 2] = x.rows
      /\ \A u \in Tenants \ {t} : read'[u] = read[u]
  BY DEF Committed
<1>3. \A i \in P!ID : x.rows[i] # Absent /\ x.rows[i] # x.before[i] => Newer(t, i, x.rows[i].version)
  BY RowsAtCommit
<1>4. \A i \in P!ID : x.rows[i] # Absent => x.rows[i].version \in Nat
  <2>1. x.rows \in P!PageSets(P!State)
    BY RowsAtCommit
  <2> QED BY <2>1 DEF P!PageSets, P!State
<1> SUFFICES ASSUME NEW u \in Tenants, NEW m \in DOMAIN read'[u], NEW n \in DOMAIN read'[u], m <= n,
                    NEW i \in P!ID, read'[u][m][i] # Absent, read'[u][n][i] # Absent
             PROVE  read'[u][m][i].version <= read'[u][n][i].version
  BY DEF Ascending
<1>5. CASE u # t
  <2>1. read'[u] = read[u]
    BY <1>2, <1>5
  <2> QED BY <2>1 DEF Ascending
<1>6. CASE u = t /\ n \in 1..(R + 1)
  <2>1. m \in 1..(R + 1) /\ read'[t][m] = read[t][m] /\ read'[t][n] = read[t][n]
    BY <1>1, <1>2, <1>6
  <2> QED BY <1>1, <1>2, <1>6, <2>1 DEF Ascending
<1>7. CASE u = t /\ n = R + 2 /\ m = R + 2
  BY <1>2, <1>4, <1>7
<1>8. CASE u = t /\ n = R + 2 /\ m \in 1..(R + 1)
  <2>1. read'[t][m] = read[t][m] /\ read'[t][n] = x.rows /\ read[t][m][i] # Absent /\ x.rows[i] # Absent
    BY <1>2, <1>8
  <2>2. read[t][m][i].version \in Nat
    BY <1>1, <1>2, <1>8, <2>1, ReadPageType
  <2>3. CASE x.rows[i] # x.before[i]
    <3>1. read[t][m][i].version < x.rows[i].version
      BY <1>2, <1>3, <1>8, <2>1, <2>3 DEF Newer
    <3> QED BY <1>4, <1>8, <2>1, <2>2, <3>1
  <2>4. CASE x.rows[i] = x.before[i]
    <3>1. m <= R + 1 /\ read[t][R + 1][i] # Absent
      BY <1>1, <1>2, <1>8, <2>1, <2>4
    <3>2. read[t][m][i].version <= read[t][R + 1][i].version
      BY <1>1, <1>2, <1>8, <2>1, <3>1 DEF Ascending
    <3> QED BY <1>2, <1>8, <2>1, <2>4, <3>2
  <2> QED BY <2>3, <2>4
<1> QED BY <1>1, <1>2, <1>5, <1>6, <1>7, <1>8

LEMMA CommittedStates ==
  ASSUME TypeOK, ReadIsCurrent, PagesDiffer, NEW w \in Writers, NEW x \in Transaction, TransactionOK(x),
         Committed(w, x)
  PROVE  ReadIsCurrent' /\ PagesDiffer'
<1> DEFINE t == x.tenant
<1>1. t \in Tenants /\ revisions[t] \in Nat
  BY ReadType DEF Transaction
<1>2. ReadIsCurrent'
  <2> SUFFICES ASSUME NEW u \in Tenants
               PROVE  Len(read'[u]) = revisions'[u] + 1 /\ read'[u][revisions'[u] + 1] = P!StatesOf(pages', u)
    BY DEF ReadIsCurrent
  <2>1. CASE u = t
    BY <1>1, <2>1 DEF Committed
  <2>2. CASE u # t
    <3>1. read'[u] = read[u] /\ revisions'[u] = revisions[u] /\ P!StatesOf(pages', u) = P!StatesOf(pages, u)
      BY <2>2 DEF Committed
    <3> QED BY <3>1 DEF ReadIsCurrent
  <2> QED BY <2>1, <2>2
<1>3. PagesDiffer'
  <2>1. \A u \in Tenants : P!StatesOf(pages', u) = IF u = t THEN x.rows ELSE P!StatesOf(pages, u)
    BY DEF Committed
  <2>2. Ledger!DistinctPaths(x.rows)
    BY DEF TransactionOK
  <2>3. \A u \in Tenants : Ledger!DistinctPaths(P!StatesOf(pages', u))
    BY <2>1, <2>2 DEF PagesDiffer
  <2> QED BY <2>3 DEF PagesDiffer, Ledger!DistinctPaths
<1> QED BY <1>2, <1>3

LEMMA CommittedTransactions ==
  ASSUME IInv, NEW w \in Writers, NEW x \in Transaction, x = tx[w], tx[w] # NoTx, Committed(w, x), nextID' = nextID
  PROVE  TransactionsOK' /\ Exclusive' /\ Owners'
<1> DEFINE t == x.tenant
           R == revisions[t]
<1>1. t \in Tenants /\ R \in Nat
  BY ReadType DEF Transaction, IInv
<1>2. tx'[w] = NoTx /\ \A v \in Writers : v # w => tx'[v] = tx[v]
  BY DEF Committed
<1>3. TransactionsOK'
  <2> SUFFICES ASSUME NEW v \in Writers, tx'[v] # NoTx PROVE TransactionOK(tx[v])'
    BY DEF TransactionsOK
  <2>1. PICK z \in Transaction : z = tx'[v]
    BY <1>2, TransactionType DEF IInv
  <2>2. v # w /\ z = tx[v] /\ z # NoTx
    BY <1>2, <2>1
  <2>3. TransactionOK(z) /\ z.tenant # t /\ z.tenant \in Tenants
    BY <2>2 DEF IInv, TransactionsOK, Exclusive, Transaction
  <2>4. read'[z.tenant] = read[z.tenant] /\ revisions'[z.tenant] = revisions[z.tenant]
        /\ P!StatesOf(pages', z.tenant) = P!StatesOf(pages, z.tenant)
    BY <2>3 DEF Committed
  <2>5. TransactionOK(z)'
    BY <2>3, <2>4, TransactionStays
  <2> QED BY <2>1, <2>5
<1>4. Exclusive'
  BY <1>2 DEF IInv, Exclusive
<1>5. Owners'
  <2>1. ASSUME NEW u \in Tenants, NEW i \in P!ID, Owns(u, i)'
        PROVE  Owns(u, i)
    <3>1. CASE Writes(u, i)'
      BY <1>2, <3>1 DEF Owns, Writes
    <3>2. CASE Had(u, i)' /\ u # t
      BY <3>2 DEF Owns, Had, Committed
    <3>3. CASE Had(u, i)' /\ u = t
      <4>1. PICK n \in 1..(R + 2) : read'[t][n][i] # Absent
        BY <3>3 DEF Had, Committed
      <4>2. CASE n \in 1..(R + 1)
        <5>1. n \in DOMAIN read[t] /\ read[t][n][i] # Absent
          BY <4>1, <4>2 DEF Committed
        <5> QED BY <3>3, <5>1 DEF Owns, Had
      <4>3. CASE n = R + 2
        <5>1. x.rows[i] # Absent
          BY <4>1, <4>3 DEF Committed
        <5> QED BY <3>3, <5>1 DEF Owns, Writes
      <4> QED BY <1>1, <4>1, <4>2, <4>3
    <3> QED BY <2>1, <3>1, <3>2, <3>3 DEF Owns
  <2>2. nextID \in Nat
    BY DEF IInv, TypeOK
  <2> QED BY <2>1, <2>2, OwnersStay DEF IInv
<1> QED BY <1>3, <1>4, <1>5

(* The receipt of a batch is of the two states on either side of it. *)
LEMMA CommittedReceipts ==
  ASSUME IInv, NEW w \in Writers, NEW x \in Transaction, TransactionOK(x), x.todo = {}, Committed(w, x),
         receipts' = receipts \/ receipts' = receipts \union {ReceiptOf(x, revisions[x.tenant] + 1)}
  PROVE  ReceiptsOK' /\ receipts' \subseteq P!Receipt
<1> DEFINE t == x.tenant
           R == revisions[t]
<1>1. t \in Tenants /\ R \in Nat
  BY ReadType DEF Transaction, IInv
<1>2. PICK q : q = ReceiptOf(x, R + 1)
  OBVIOUS
<1>3. /\ q.scope = t /\ q.beforeRevision = R /\ q.afterRevision = R + 1 /\ q.before = x.before /\ q.after = x.rows
      /\ q \in P!Receipt
  <2>1. x.revision = R /\ x.before \in P!PageSets(P!State) /\ x.rows \in P!PageSets(P!State)
    BY RowsAtCommit DEF TransactionOK, Transaction, IInv
  <2>2. R + 1 \in Nat
    BY <1>1
  <2> QED BY <1>1, <1>2, <2>1, <2>2 DEF ReceiptOf, P!Receipt
<1>4. receipts' \subseteq receipts \union {q}
  BY <1>2
<1>5. receipts' \subseteq P!Receipt
  BY <1>3, <1>4 DEF IInv, TypeOK
<1>6. ASSUME NEW r \in receipts
      PROVE  /\ r.afterRevision = r.beforeRevision + 1 /\ r.afterRevision <= revisions'[r.scope]
             /\ r.before = read'[r.scope][r.afterRevision] /\ r.after = read'[r.scope][r.afterRevision + 1]
  <2>1. /\ r.afterRevision = r.beforeRevision + 1 /\ r.afterRevision <= revisions[r.scope]
        /\ r.before = read[r.scope][r.afterRevision] /\ r.after = read[r.scope][r.afterRevision + 1]
    BY DEF IInv, ReceiptsOK, ReceiptsAreReal
  <2>2. r.scope \in Tenants /\ r.beforeRevision \in Nat /\ r.afterRevision \in Nat
    BY DEF IInv, TypeOK, P!Receipt
  <2>3. CASE r.scope # t
    <3>1. read'[r.scope] = read[r.scope] /\ revisions'[r.scope] = revisions[r.scope]
      BY <2>2, <2>3 DEF Committed
    <3> QED BY <2>1, <3>1
  <2>4. CASE r.scope = t
    <3>1. revisions'[t] = R + 1 /\ \A n \in 1..(R + 1) : read'[t][n] = read[t][n]
      BY DEF Committed
    <3>2. PICK a \in Nat : a = r.afterRevision
      BY <2>2
    <3>3. PICK b \in Nat : b = r.beforeRevision
      BY <2>2
    <3>4. a = b + 1 /\ a <= R
      BY <2>1, <2>4, <3>2, <3>3
    <3>5. a \in 1..(R + 1) /\ a + 1 \in 1..(R + 1) /\ a <= R + 1
      BY <1>1, <3>2, <3>3, <3>4
    <3> QED BY <2>1, <2>4, <3>1, <3>2, <3>5
  <2> QED BY <2>3, <2>4
<1>7. /\ q.afterRevision = q.beforeRevision + 1 /\ q.afterRevision <= revisions'[q.scope]
      /\ q.before = read'[q.scope][q.afterRevision] /\ q.after = read'[q.scope][q.afterRevision + 1]
  <2>1. revisions'[t] = R + 1 /\ read'[t][R + 1] = read[t][R + 1] /\ read[t][R + 1] = x.before /\ read'[t][R + 2] = x.rows
    BY <1>1 DEF Committed
  <2>2. (R + 1) + 1 = R + 2 /\ R + 1 <= R + 1
    BY <1>1
  <2> QED BY <1>3, <2>1, <2>2
<1>8. ReceiptsOK'
  BY <1>4, <1>6, <1>7 DEF ReceiptsOK, ReceiptsAreReal
<1> QED BY <1>5, <1>8

(* A row that alone differs is all that changed. *)
LEMMA OnlyIsChanged ==
  ASSUME NEW i \in P!ID, NEW old \in P!PageSets(P!State), NEW new \in P!PageSets(P!State),
         old[i] # new[i], \A j \in P!ID \ {i} : old[j] = new[j]
  PROVE  P!Only(i, old[i]) = P!Changed(old, new)
BY DEF P!Only, P!NoPages, P!Changed, P!PageSets

(* The event of a transaction is exactly what it changed. *)
LEMMA EventIs ==
  ASSUME TypeOK, NEW x \in Transaction, TransactionOK(x), x.todo = {}, NEW n \in Nat
  PROVE  /\ Event(x, n).revision = n
         /\ Event(x, n).before = P!Changed(x.before, x.rows)
         /\ Event(x, n).after = P!Changed(x.rows, x.before)
         /\ Event(x, n) \in P!Entry
<1>1. x.rows \in P!PageSets(P!State) /\ x.rows # x.before /\ x.before \in P!PageSets(P!State)
  BY RowsAtCommit DEF Transaction
<1>2. Event(x, n).revision = n /\ Event(x, n).operation = x.operation
  BY DEF Event
<1>3. CASE IsBatch(x)
  <2>1. Event(x, n).before = P!Changed(x.before, x.rows) /\ Event(x, n).after = P!Changed(x.rows, x.before)
    BY <1>3 DEF Event
  <2>2. P!Changed(x.before, x.rows) \in P!PageSets(P!State) /\ P!Changed(x.rows, x.before) \in P!PageSets(P!State)
    BY <1>1, ChangedType
  <2>3. Event(x, n) \in P!Entry
    BY <1>3, <2>2 DEF Event, P!Entry, Transaction
  <2> QED BY <1>2, <2>1, <2>3
<1>4. CASE ~IsBatch(x)
  <2> DEFINE i == x.last
  <2>1. \A j \in P!ID \ {i} : x.rows[j] = x.before[j]
    BY <1>4 DEF TransactionOK, OneWrite
  <2>2. i \in P!ID /\ x.before[i] # x.rows[i]
    BY <1>1, <2>1 DEF P!PageSets
  <2>3. P!Only(i, x.before[i]) = P!Changed(x.before, x.rows) /\ P!Only(i, x.rows[i]) = P!Changed(x.rows, x.before)
    BY <1>1, <2>1, <2>2, OnlyIsChanged
  <2>4. Event(x, n).before = P!Only(i, x.before[i]) /\ Event(x, n).after = P!Only(i, x.rows[i])
    BY <1>4 DEF Event
  <2>5. P!Only(i, x.before[i]) \in P!PageSets(P!State) /\ P!Only(i, x.rows[i]) \in P!PageSets(P!State)
    BY <1>1, OnlyType
  <2>6. Event(x, n) \in P!Entry
    BY <1>4, <2>5 DEF Event, P!Entry, Transaction
  <2> QED BY <1>2, <2>3, <2>4, <2>6
<1> QED BY <1>3, <1>4

(* An event of a tenant is of one of its revisions. *)
LEMMA EventRevision ==
  ASSUME TypeOK, NEW t \in Tenants, NEW e \in history[t], HistoryOf(t)
  PROVE  e.revision \in Nat /\ e.revision >= start[t] + 1 /\ e.revision <= revisions[t]
<1>1. start[t] \in Nat /\ revisions[t] \in Nat
  BY BoundsAssumption DEF TypeOK
<1>2. PICK n \in start[t]..revisions[t] : Revisions(history[t]) = start[t] + 1 .. n
  BY DEF HistoryOf
<1>3. e.revision \in start[t] + 1 .. n
  BY <1>2 DEF Revisions
<1> QED BY <1>1, <1>3

LEMMA CommittedHistory ==
  ASSUME IInv, NEW w \in Writers, NEW x \in Transaction, TransactionOK(x), x.todo = {}, Committed(w, x),
         start' = start, adopted' = adopted,
         NEW logged \in BOOLEAN, logged => CanAppend(x.tenant, revisions[x.tenant] + 1),
         history' = IF logged THEN [history EXCEPT ![x.tenant] = @ \union {Event(x, revisions[x.tenant] + 1)}]
                              ELSE history
  PROVE  HistoryOK' /\ history' \in [Tenants -> SUBSET P!Entry]
<1> DEFINE t == x.tenant
           R == revisions[t]
<1>1. t \in Tenants /\ R \in Nat /\ R + 1 \in Nat /\ start[t] \in Nat
  BY ReadType, BoundsAssumption DEF Transaction, IInv, TypeOK
<1>2. PICK q \in P!Entry : /\ q = Event(x, R + 1) /\ q.revision = R + 1
                           /\ q.before = P!Changed(x.before, x.rows) /\ q.after = P!Changed(x.rows, x.before)
  BY <1>1, EventIs DEF IInv
<1>3. history \in [Tenants -> SUBSET P!Entry]
  BY DEF IInv, TypeOK
<1>4. /\ logged => history'[t] = history[t] \union {q}
      /\ ~logged => history'[t] = history[t]
      /\ \A u \in Tenants \ {t} : history'[u] = history[u]
  BY <1>1, <1>2, <1>3
<1>5. history' \in [Tenants -> SUBSET P!Entry]
  BY <1>1, <1>2, <1>3
<1>6. ASSUME NEW u \in Tenants, u # t
      PROVE  HistoryOf(u)' /\ \A e \in history'[u] : Exact(u, e)'
  <2>1. history'[u] = history[u] /\ read'[u] = read[u] /\ revisions'[u] = revisions[u]
    BY <1>4, <1>6 DEF Committed
  <2> QED BY <2>1 DEF IInv, HistoryOK, HistoryOf, Exact
<1>7. HistoryOf(t) /\ \A e \in history[t] : Exact(t, e)
  BY <1>1 DEF IInv, HistoryOK
<1>8. /\ revisions'[t] = R + 1 /\ \A n \in 1..(R + 1) : read'[t][n] = read[t][n]
      /\ read[t][R + 1] = x.before /\ read'[t][R + 2] = x.rows
  BY DEF Committed
<1>9. ASSUME NEW e \in history'[t] PROVE Exact(t, e)'
  <2>1. CASE e \in history[t]
    <3>0. TypeOK
      BY DEF IInv
    <3>e. e.revision \in Nat /\ e.revision >= start[t] + 1 /\ e.revision <= R
      BY <1>1, <1>7, <2>1, <3>0, EventRevision
    <3>1. PICK n \in Nat : n = e.revision
      BY <3>e
    <3>2. n >= 1 /\ n <= R
      BY <1>1, <3>1, <3>e
    <3>3. n \in 1..(R + 1) /\ n + 1 \in 1..(R + 1)
      BY <1>1, <3>2
    <3>4. Exact(t, e)
      BY <1>7, <2>1
    <3> QED BY <1>8, <3>1, <3>3, <3>4 DEF Exact
  <2>2. CASE e = q
    <3>1. (R + 1) + 1 = R + 2 /\ R + 1 \in 1..(R + 1)
      BY <1>1
    <3> QED BY <1>2, <1>8, <2>2, <3>1 DEF Exact
  <2> QED BY <1>4, <1>9, <2>1, <2>2
<1>10. HistoryOf(t)'
  <2>1. PICK n \in start[t]..R : Revisions(history[t]) = start[t] + 1 .. n
    BY <1>7 DEF HistoryOf
  <2>2. \A e \in history[t] : e.revision <= R /\ e.revision \in Nat
    BY <1>1, <1>7, EventRevision DEF IInv
  <2>3. CASE ~logged
    <3>1. n \in start[t]..(R + 1)
      BY <1>1, <2>1
    <3> QED BY <1>4, <1>7, <1>8, <2>1, <2>3, <3>1 DEF HistoryOf, Revisions
  <2>4. CASE logged
    <3>1. adopted /\ (start[t] = (R + 1) - 1 \/ \E e \in history[t] : e.revision = (R + 1) - 1)
      BY <2>4 DEF CanAppend
    <3>2. n = R
      <4>1. CASE start[t] = (R + 1) - 1
        BY <1>1, <2>1, <4>1
      <4>2. CASE \E e \in history[t] : e.revision = (R + 1) - 1
        <5>1. R \in Revisions(history[t])
          BY <1>1, <4>2 DEF Revisions
        <5> QED BY <1>1, <2>1, <5>1
      <4> QED BY <3>1, <4>1, <4>2
    <3>3. Revisions(history'[t]) = Revisions(history[t]) \union {R + 1}
      BY <1>2, <1>4, <2>4 DEF Revisions
    <3>4. Revisions(history'[t]) = start[t] + 1 .. R + 1 /\ R + 1 \in start[t]..(R + 1)
      <4>1. PICK a \in Nat : a = start[t]
        BY <1>1
      <4>2. PICK r \in Nat : r = R
        BY <1>1
      <4>3. a <= r /\ Revisions(history[t]) = a + 1 .. r
        BY <2>1, <3>2, <4>1, <4>2
      <4>4. (a + 1 .. r) \union {r + 1} = a + 1 .. (r + 1) /\ (r + 1) \in a..(r + 1)
        BY <4>1, <4>2, <4>3
      <4> QED BY <3>3, <4>1, <4>2, <4>3, <4>4
    <3>5. \A e, f \in history'[t] : e.revision = f.revision => e = f
      <4>1. \A e \in history[t] : e.revision # q.revision
        BY <1>1, <1>2, <2>2
      <4>2. \A e, f \in history[t] : e.revision = f.revision => e = f
        BY <1>7 DEF HistoryOf
      <4> QED BY <1>4, <2>4, <4>1, <4>2
    <3> QED BY <1>8, <3>1, <3>4, <3>5 DEF HistoryOf, Revisions
  <2> QED BY <2>3, <2>4
<1>11. HistoryOK'
  BY <1>6, <1>9, <1>10 DEF HistoryOK
<1> QED BY <1>5, <1>11

LEMMA CommitKeeps ==
  ASSUME IInv, NEW w \in Writers, NEW logged \in BOOLEAN, NEW answered \in BOOLEAN, Commit(w, logged, answered)
  PROVE  IInv'
<1>1. PICK x \in Transaction : x = tx[w]
  BY TransactionType DEF IInv, Commit
<1>2. /\ tx[w] # NoTx /\ x.todo = {} /\ nextID' = nextID /\ start' = start /\ adopted' = adopted
      /\ logged => CanAppend(x.tenant, revisions[x.tenant] + 1)
      /\ history' = IF logged THEN [history EXCEPT ![x.tenant] = @ \union {Event(x, revisions[x.tenant] + 1)}]
                              ELSE history
      /\ receipts' = receipts \/ receipts' = receipts \union {ReceiptOf(x, revisions[x.tenant] + 1)}
  BY <1>1 DEF Commit
<1>3. TransactionOK(x)
  BY <1>1, <1>2 DEF IInv, TransactionsOK
<1>4. /\ Committed(w, x)
      /\ pages' \in P!PageSets(P!Page) /\ tx' \in [Writers -> Transaction \union {NoTx}]
      /\ read' \in [Tenants -> Seq(P!PageSets(P!State))]
      /\ revisions' \in [Tenants -> 0..MaxRevision]
  BY <1>1, CommitIs
<1>5. HistoryOK' /\ history' \in [Tenants -> SUBSET P!Entry]
  BY <1>2, <1>3, <1>4, CommittedHistory
<1>6. ReceiptsOK' /\ receipts' \subseteq P!Receipt
  BY <1>2, <1>3, <1>4, CommittedReceipts
<1>7. ReadIsCurrent' /\ PagesDiffer' /\ Ascending'
  BY <1>2, <1>3, <1>4, CommittedStates, CommittedVersions DEF IInv
<1>8. TransactionsOK' /\ Exclusive' /\ Owners'
  BY <1>1, <1>2, <1>4, CommittedTransactions
<1>9. TypeOK'
  BY <1>2, <1>4, <1>5, <1>6 DEF IInv, TypeOK
<1> QED BY <1>5, <1>6, <1>7, <1>8, <1>9 DEF IInv

--------------------------------------------------------------------------------
(* The invariant, and what it says of types and receipts. *)

LEMMA InitOK == Init => IInv
<1> SUFFICES ASSUME Init PROVE IInv
  OBVIOUS
<1>1. /\ pages = P!NoPages /\ nextID = 0 /\ revisions = [t \in Tenants |-> 0] /\ adopted = FALSE
      /\ start = [t \in Tenants |-> 0] /\ history = [t \in Tenants |-> {}] /\ tx = [w \in Writers |-> NoTx]
      /\ read = [t \in Tenants |-> <<P!NoPages>>] /\ receipts = {}
  BY DEF Init
<1>2. 0 \in 0..MaxID /\ 0 \in 0..MaxRevision
  BY BoundsAssumption
<1>3. <<P!NoPages>> \in Seq(P!PageSets(P!State)) /\ Len(<<P!NoPages>>) = 1 /\ DOMAIN <<P!NoPages>> = {1}
      /\ <<P!NoPages>>[1] = P!NoPages
  BY NoPagesType
<1>4. \A i \in P!ID : P!NoPages[i] = Absent
  BY DEF P!NoPages
<1>5. \A t \in Tenants : P!StatesOf(pages, t) = P!NoPages
  BY <1>1, <1>4 DEF P!StatesOf, P!NoPages
<1>6. \A w \in Writers : tx[w] = NoTx
  BY <1>1
<1>7. TypeOK
  <2>1. /\ pages \in P!PageSets(P!Page) /\ nextID \in 0..MaxID /\ revisions \in [Tenants -> 0..MaxRevision]
        /\ start \in [Tenants -> 0..MaxRevision] /\ adopted \in BOOLEAN
    BY <1>1, <1>2, NoPagesType
  <2>2. history \in [Tenants -> SUBSET P!Entry] /\ tx \in [Writers -> Transaction \union {NoTx}]
        /\ read \in [Tenants -> Seq(P!PageSets(P!State))] /\ receipts \subseteq P!Receipt
    BY <1>1, <1>3
  <2> QED BY <2>1, <2>2 DEF TypeOK
<1>8. ReadIsCurrent
  BY <1>1, <1>3, <1>5 DEF ReadIsCurrent
<1>9. \A t \in Tenants : DOMAIN read[t] = {1} /\ read[t][1] = P!NoPages
  BY <1>1, <1>3
<1>10. Ascending
  BY <1>4, <1>9 DEF Ascending
<1>11. PagesDiffer
  BY <1>4, <1>5 DEF PagesDiffer, Ledger!DistinctPaths
<1>12. Owners
  BY <1>4, <1>6, <1>9 DEF Owners, Owns, Had, Writes
<1>13. TransactionsOK /\ Exclusive
  BY <1>6 DEF TransactionsOK, Exclusive
<1>14. HistoryOK
  <2> SUFFICES ASSUME NEW t \in Tenants PROVE HistoryOf(t) /\ history[t] = {}
    BY DEF HistoryOK
  <2>1. history[t] = {} /\ start[t] = 0 /\ revisions[t] = 0
    BY <1>1
  <2>2. Revisions(history[t]) = {} /\ 0 + 1 .. 0 = {} /\ 0 \in 0..0
    BY <2>1 DEF Revisions
  <2> QED BY <2>1, <2>2 DEF HistoryOf
<1>15. ReceiptsOK
  BY <1>1 DEF ReceiptsOK, ReceiptsAreReal
<1> QED BY <1>7, <1>8, <1>10, <1>11, <1>12, <1>13, <1>14, <1>15 DEF IInv

LEMMA StutterKeeps == ASSUME IInv, UNCHANGED vars PROVE IInv'
<1>1. /\ pages' = pages /\ nextID' = nextID /\ revisions' = revisions /\ adopted' = adopted
      /\ start' = start /\ history' = history /\ tx' = tx /\ read' = read /\ receipts' = receipts
  BY DEF vars
<1>2. TypeOK' /\ ReadIsCurrent' /\ Ascending' /\ PagesDiffer'
  BY <1>1 DEF IInv, TypeOK, ReadIsCurrent, Ascending, PagesDiffer
<1>3. Owners' /\ Exclusive'
  BY <1>1 DEF IInv, Owners, Owns, Had, Writes, Exclusive
<1>4. HistoryOK' /\ ReceiptsOK'
  BY <1>1 DEF IInv, HistoryOK, HistoryOf, Exact, ReceiptsOK, ReceiptsAreReal
<1>5. TransactionsOK'
  <2> SUFFICES ASSUME NEW v \in Writers, tx'[v] # NoTx PROVE TransactionOK(tx[v])'
    BY DEF TransactionsOK
  <2>1. PICK z : z = tx'[v]
    OBVIOUS
  <2>2. TransactionOK(z)
    BY <1>1, <2>1 DEF IInv, TransactionsOK
  <2>3. TransactionOK(z)'
    BY <1>1, <2>2, TransactionStays
  <2> QED BY <2>1, <2>3
<1> QED BY <1>2, <1>3, <1>4, <1>5 DEF IInv

LEMMA NextKeeps == IInv /\ [Next]_vars => IInv'
<1> SUFFICES ASSUME IInv, [Next]_vars PROVE IInv'
  OBVIOUS
<1>1. ASSUME NEW w \in Writers, NEW t \in Tenants, BeginWrite(w, t) PROVE IInv'
  BY <1>1, BeginWriteKeeps
<1>2. ASSUME NEW w \in Writers, ExecuteNext(w) PROVE IInv'
  BY <1>2, ExecuteKeeps DEF ExecuteNext
<1>3. ASSUME NEW w \in Writers, Abort(w) PROVE IInv'
  BY <1>3, AbortKeeps
<1>4. ASSUME NEW w \in Writers, NEW logged \in BOOLEAN, NEW answered \in BOOLEAN, Commit(w, logged, answered)
      PROVE  IInv'
  BY <1>4, CommitKeeps
<1>5. CASE Adopt
  BY <1>5, AdoptKeeps
<1>6. CASE UNCHANGED vars
  BY <1>6, StutterKeeps
<1> QED BY <1>1, <1>2, <1>3, <1>4, <1>5, <1>6 DEF Next

LEMMA Invariance == Spec => []IInv
BY InitOK, NextKeeps, PTL DEF Spec

(* Every state has the type TypeOK gives it: in particular no staged path  *)
(* is ever committed (store/postgres/batch.go:147-163).                    *)
THEOREM TypeCorrect == Spec => []TypeOK
<1>1. IInv => TypeOK
  BY DEF IInv
<1> QED BY <1>1, Invariance, PTL

(* A receipt is of two consecutive states its tenant really had, however   *)
(* transactions of other tenants interleave (store/postgres/batch.go:210). *)
THEOREM ReceiptsStayReal == Spec => []ReceiptsAreReal
<1>1. IInv => ReceiptsAreReal
  BY DEF IInv, ReceiptsOK
<1> QED BY <1>1, Invariance, PTL

--------------------------------------------------------------------------------
(* Histories whose events follow each other. *)

(* The events E are those of the revisions after a up to b. *)
Follow(E, a, b) ==
  /\ a <= b
  /\ Revisions(E) = a + 1 .. b
  /\ \A e, f \in E : e.revision = f.revision => e = f

Until(E, n) == {e \in E : e.revision <= n}
Since(E, n) == {e \in E : e.revision > n}

LEMMA MaxOfInterval ==
  ASSUME NEW a \in Nat, NEW b \in Nat, a < b
  PROVE  Max(a + 1 .. b) = b
<1>1. b \in a + 1 .. b /\ \A y \in a + 1 .. b : b >= y
  OBVIOUS
<1>2. \A x \in a + 1 .. b : (\A y \in a + 1 .. b : x >= y) => x = b
  OBVIOUS
<1> QED BY <1>1, <1>2 DEF Max

LEMMA MaxOfTwo ==
  ASSUME NEW a \in Nat, NEW b \in Nat
  PROVE  Max({a, b}) = IF a < b THEN b ELSE a
<1> DEFINE m == IF a < b THEN b ELSE a
<1>1. m \in {a, b} /\ \A y \in {a, b} : m >= y
  OBVIOUS
<1>2. \A x \in {a, b} : (\A y \in {a, b} : x >= y) => x = m
  OBVIOUS
<1> QED BY <1>1, <1>2 DEF Max

LEMMA FollowCardinality ==
  ASSUME NEW E, NEW a \in Nat, NEW b \in Nat, Follow(E, a, b)
  PROVE  Cardinality(E) = b - a /\ (E = {} <=> a = b)
<1>1. IsFiniteSet(a + 1 .. b) /\ Cardinality(a + 1 .. b) = b - a
  <2>1. a + 1 \in Int /\ b \in Int
    OBVIOUS
  <2>2. IsFiniteSet(a + 1 .. b) /\ Cardinality(a + 1 .. b) = IF a + 1 > b THEN 0 ELSE b - (a + 1) + 1
    BY <2>1, FS_Interval
  <2> QED BY <2>2 DEF Follow
<1>2. ExistsBijection(a + 1 .. b, E)
  <2> DEFINE f == [n \in a + 1 .. b |-> CHOOSE e \in E : e.revision = n]
  <2>1. \A n \in a + 1 .. b : \E e \in E : e.revision = n
    BY DEF Follow, Revisions
  <2>2. \A n \in a + 1 .. b : f[n] \in E /\ f[n].revision = n
    BY <2>1
  <2>3. \A e \in E : e.revision \in a + 1 .. b /\ f[e.revision] = e
    BY <2>2 DEF Follow, Revisions
  <2>4. f \in [a + 1 .. b -> E]
    BY <2>2
  <2>5. \A x, y \in a + 1 .. b : f[x] = f[y] => x = y
    BY <2>2
  <2>6. \A e \in E : \E x \in a + 1 .. b : f[x] = e
    BY <2>3
  <2>7. f \in Bijection(a + 1 .. b, E)
    BY <2>4, <2>5, <2>6 DEF Bijection, Injection, Surjection, IsInjective
  <2> QED BY <2>7 DEF ExistsBijection
<1>3. Cardinality(E) = b - a
  BY <1>1, <1>2, FS_Bijection
<1>4. E = {} <=> a + 1 .. b = {}
  BY DEF Follow, Revisions
<1>5. a + 1 .. b = {} <=> a = b
  BY DEF Follow
<1> QED BY <1>3, <1>4, <1>5

(* The events up to m, and those after it, follow each other too. *)
LEMMA FollowUpTo ==
  ASSUME NEW E, NEW a \in Nat, NEW b \in Nat, Follow(E, a, b), NEW m \in Nat, a <= m,
         NEW c \in Nat, c = IF m < b THEN m ELSE b
  PROVE  Follow(Until(E, m), a, c)
<1>1. Revisions(Until(E, m)) = {n \in Revisions(E) : n <= m}
  BY DEF Revisions, Until
<1>2. {n \in a + 1 .. b : n <= m} = a + 1 .. c
  BY DEF Follow
<1>3. a <= c
  BY DEF Follow
<1> QED BY <1>1, <1>2, <1>3 DEF Follow, Until

LEMMA FollowAfter ==
  ASSUME NEW E, NEW a \in Nat, NEW b \in Nat, Follow(E, a, b), NEW m \in Nat, m <= b,
         NEW c \in Nat, c = IF a < m THEN m ELSE a
  PROVE  Follow(Since(E, m), c, b)
<1>1. Revisions(Since(E, m)) = {n \in Revisions(E) : n > m}
  BY DEF Revisions, Since
<1>2. {n \in a + 1 .. b : n > m} = c + 1 .. b
  OBVIOUS
<1>3. c <= b
  BY DEF Follow
<1> QED BY <1>1, <1>2, <1>3 DEF Follow, Since

(* The first n of events that follow each other are the n after a. *)
LEMMA FirstOf ==
  ASSUME NEW E, NEW a \in Nat, NEW b \in Nat, Follow(E, a, b), NEW n \in Nat
  PROVE  First(E, n) = Until(E, a + n)
<1> SUFFICES ASSUME NEW e \in E
             PROVE  Cardinality({o \in E : o.revision < e.revision}) < n <=> e.revision <= a + n
  BY DEF First, Until
<1>1. \A o \in E : o.revision \in a + 1 .. b
  BY DEF Follow, Revisions
<1>2. PICK r \in Nat : r = e.revision /\ a + 1 <= r /\ r <= b
  BY <1>1
<1>3. PICK m \in Nat : m = r - 1 /\ a <= m /\ m < b
  BY <1>2
<1>4. {o \in E : o.revision < e.revision} = Until(E, m)
  <2>1. \A o \in E : o.revision < r <=> o.revision <= m
    BY <1>1, <1>3
  <2> QED BY <1>2, <2>1 DEF Until
<1>5. Follow(Until(E, m), a, m)
  BY <1>3, FollowUpTo
<1>6. Cardinality({o \in E : o.revision < e.revision}) = m - a
  BY <1>4, <1>5, FollowCardinality
<1> QED BY <1>2, <1>3, <1>6

(* The saved events follow each other from the marker up to their head. *)
LEMMA HistoryFollows ==
  ASSUME IInv, NEW t \in Tenants
  PROVE  /\ start[t] \in Nat /\ revisions[t] \in Nat
         /\ \E n \in Nat : n <= revisions[t] /\ Follow(history[t], start[t], n) /\ HistoryHead(t) = n
<1>1. start[t] \in Nat /\ revisions[t] \in Nat
  BY BoundsAssumption DEF IInv, TypeOK
<1>2. HistoryOf(t)
  BY DEF IInv, HistoryOK
<1>3. PICK n \in start[t]..revisions[t] : Revisions(history[t]) = start[t] + 1 .. n
  BY <1>2 DEF HistoryOf
<1>4. n \in Nat /\ n <= revisions[t] /\ start[t] <= n
  BY <1>1, <1>3
<1>5. Follow(history[t], start[t], n)
  BY <1>2, <1>3, <1>4 DEF Follow, HistoryOf
<1>6. HistoryHead(t) = n
  <2>1. CASE history[t] = {}
    BY <1>1, <1>4, <1>5, <2>1, FollowCardinality DEF HistoryHead
  <2>2. CASE history[t] # {}
    <3>1. start[t] < n
      BY <1>1, <1>4, <1>5, <2>2, FollowCardinality
    <3> QED BY <1>1, <1>3, <1>4, <2>2, <3>1, MaxOfInterval DEF HistoryHead
  <2> QED BY <2>1, <2>2
<1> QED BY <1>1, <1>4, <1>5, <1>6

(* What a reader gets who is at a cursor: the rows right after it, and of  *)
(* those the ones that fit.                                                *)
LEMMA RowsFollow ==
  ASSUME NEW t \in Tenants, NEW a \in Nat, a = start[t], NEW r \in Nat, NEW after \in 0..r,
         Follow(history[t], a, r), NEW f \in Nat, f = IF a < after THEN after ELSE a,
         NEW m \in Nat, m = IF f + (Limit + 1) < r THEN f + (Limit + 1) ELSE r,
         NEW k \in Nat, k = IF f + Limit < r THEN f + Limit ELSE r
  PROVE  /\ From(t, after) = f /\ f <= r
         /\ Follow(Rows(t, after), f, m)
         /\ Follow(First(Rows(t, after), Limit), f, k)
<1>1. Limit \in Nat /\ Limit > 0 /\ after \in Nat /\ after <= r
  BY LimitAssumption
<1>2. From(t, after) = f
  <2>1. Max({after, a}) = IF after < a THEN a ELSE after
    BY <1>1, MaxOfTwo
  <2> QED BY <1>1, <2>1 DEF From
<1>3. PICK F : F = Since(history[t], after)
  OBVIOUS
<1>4. Follow(F, f, r)
  BY <1>1, <1>3, FollowAfter
<1>5. f <= r
  BY <1>4 DEF Follow
<1>6. PICK n \in Nat : n = Limit + 1
  BY <1>1
<1>7. PICK p \in Nat : p = f + n /\ f <= p
  BY <1>6
<1>8. Rows(t, after) = Until(F, p)
  <2>1. First(F, n) = Until(F, f + n)
    BY <1>4, FirstOf
  <2> QED BY <1>3, <1>6, <1>7, <2>1 DEF Rows, Since
<1>9. Follow(Rows(t, after), f, m)
  <2>1. m = IF p < r THEN p ELSE r
    BY <1>6, <1>7
  <2>2. Follow(Until(F, p), f, m)
    BY <1>4, <1>7, <2>1, FollowUpTo
  <2> QED BY <1>8, <2>2
<1>10. PICK q \in Nat : q = f + Limit /\ f <= q
  BY <1>1
<1>11. First(Rows(t, after), Limit) = Until(Rows(t, after), q)
  <2>1. First(Rows(t, after), Limit) = Until(Rows(t, after), f + Limit)
    BY <1>1, <1>9, FirstOf
  <2> QED BY <1>10, <2>1
<1>12. Follow(First(Rows(t, after), Limit), f, k)
  <2>1. k = IF q < m THEN q ELSE m
    BY <1>1, <1>10
  <2>2. Follow(Until(Rows(t, after), q), f, k)
    BY <1>9, <1>10, <2>1, FollowUpTo
  <2> QED BY <1>11, <2>2
<1> QED BY <1>2, <1>5, <1>9, <1>12

LEMMA AvailableIs ==
  ASSUME IInv, NEW t \in Tenants, NEW after \in 0..revisions[t]
  PROVE  Available(t, after) <=> Follow(history[t], start[t], revisions[t])
<1>1. PICK a \in Nat, r \in Nat, n \in Nat :
         a = start[t] /\ r = revisions[t] /\ n <= r /\ Follow(history[t], a, n) /\ HistoryHead(t) = n
  BY HistoryFollows
<1>2. ASSUME Available(t, after) PROVE Follow(history[t], start[t], revisions[t])
  BY <1>1, <1>2 DEF Available
<1>3. ASSUME Follow(history[t], start[t], revisions[t]) PROVE Available(t, after)
  <2>1. n = r
    <3>1. a + 1 .. n = a + 1 .. r /\ a <= n /\ a <= r
      BY <1>1, <1>3 DEF Follow
    <3> QED BY <1>1, <3>1
  <2>a. after \in 0..r /\ Follow(history[t], a, r)
    BY <1>1, <1>3
  <2>b. PICK f \in Nat : f = IF a < after THEN after ELSE a
    BY <2>a
  <2>2. PICK m \in Nat, k \in Nat :
          /\ m = IF f + (Limit + 1) < r THEN f + (Limit + 1) ELSE r
          /\ k = IF f + Limit < r THEN f + Limit ELSE r
    BY LimitAssumption
  <2>3. From(t, after) = f /\ f <= r /\ Follow(Rows(t, after), f, m)
    BY <1>1, <2>a, <2>b, <2>2, RowsFollow
  <2>4. Cardinality(Rows(t, after)) = m - f /\ Revisions(Rows(t, after)) = f + 1 .. m
    BY <2>3, FollowCardinality DEF Follow
  <2>5. f + (m - f) = m
    BY <2>2
  <2> QED BY <1>1, <2>1, <2>3, <2>4, <2>5 DEF Available
<1> QED BY <1>2, <1>3

(* The answers of ReadPageHistory (store/postgres/history.go). *)
LEMMA AnswerIs ==
  ASSUME IInv, NEW t \in Tenants, NEW after \in 0..revisions[t], Available(t, after)
  PROVE  LET a == Answer(t, after)
             from == IF after < start[t] THEN start[t] ELSE after
         IN /\ Revisions(a.entries) = {n \in from + 1 .. revisions[t] : n <= a.next}
            /\ Cardinality(a.entries) <= Limit
            /\ ~a.more => revisions[t] \in {a.next, start[t]}
<1>1. PICK a \in Nat, r \in Nat : a = start[t] /\ r = revisions[t]
  BY HistoryFollows
<1>2. Follow(history[t], a, r)
  BY <1>1, AvailableIs
<1>3. PICK f \in Nat : f = (IF after < start[t] THEN start[t] ELSE after) /\ f = (IF a < after THEN after ELSE a)
  BY <1>1
<1>4. PICK m \in Nat, k \in Nat :
        /\ m = IF f + (Limit + 1) < r THEN f + (Limit + 1) ELSE r
        /\ k = IF f + Limit < r THEN f + Limit ELSE r
  BY <1>1, LimitAssumption
<1>5. f <= r /\ Follow(Rows(t, after), f, m) /\ Follow(First(Rows(t, after), Limit), f, k)
  BY <1>1, <1>2, <1>3, <1>4, RowsFollow
<1>6. PICK A : A = First(Rows(t, after), Limit)
  OBVIOUS
<1>7. /\ Revisions(A) = f + 1 .. k /\ Cardinality(A) = k - f /\ (A = {} <=> f = k)
      /\ Cardinality(Rows(t, after)) = m - f
  BY <1>5, <1>6, FollowCardinality DEF Follow
<1>8. PICK z : z = Answer(t, after)
  OBVIOUS
<1>9. PICK next \in Nat : next = z.next /\ next = IF f = k THEN after ELSE k
  <2>1. z.next = IF A = {} THEN after ELSE Max(Revisions(A))
    BY <1>6, <1>8 DEF Answer
  <2>2. CASE f = k
    BY <1>7, <2>1, <2>2
  <2>3. CASE f # k
    <3>1. f < k
      BY <1>5, <2>3 DEF Follow
    <3> QED BY <1>7, <2>1, <2>3, <3>1, MaxOfInterval
  <2> QED BY <2>2, <2>3
<1>10. z.entries = A /\ z.more = (Cardinality(Rows(t, after)) > Limit)
  BY <1>6, <1>8 DEF Answer
<1>11. Limit \in Nat /\ Limit > 0 /\ after \in Nat /\ after <= r
  BY <1>1, LimitAssumption
<1>12. f = k => f = r
  BY <1>4, <1>5, <1>11
<1>13. f + 1 .. k = {n \in f + 1 .. r : n <= next}
  BY <1>3, <1>4, <1>5, <1>9, <1>11, <1>12
<1>14. k - f <= Limit
  BY <1>4, <1>5, <1>11
<1>15. m - f <= Limit => r \in {next, a}
  BY <1>3, <1>4, <1>5, <1>9, <1>11, <1>12
<1>16. z.more = (m - f > Limit)
  BY <1>7, <1>10
<1>17. ASSUME ~z.more PROVE r \in {next, a}
  <2>1. ~(m - f > Limit)
    BY <1>16, <1>17
  <2>2. m - f <= Limit
    BY <1>11, <2>1
  <2> QED BY <1>15, <2>2
<1> QED BY <1>1, <1>3, <1>7, <1>8, <1>9, <1>10, <1>13, <1>14, <1>17

(* The saved events are those from the marker on, each what its write      *)
(* changed, and a history with a gap behind it is never answered: its      *)
(* events end at the gap (store/postgres/history.go:25, appendPageHistory).      *)
THEOREM HistoryNeverHidesAGap == Spec => []HistoryEndsAtFirstGap
<1>1. IInv => HistoryEndsAtFirstGap
  <2> SUFFICES ASSUME IInv, NEW t \in Tenants
               PROVE  /\ adopted => \A after \in 0..revisions[t] :
                           Available(t, after) <=> start[t] + 1 .. revisions[t] \subseteq Revisions(history[t])
                      /\ Revisions(history[t]) = start[t] + 1 .. start[t] + Cardinality(history[t])
                      /\ \A e \in history[t] : Exact(t, e)
    BY DEF HistoryEndsAtFirstGap, Exact
  <2>1. PICK a \in Nat, r \in Nat, n \in Nat :
          a = start[t] /\ r = revisions[t] /\ n <= r /\ Follow(history[t], a, n)
    BY HistoryFollows
  <2>2. Revisions(history[t]) = a + 1 .. n /\ a <= n /\ Cardinality(history[t]) = n - a
    BY <2>1, FollowCardinality DEF Follow
  <2>3. a + (n - a) = n
    BY <2>1
  <2>4. (a + 1 .. r \subseteq a + 1 .. n) <=> n = r
    <3>1. ASSUME n # r PROVE r \in a + 1 .. r /\ r \notin a + 1 .. n
      BY <2>1, <2>2, <3>1
    <3> QED BY <3>1
  <2>5. Follow(history[t], a, r) <=> n = r
    <3>1. ASSUME Follow(history[t], a, r) PROVE n = r
      BY <2>2, <2>4, <3>1 DEF Follow
    <3> QED BY <2>1, <3>1
  <2>6. \A e \in history[t] : Exact(t, e)
    BY DEF IInv, HistoryOK
  <2> QED BY <2>1, <2>2, <2>3, <2>4, <2>5, <2>6, AvailableIs
<1> QED BY <1>1, Invariance, PTL

(* An answer goes on right after its cursor, and is the last only at the   *)
(* tenant's revision (store/postgres/history.go:51, ReadPageHistory).         *)
THEOREM AnswersStayExact == Spec => []AnswersAreExact
<1>1. IInv => AnswersAreExact
  BY AnswerIs DEF AnswersAreExact
<1> QED BY <1>1, Invariance, PTL

--------------------------------------------------------------------------------
(* Each commit is a legal write of the ledger, and nothing else is. *)

LEMMA CommitIsWrite ==
  ASSUME IInv, NEW w \in Writers, NEW logged \in BOOLEAN, NEW answered \in BOOLEAN, Commit(w, logged, answered)
  PROVE  \E t \in Tenants : Ledger!Write(t)
<1>1. PICK x \in Transaction : x = tx[w]
  BY TransactionType DEF IInv, Commit
<1>2. /\ tx[w] # NoTx /\ x.todo = {} /\ x.tenant \in Tenants
      /\ read' = [read EXCEPT ![x.tenant] = Append(@, P!StatesOf(Written(x), x.tenant))]
  BY <1>1 DEF Commit, Transaction
<1>3. PICK t \in Tenants : t = x.tenant
  BY <1>2
<1>4. PICK r \in Nat : /\ r = revisions[t] /\ Len(read[t]) = r + 1 /\ read[t] \in Seq(P!PageSets(P!State))
                       /\ DOMAIN read[t] = 1..(r + 1)
  BY ReadType DEF IInv, ReadIsCurrent
<1>5. /\ Len(read'[t]) = r + 2 /\ read'[t][r + 2] = x.rows
      /\ read[t][r + 1] = x.before
  BY <1>1, <1>3, <1>4, CommitIs DEF Committed
<1>6. P!StatesOf(Written(x), t) = x.rows
  BY <1>1, <1>2, <1>3, WrittenIs
<1>7. TransactionOK(x)
  BY <1>1, <1>2 DEF IInv, TransactionsOK
<1>8. x.rows # x.before /\ Ledger!DistinctPaths(x.rows)
  BY <1>2, <1>7, RowsAtCommit DEF TransactionOK, IInv
<1>9. ASSUME NEW i \in P!ID PROVE x.rows[i] \in {Absent, x.before[i]} \/ Ledger!FreshSave(t, i, x.rows)
  <2> SUFFICES ASSUME x.rows[i] # Absent, x.rows[i] # x.before[i] PROVE Ledger!FreshSave(t, i, x.rows)
    OBVIOUS
  <2>1. Newer(t, i, x.rows[i].version)
    BY <1>2, <1>3, <1>7, RowsAtCommit DEF IInv
  <2>2. Owns(t, i)
    BY <1>1, <1>2, <1>3 DEF Owns, Writes
  <2>3. \A u \in Tenants \ {t} : ~Had(u, i)
    BY <2>2 DEF IInv, Owners, Owns
  <2> QED BY <2>1, <2>3 DEF Newer, Had, Ledger!FreshSave, Ledger!Had
<1>10. PICK m \in Nat : m = Len(read[t]) /\ m = r + 1 /\ m + 1 = r + 2
  BY <1>4
<1>11. /\ Len(read'[t]) = m + 1 /\ read'[t][m + 1] = x.rows /\ read[t][m] = x.before
       /\ read' = [read EXCEPT ![t] = Append(@, x.rows)]
  BY <1>2, <1>3, <1>5, <1>6, <1>10
<1>12. Ledger!Write(t)
  BY <1>8, <1>9, <1>10, <1>11 DEF Ledger!Write
<1> QED BY <1>12

LEMMA NextIsLedger == IInv /\ [Next]_vars => [Ledger!Next]_read
<1> SUFFICES ASSUME IInv, [Next]_vars PROVE [Ledger!Next]_read
  OBVIOUS
<1>1. ASSUME NEW w \in Writers, NEW t \in Tenants, BeginWrite(w, t) PROVE read' = read
  BY <1>1 DEF BeginWrite, Create, Update, Delete, ApplyPageBatch, RollbackPageBatch, ApplyBatch, Begin
<1>2. ASSUME NEW w \in Writers, ExecuteNext(w) PROVE read' = read
  BY <1>2 DEF ExecuteNext, Execute
<1>3. ASSUME NEW w \in Writers, Abort(w) PROVE read' = read
  BY <1>3 DEF Abort
<1>4. ASSUME NEW w \in Writers, NEW logged \in BOOLEAN, NEW answered \in BOOLEAN, Commit(w, logged, answered)
      PROVE  Ledger!Next
  BY <1>4, CommitIsWrite DEF Ledger!Next
<1>5. CASE Adopt
  BY <1>5 DEF Adopt
<1>6. CASE UNCHANGED vars
  BY <1>6 DEF vars
<1> QED BY <1>1, <1>2, <1>3, <1>4, <1>5, <1>6 DEF Next

(* The Postgres store implements the ledger of PageLedger, as the          *)
(* in-memory store does: of a transaction its callers see one legal write  *)
(* or nothing (store/postgres/batch.go:21, pageTransaction).                *)
THEOREM ImplementsLedger == Spec => LedgerSpec
<1>1. Init => Ledger!Init
  BY DEF Init, Ledger!Init, P!NoPages
<1> QED BY <1>1, NextIsLedger, Invariance, PTL DEF Spec, LedgerSpec, Ledger!Spec

--------------------------------------------------------------------------------
(* Batches go through. *)

(* What a statement of batch b is: a change of a page is told by its id. *)
LEMMA BatchStatementIs ==
  ASSUME NEW t, NEW b, Presentable(t, b), NEW s \in BatchStatements(b)
  PROVE  /\ s.kind \in {"stage", "delete", "update", "restore", "create"}
         /\ s.kind = "stage" => Moves(b, s)
         /\ s.kind \in {"delete", "update", "restore"} => Mutates(b, s)
         /\ s.kind = "create" => Creates(b, s)
<1>1. CASE Moves(b, s)
  BY <1>1 DEF Moves
<1>2. CASE Mutates(b, s)
  BY <1>2 DEF Mutates, Presentable, MutationOK
<1>3. CASE Creates(b, s)
  BY <1>3 DEF Creates
<1> QED BY <1>1, <1>2, <1>3, BatchStatementKinds

(* The batch changes each page it has a mutation for, and moves first      *)
(* those that change their path.                                           *)
LEMMA MutationHasStatement ==
  ASSUME NEW t, NEW b, Presentable(t, b), NEW i \in P!ID, b.targets[i].kind # "none"
  PROVE  \E s \in BatchStatements(b) : s.id = i /\ s.kind = b.targets[i].kind /\ s.kind # "stage"
<1>1. PICK s : s = Statement(b.targets[i].kind, i, b.targets[i].version, b.targets[i].content)
  OBVIOUS
<1>2. s.kind = b.targets[i].kind /\ s.id = i /\ s.version = b.targets[i].version /\ s.content = b.targets[i].content
  BY <1>1 DEF Statement
<1>3. Mutates(b, s)
  BY <1>1, <1>2 DEF Mutates
<1>4. s.kind # "stage"
  BY <1>2 DEF Presentable, MutationOK
<1> QED BY <1>2, <1>3, <1>4, BatchStatementKinds

LEMMA MoveHasStatement ==
  ASSUME NEW b, NEW i \in P!ID, b.targets[i].kind = "update",
         b.targets[i].content.path # b.baseline[i].content.path
  PROVE  \E s \in BatchStatements(b) : s.id = i /\ s.kind = "stage"
<1>1. PICK s : s = Statement("stage", i, b.targets[i].version, Staged(i, b.baseline[i].content))
  OBVIOUS
<1>2. /\ s.kind = "stage" /\ s.id = i /\ s.version = b.targets[i].version
      /\ s.content = Staged(i, b.baseline[i].content)
  BY <1>1 DEF Statement
<1>3. Moves(b, s)
  BY <1>1, <1>2 DEF Moves
<1> QED BY <1>2, <1>3, BatchStatementKinds

(* What a page comes to when its batch has run is the outcome that the     *)
(* check of the batch looked at.                                           *)
LEMMA EndIsOutcome ==
  ASSUME IInv, NEW t \in Tenants, NEW b, NEW allowRestore, P!CheckPageBatch(t, b, allowRestore),
         Presentable(t, b), NEW operation, NEW x, x = Begun(t, operation, BatchStatements(b)),
         NEW i \in P!ID, NEW p, Ends(x, i, p)
  PROVE  LET o == P!OutcomeOf(P!StatesOf(pages, t)[i], b.targets[i]) IN o # Absent /\ o.path = p
<1>1. x.todo = BatchStatements(b) /\ x.rows = P!StatesOf(pages, t)
  BY DEF Begun
<1>2. CASE /\ x.rows[i] # Absent /\ x.rows[i].content.path = p
           /\ \A s \in x.todo : s.id = i => s.kind = "stage"
  <2>1. b.targets[i].kind = "none"
    BY <1>1, <1>2, MutationHasStatement
  <2>2. x.rows[i] \in P!State
    BY <1>1, <1>2, CurrentIsNewest DEF IInv
  <2>3. x.rows[i].content # Absent
    BY <2>2, StateFacts DEF P!State
  <2> QED BY <1>1, <1>2, <2>1, <2>3 DEF P!OutcomeOf
<1>3. CASE \E s \in x.todo : s.id = i /\ s.kind \in {"update", "restore"} /\ s.content.path = p
  <2>1. PICK s \in x.todo : s.id = i /\ s.kind \in {"update", "restore"} /\ s.content.path = p
    BY <1>3
  <2>2. Mutates(b, s)
    BY <1>1, <2>1, BatchStatementIs
  <2>3. b.targets[i].kind \in {"update", "restore"} /\ b.targets[i].content = s.content
    BY <2>1, <2>2 DEF Mutates
  <2>4. b.targets[i].content \in P!Content
    BY <2>3 DEF Presentable, MutationOK
  <2>5. b.targets[i].content # Absent
    BY <2>4, StateFacts
  <2> QED BY <2>1, <2>3, <2>5 DEF P!OutcomeOf
<1> QED BY <1>2, <1>3 DEF Ends

LEMMA BatchBegins ==
  ASSUME IInv, NEW t \in Tenants, NEW b, NEW allowRestore, P!CheckPageBatch(t, b, allowRestore),
         Presentable(t, b), NEW operation
  PROVE  BatchOK(Begun(t, operation, BatchStatements(b)))
<1> DEFINE states == P!StatesOf(pages, t)
           Kept(i) == P!OutcomeOf(states[i], b.targets[i])
<1>1. PICK x : x = Begun(t, operation, BatchStatements(b))
  OBVIOUS
<1>2. x.tenant = t /\ x.todo = BatchStatements(b) /\ x.rows = states
  BY <1>1 DEF Begun
<1>3. /\ \A i, j \in P!ID : Kept(i) # Absent /\ Kept(j) # Absent /\ Kept(i).path = Kept(j).path => i = j
      /\ \A k \in DOMAIN b.creates :
           /\ \A i \in P!ID : Kept(i) # Absent => Kept(i).path # b.creates[k].path
           /\ \A l \in DOMAIN b.creates : b.creates[l].path = b.creates[k].path => k = l
  <2>1. P!OutcomeOK(states, b)
    BY DEF P!CheckPageBatch
  <2> HIDE DEF states
  <2> QED BY <2>1 DEF P!OutcomeOK, P!IDsOf
<1>4. b.baseline = states
  BY DEF P!CheckPageBatch, P!BaselineMatches
<1>5. ASSUME NEW i \in P!ID, b.targets[i].kind \in {"update", "delete"}
      PROVE  states[i] # Absent /\ states[i].version = b.targets[i].version
  BY <1>5, CheckedMutation DEF Presentable
<1>6. OneChange(x)
  <2> SUFFICES ASSUME NEW s \in x.todo, NEW o \in x.todo, s.id = o.id,
                      s.kind \notin {"create", "stage"}, o.kind \notin {"create", "stage"}
               PROVE  s = o
    BY DEF OneChange
  <2>1. Mutates(b, s) /\ Mutates(b, o)
    BY <1>2, BatchStatementIs
  <2> QED BY <2>1 DEF Mutates
<1>7. RowsFound(x)
  <2> SUFFICES ASSUME NEW s \in x.todo PROVE Found(x.rows, s)
    BY DEF RowsFound
  <2>1. s.kind \in {"stage", "delete", "update", "restore", "create"}
    BY <1>2, BatchStatementIs
  <2>2. CASE s.kind = "stage"
    <3>1. s.id \in P!ID /\ b.targets[s.id].kind = "update" /\ s.version = b.targets[s.id].version
      BY <1>2, <2>2, BatchStatementIs DEF Moves
    <3> QED BY <1>2, <1>5, <2>2, <3>1 DEF Found
  <2>3. CASE s.kind \in {"delete", "update"}
    <3>1. s.id \in P!ID /\ b.targets[s.id].kind = s.kind /\ s.version = b.targets[s.id].version
      BY <1>2, <2>3, BatchStatementIs DEF Mutates
    <3> QED BY <1>2, <1>5, <2>3, <3>1 DEF Found
  <2>4. CASE s.kind = "restore"
    <3>1. s.id \in P!ID /\ b.targets[s.id].kind = "restore"
      BY <1>2, <2>4, BatchStatementIs DEF Mutates
    <3>2. states[s.id] = Absent
      BY <3>1, CheckedMutation DEF Presentable
    <3> QED BY <1>2, <2>4, <3>2 DEF Found
  <2>5. CASE s.kind = "create"
    BY <2>5 DEF Found
  <2> QED BY <2>1, <2>2, <2>3, <2>4, <2>5
<1>8. \A i \in P!ID : \A p : Ends(x, i, p) => Kept(i) # Absent /\ Kept(i).path = p
  BY <1>1, EndIsOutcome
<1>9. EndsDiffer(x)
  <2> HIDE DEF Kept
  <2>1. \A i, j \in P!ID, p \in Paths : Ends(x, i, p) /\ Ends(x, j, p) => i = j
    BY <1>3, <1>8
  <2>2. ASSUME NEW s \in x.todo, s.kind = "create"
        PROVE  /\ \A i \in P!ID : ~Ends(x, i, s.content.path)
               /\ \A o \in x.todo : o.kind = "create" /\ o.content.path = s.content.path => o = s
    <3>1. PICK k \in DOMAIN b.creates : s = Statement("create", 0, P!FirstVersion, b.creates[k])
                                        /\ s.content = b.creates[k]
      BY <1>2, <2>2, BatchStatementIs DEF Creates
    <3>2. \A i \in P!ID : ~Ends(x, i, s.content.path)
      BY <1>3, <1>8, <3>1
    <3>3. ASSUME NEW o \in x.todo, o.kind = "create", o.content.path = s.content.path
          PROVE  o = s
      <4>1. PICK l \in DOMAIN b.creates : o = Statement("create", 0, P!FirstVersion, b.creates[l])
                                          /\ o.content = b.creates[l]
        BY <1>2, <3>3, BatchStatementIs DEF Creates
      <4>2. l = k
        BY <1>3, <3>1, <3>3, <4>1
      <4> QED BY <3>1, <4>1, <4>2
    <3> QED BY <3>2, <3>3
  <2> QED BY <2>1, <2>2 DEF EndsDiffer
<1>10. RowsStaged(x)
  <2>1. ASSUME NEW i \in P!ID, x.rows[i] # Absent PROVE x.rows[i].content.path \in Paths
    <3>1. x.rows[i] \in P!State
      BY <1>2, <2>1, CurrentIsNewest DEF IInv
    <3> QED BY <3>1 DEF P!State, P!Content
  <2>2. ASSUME NEW s \in x.todo, s.kind = "stage" PROVE s.content.path = StagedPath(s.id)
    <3>1. s.content = Staged(s.id, b.baseline[s.id].content)
      BY <1>2, <2>2, BatchStatementIs DEF Moves
    <3> QED BY <3>1 DEF Staged
  <2>3. ASSUME NEW s \in x.todo, s.kind = "update", x.rows[s.id].content.path # s.content.path
        PROVE  \E o \in x.todo : o.kind = "stage" /\ o.id = s.id
    <3>1. s.id \in P!ID /\ b.targets[s.id].kind = "update" /\ s.content = b.targets[s.id].content
      BY <1>2, <2>3, BatchStatementIs DEF Mutates
    <3>2. b.targets[s.id].content.path # b.baseline[s.id].content.path
      BY <1>2, <1>4, <2>3, <3>1
    <3> QED BY <1>2, <3>1, <3>2, MoveHasStatement
  <2> QED BY <2>1, <2>2, <2>3 DEF RowsStaged
<1> QED BY <1>1, <1>6, <1>7, <1>9, <1>10 DEF BatchOK

(* A statement leaves of its batch what it found, less itself. *)
LEMMA StatementKeepsBatch ==
  ASSUME NEW x \in Transaction, TransactionOK(x), BatchOK(x), NEW s \in x.todo,
         s \in Ready(x), NEW id \in P!ID, s.kind # "create" => id = s.id,
         s.kind = "create" => \A o \in x.todo : o.id # id,
         NEW y, After(x, s, id, y)
  PROVE  BatchOK(y)
<1>0. s \in Statements /\ StatementOK(x, s) /\ x.rows \in P!PageSets(Row)
  BY DEF Transaction, TransactionOK
<1>1. y.todo = x.todo \ {s} /\ y.rows[id] = RowAfter(s) /\ \A i \in P!ID : i # id => y.rows[i] = x.rows[i]
  BY <1>0 DEF After, P!PageSets
<1>2. s.kind \in {"stage", "delete", "create", "update", "restore"}
  BY <1>0, StatementParts
<1>3. /\ s.kind = "create" => s.id = 0
      /\ s.kind # "create" => s.id = id
      /\ \A o \in x.todo : o.kind # "create" => o.id \in P!ID
      /\ 0 \notin P!ID
  BY DEF TransactionOK, StatementOK, P!ID
<1>4. /\ s.kind = "delete" => RowAfter(s) = Absent
      /\ s.kind # "delete" => RowAfter(s) # Absent /\ RowAfter(s).content = s.content
      /\ s.kind = "stage" => RowAfter(s).version = s.version
  BY <1>0, RowAfterIs
(* A statement left for the row just written was staged for. *)
<1>5. ASSUME NEW o \in y.todo, o.id = id, o.kind # "create" PROVE s.kind = "stage"
  <2>1. o \in x.todo /\ o # s /\ s.kind # "create"
    BY <1>1, <1>5
  <2>2. CASE o.kind = "stage"
    <3>1. Rank[s.kind] <= Rank[o.kind]
      BY <2>1 DEF Ready
    <3> QED BY <1>2, <2>2, <3>1 DEF Rank
  <2>3. CASE o.kind # "stage"
    BY <1>3, <1>5, <2>1, <2>3 DEF BatchOK, OneChange
  <2> QED BY <2>2, <2>3
<1>6. OneChange(y)
  BY <1>1 DEF BatchOK, OneChange
<1>7. RowsFound(y)
  <2> SUFFICES ASSUME NEW o \in y.todo, o.kind # "create" PROVE Found(y.rows, o)
    BY DEF RowsFound, Found
  <2>1. Found(x.rows, o) /\ Found(x.rows, s) /\ o \in x.todo /\ o.id \in P!ID
    BY <1>1, <1>3 DEF BatchOK, RowsFound
  <2>2. CASE o.id # id
    BY <1>1, <2>1, <2>2 DEF Found
  <2>3. CASE o.id = id
    <3>1. s.kind = "stage"
      BY <1>5, <2>3
    <3>2. x.rows[id] # Absent /\ x.rows[id].version = s.version
      BY <1>3, <2>1, <3>1 DEF Found
    <3>3. y.rows[id] # Absent /\ y.rows[id].version = s.version
      BY <1>1, <1>4, <3>1
    <3> QED BY <2>1, <2>3, <3>2, <3>3 DEF Found
  <2> QED BY <2>2, <2>3
<1>8. ASSUME NEW i \in P!ID, NEW p, Ends(y, i, p)
      PROVE  Ends(x, i, p) \/ (s.kind = "create" /\ i = id /\ p = s.content.path)
  <2>1. CASE \E o \in y.todo : o.id = i /\ o.kind \in {"update", "restore"} /\ o.content.path = p
    BY <1>1, <2>1 DEF Ends
  <2>2. CASE /\ y.rows[i] # Absent /\ y.rows[i].content.path = p
             /\ \A o \in y.todo : o.id = i => o.kind = "stage"
    <3>1. CASE i # id
      <4>1. s.id # i
        BY <1>3, <3>1
      <4> QED BY <1>1, <2>2, <3>1, <4>1 DEF Ends
    <3>2. CASE i = id /\ s.kind = "stage"
      <4>1. PICK o \in x.todo : o.kind = "update" /\ o.id = id
        BY <1>0, <1>3, <3>2 DEF StatementOK, Updates
      <4>2. o \in y.todo
        BY <1>1, <3>2, <4>1
      <4> QED BY <2>2, <3>2, <4>1, <4>2
    <3>3. CASE i = id /\ s.kind = "delete"
      BY <1>1, <1>4, <2>2, <3>3
    <3>4. CASE i = id /\ s.kind \in {"create", "update", "restore"}
      <4>1. p = s.content.path
        BY <1>1, <1>4, <2>2, <3>4
      <4> QED BY <1>3, <3>4, <4>1 DEF Ends
    <3> QED BY <1>2, <3>1, <3>2, <3>3, <3>4
  <2> QED BY <1>8, <2>1, <2>2 DEF Ends
<1>9. EndsDiffer(y)
  <2>1. \A i \in P!ID : s.kind = "create" => ~Ends(x, i, s.content.path)
    BY DEF BatchOK, EndsDiffer
  <2>2. \A i, j \in P!ID, p \in Paths : Ends(x, i, p) /\ Ends(x, j, p) => i = j
    BY DEF BatchOK, EndsDiffer
  <2>3. \A i, j \in P!ID, p \in Paths : Ends(y, i, p) /\ Ends(y, j, p) => i = j
    BY <1>8, <2>1, <2>2
  <2>4. ASSUME NEW o \in y.todo, o.kind = "create"
        PROVE  /\ \A i \in P!ID : ~Ends(y, i, o.content.path)
               /\ \A q \in y.todo : q.kind = "create" /\ q.content.path = o.content.path => q = o
    <3>1. o \in x.todo /\ o # s
      BY <1>1
    <3>2. /\ \A i \in P!ID : ~Ends(x, i, o.content.path)
          /\ \A q \in x.todo : q.kind = "create" /\ q.content.path = o.content.path => q = o
      BY <2>4, <3>1 DEF BatchOK, EndsDiffer
    <3>3. s.kind = "create" => s.content.path # o.content.path
      BY <3>1, <3>2
    <3> QED BY <1>1, <1>8, <3>2, <3>3
  <2> QED BY <2>3, <2>4 DEF EndsDiffer
<1>10. RowsStaged(y)
  <2>1. ASSUME NEW i \in P!ID, y.rows[i] # Absent
        PROVE  y.rows[i].content.path \in Paths \union {StagedPath(i)}
    <3>1. CASE i # id
      BY <1>1, <2>1, <3>1 DEF BatchOK, RowsStaged
    <3>2. CASE i = id /\ s.kind = "stage"
      BY <1>1, <1>3, <1>4, <3>2 DEF BatchOK, RowsStaged
    <3>3. CASE i = id /\ s.kind \in {"create", "update", "restore"}
      <4>1. s.content \in P!Content
        BY <1>0, <3>3 DEF StatementOK
      <4> QED BY <1>1, <1>4, <3>3, <4>1 DEF P!Content
    <3>4. CASE i = id /\ s.kind = "delete"
      BY <1>1, <1>4, <2>1, <3>4
    <3> QED BY <1>2, <3>1, <3>2, <3>3, <3>4
  <2>2. \A o \in y.todo : o.kind = "stage" => o.content.path = StagedPath(o.id)
    BY <1>1 DEF BatchOK, RowsStaged
  <2>3. ASSUME NEW o \in y.todo, o.kind = "update"
        PROVE  \/ y.rows[o.id].content.path \in {o.content.path, StagedPath(o.id)}
               \/ \E q \in y.todo : q.kind = "stage" /\ q.id = o.id
    <3>1. o \in x.todo /\ o.id \in P!ID
      BY <1>1, <1>3, <2>3
    <3>2. CASE o.id # id
      <4>1. \/ x.rows[o.id].content.path \in {o.content.path, StagedPath(o.id)}
            \/ \E q \in x.todo : q.kind = "stage" /\ q.id = o.id
        BY <2>3, <3>1 DEF BatchOK, RowsStaged
      <4>2. \A q \in x.todo : q.kind = "stage" /\ q.id = o.id => q \in y.todo
        BY <1>1, <1>3, <3>2
      <4> QED BY <1>1, <3>1, <3>2, <4>1, <4>2
    <3>3. CASE o.id = id
      <4>1. s.kind = "stage"
        BY <1>5, <2>3, <3>3
      <4>2. y.rows[id].content.path = StagedPath(id)
        BY <1>1, <1>3, <1>4, <4>1 DEF BatchOK, RowsStaged
      <4> QED BY <3>3, <4>2
    <3> QED BY <3>2, <3>3
  <2> QED BY <2>1, <2>2, <2>3 DEF RowsStaged
<1> QED BY <1>6, <1>7, <1>9, <1>10 DEF BatchOK

(* Whichever statement is next, its row is there and its path is free. *)
LEMMA BatchSucceeds ==
  ASSUME NEW x \in Transaction, TransactionOK(x), BatchOK(x), NEW s \in Ready(x)
  PROVE  Succeeds(x.rows, s)
<1>1. s \in x.todo /\ s \in Statements /\ StatementOK(x, s) /\ \A o \in x.todo : Rank[s.kind] <= Rank[o.kind]
  BY DEF Ready, Transaction, TransactionOK
<1>2. Found(x.rows, s)
  BY <1>1 DEF BatchOK, RowsFound
<1>3. s.kind \in {"stage", "delete", "create", "update", "restore"}
  BY <1>1, StatementParts
<1>4. ASSUME NEW i \in P!ID, x.rows[i] # Absent, i # s.id, s.kind # "delete",
             x.rows[i].content.path = s.content.path
      PROVE  FALSE
  <2> DEFINE p == s.content.path
  <2>1. p \in Paths \union {StagedPath(i)}
    BY <1>4 DEF BatchOK, RowsStaged
  <2>2. CASE s.kind = "stage"
    <3>1. p = StagedPath(s.id) /\ s.id \in P!ID
      BY <1>1, <2>2 DEF BatchOK, RowsStaged, StatementOK
    <3>2. StagedPath(s.id) # StagedPath(i)
      BY <1>4 DEF StagedPath
    <3> QED BY <2>1, <3>1, <3>2, StagedPathAssumption
  <2>3. CASE s.kind \in {"create", "update", "restore"}
    <3>1. p \in Paths
      BY <1>1, <2>3 DEF StatementOK, P!Content
    <3>2. \A o \in x.todo : o.kind \notin {"stage", "delete"}
      BY <1>1, <2>3 DEF Rank
    <3>3. Ends(x, i, p)
      <4>1. CASE \E o \in x.todo : o.id = i
        <5>1. PICK o \in x.todo : o.id = i
          BY <4>1
        <5>2. o \in Statements /\ StatementOK(x, o) /\ Found(x.rows, o)
          BY DEF Transaction, TransactionOK, BatchOK, RowsFound
        <5>3. o.kind \in {"create", "update", "restore"}
          BY <3>2, <5>2, StatementParts
        <5>4. o.kind # "create"
          BY <5>1, <5>2 DEF StatementOK, P!ID
        <5>5. o.kind # "restore"
          BY <1>4, <5>1, <5>2 DEF Found
        <5>6. o.kind = "update"
          BY <5>3, <5>4, <5>5
        <5>7. x.rows[i].content.path \in {o.content.path, StagedPath(i)}
          BY <3>2, <5>1, <5>6 DEF BatchOK, RowsStaged
        <5>8. o.content.path = p
          BY <1>4, <3>1, <5>7, StagedPathAssumption
        <5> QED BY <5>1, <5>6, <5>8 DEF Ends
      <4>2. CASE \A o \in x.todo : o.id # i
        BY <1>4, <4>2 DEF Ends
      <4> QED BY <4>1, <4>2
    <3>4. s.kind = "create" => ~Ends(x, i, p)
      BY <1>1 DEF BatchOK, EndsDiffer
    <3>5. s.kind \in {"update", "restore"} => s.id \in P!ID /\ Ends(x, s.id, p)
      BY <1>1 DEF StatementOK, Ends
    <3>6. s.kind \in {"update", "restore"} => s.id = i
      BY <3>1, <3>3, <3>5 DEF BatchOK, EndsDiffer
    <3> QED BY <1>4, <2>3, <3>3, <3>4, <3>6
  <2> QED BY <1>3, <1>4, <2>2, <2>3
<1>5. PathFree(x.rows, s)
  BY <1>4 DEF PathFree, P!IDsOf
<1> QED BY <1>2, <1>5 DEF Succeeds

LEMMA BatchesBegin ==
  ASSUME IInv, BatchesOK, NEW w \in Writers, NEW t \in Tenants, NEW b, Presentable(t, b), NEW operation,
         ApplyBatch(w, t, b, operation)
  PROVE  BatchesOK'
<1>1. P!CheckPageBatch(t, b, operation = "batch.rollback") /\ Begin(w, t, operation, BatchStatements(b))
  BY DEF ApplyBatch
<1>2. PICK x : x = Begun(t, operation, BatchStatements(b))
  OBVIOUS
<1>3. tx' = [tx EXCEPT ![w] = x]
  BY <1>1, <1>2 DEF Begin, Begun
<1>4. tx'[w] = x /\ \A v \in Writers : v # w => tx'[v] = tx[v]
  BY <1>3 DEF IInv, TypeOK
<1>5. BatchOK(x)
  BY <1>1, <1>2, BatchBegins
<1> SUFFICES ASSUME NEW v \in Writers, tx'[v] # NoTx, IsBatch(tx'[v]) PROVE BatchOK(tx'[v])
  BY DEF BatchesOK
<1> QED BY <1>4, <1>5 DEF BatchesOK

LEMMA SingleBeginKeepsBatches ==
  ASSUME IInv, BatchesOK, NEW w \in Writers, NEW t, NEW operation, operation \notin {"batch.apply", "batch.rollback"},
         NEW statements, Begin(w, t, operation, statements)
  PROVE  BatchesOK'
<1>1. PICK x : x = Begun(t, operation, statements)
  OBVIOUS
<1>2. tx' = [tx EXCEPT ![w] = x]
  BY <1>1 DEF Begin, Begun
<1>3. tx'[w] = x /\ \A v \in Writers : v # w => tx'[v] = tx[v]
  BY <1>2 DEF IInv, TypeOK
<1>4. ~IsBatch(x)
  BY <1>1 DEF IsBatch, Begun
<1> SUFFICES ASSUME NEW v \in Writers, tx'[v] # NoTx, IsBatch(tx'[v]) PROVE BatchOK(tx'[v])
  BY DEF BatchesOK
<1> QED BY <1>3, <1>4 DEF BatchesOK

LEMMA ExecuteKeepsBatches ==
  ASSUME IInv, BatchesOK, NEW w \in Writers, tx[w] # NoTx, NEW s \in tx[w].todo, Execute(w, s)
  PROVE  BatchesOK'
<1>1. PICK x \in Transaction : x = tx[w]
  BY TransactionType DEF IInv
<1>2. TransactionOK(x) /\ x.tenant \in Tenants /\ StatementOK(x, s) /\ s \in x.todo
  BY <1>1 DEF IInv, TransactionsOK, TransactionOK, Transaction
<1>3. PICK id \in P!ID, y \in Transaction :
        /\ id = IF s.kind = "create" THEN nextID + 1 ELSE s.id
        /\ nextID' = IF s.kind = "create" THEN id ELSE nextID
        /\ tx' = [tx EXCEPT ![w] = y]
        /\ After(x, s, id, y)
  BY <1>1, <1>2, ExecuteIs DEF IInv
<1>4. s \in Ready(x)
  BY <1>1 DEF Execute
<1>5. tx'[w] = y /\ (\A v \in Writers : v # w => tx'[v] = tx[v]) /\ y.operation = x.operation
  BY <1>3 DEF IInv, TypeOK, After
<1>6. ASSUME s.kind = "create", NEW o \in x.todo PROVE o.id # id
  <2>1. nextID \in Nat /\ id > nextID /\ id # 0
    <3>1. nextID \in 0..MaxID
      BY DEF IInv, TypeOK
    <3> QED BY <1>3, <1>6, <3>1, BoundsAssumption
  <2>2. StatementOK(x, o)
    BY <1>2 DEF TransactionOK
  <2>3. CASE o.kind = "create"
    BY <2>1, <2>2, <2>3 DEF StatementOK
  <2>4. CASE o.kind # "create"
    <3>1. o.id \in P!ID /\ Had(x.tenant, o.id)
      BY <2>2, <2>4 DEF StatementOK
    <3>2. ~Had(x.tenant, id)
      BY <1>2, <2>1, NewIDIsFresh DEF IInv, Owns
    <3> QED BY <3>1, <3>2
  <2> QED BY <2>3, <2>4
<1>7. ASSUME IsBatch(y) PROVE BatchOK(y)
  <2>1. IsBatch(x)
    BY <1>5, <1>7 DEF IsBatch
  <2>2. BatchOK(x)
    BY <1>1, <2>1 DEF BatchesOK
  <2>3. s.kind # "create" => id = s.id
    BY <1>3
  <2> QED BY <1>2, <1>3, <1>4, <1>6, <2>2, <2>3, StatementKeepsBatch
<1> SUFFICES ASSUME NEW v \in Writers, tx'[v] # NoTx, IsBatch(tx'[v]) PROVE BatchOK(tx'[v])
  BY DEF BatchesOK
<1> QED BY <1>5, <1>7 DEF BatchesOK

LEMMA NextKeepsBatches == IInv /\ BatchesOK /\ [Next]_vars => BatchesOK'
<1> SUFFICES ASSUME IInv, BatchesOK, [Next]_vars PROVE BatchesOK'
  OBVIOUS
<1>1. ASSUME NEW w \in Writers, NEW t \in Tenants, BeginWrite(w, t) PROVE BatchesOK'
  <2>1. ASSUME NEW c \in P!Content, Create(w, t, c) PROVE BatchesOK'
    BY <2>1, SingleBeginKeepsBatches DEF Create
  <2>2. ASSUME NEW h \in P!Held, NEW c \in P!Content, Update(w, t, h[1], h[2], c) PROVE BatchesOK'
    BY <2>2, SingleBeginKeepsBatches DEF Update
  <2>3. ASSUME NEW h \in P!Held, Delete(w, t, h[1], h[2]) PROVE BatchesOK'
    BY <2>3, SingleBeginKeepsBatches DEF Delete
  <2>4. ASSUME NEW n \in 0..revisions[t], NEW targets \in P!TargetChoices(read[t][n + 1]),
               NEW creates \in P!CreateChoices, ApplyPageBatch(w, t, n, targets, creates)
        PROVE  BatchesOK'
    BY <2>4, ChosenIsPresentable, BatchesBegin DEF ApplyPageBatch
  <2>5. ASSUME NEW r \in receipts, RollbackPageBatch(w, t, r) PROVE BatchesOK'
    <3>1. ApplyBatch(w, t, P!RollbackBatch(r), "batch.rollback")
      BY <2>5 DEF RollbackPageBatch
    <3>2. P!BaselineMatches(t, P!RollbackBatch(r))
      BY <3>1 DEF ApplyBatch, P!CheckPageBatch
    <3> QED BY <3>1, <3>2, RollbackIsPresentable, BatchesBegin
  <2> QED BY <1>1, <2>1, <2>2, <2>3, <2>4, <2>5 DEF BeginWrite
<1>2. ASSUME NEW w \in Writers, ExecuteNext(w) PROVE BatchesOK'
  BY <1>2, ExecuteKeepsBatches DEF ExecuteNext
<1>3. ASSUME NEW w \in Writers, tx' = [tx EXCEPT ![w] = NoTx] PROVE BatchesOK'
  <2>1. tx'[w] = NoTx /\ \A v \in Writers : v # w => tx'[v] = tx[v]
    BY <1>3 DEF IInv, TypeOK
  <2> SUFFICES ASSUME NEW v \in Writers, tx'[v] # NoTx, IsBatch(tx'[v]) PROVE BatchOK(tx'[v])
    BY DEF BatchesOK
  <2> QED BY <2>1 DEF BatchesOK
<1>4. ASSUME NEW w \in Writers, Abort(w) PROVE BatchesOK'
  BY <1>3, <1>4 DEF Abort
<1>5. ASSUME NEW w \in Writers, NEW logged \in BOOLEAN, NEW answered \in BOOLEAN, Commit(w, logged, answered)
      PROVE  BatchesOK'
  BY <1>3, <1>5 DEF Commit
<1>6. ASSUME tx' = tx PROVE BatchesOK'
  <2> SUFFICES ASSUME NEW v \in Writers, tx'[v] # NoTx, IsBatch(tx'[v]) PROVE BatchOK(tx'[v])
    BY DEF BatchesOK
  <2> QED BY <1>6 DEF BatchesOK
<1>7. CASE Adopt
  BY <1>6, <1>7 DEF Adopt
<1>8. CASE UNCHANGED vars
  BY <1>6, <1>8 DEF vars
<1> QED BY <1>1, <1>2, <1>4, <1>5, <1>7, <1>8 DEF Next

(* A batch that CheckPageBatch accepted is never refused by the database,  *)
(* whatever it swaps and in whatever order its statements run              *)
(* (store/postgres/batch.go, applyBatch).                                  *)
THEOREM BatchesAlwaysGoThrough == Spec => []BatchesGoThrough
<1>1. Init => BatchesOK
  BY DEF Init, BatchesOK
<1>2. IInv /\ BatchesOK => BatchesGoThrough
  <2> SUFFICES ASSUME IInv, BatchesOK, NEW w \in Writers, tx[w] # NoTx, IsBatch(tx[w]), NEW s \in Ready(tx[w])
               PROVE  Succeeds(tx[w].rows, s)
    BY DEF BatchesGoThrough
  <2>1. tx[w] \in Transaction
    BY TransactionType DEF IInv
  <2>2. TransactionOK(tx[w]) /\ BatchOK(tx[w])
    BY DEF IInv, TransactionsOK, BatchesOK
  <2> QED BY <2>1, <2>2, BatchSucceeds
<1> QED BY <1>1, <1>2, NextKeepsBatches, Invariance, PTL DEF Spec


--------------------------------------------------------------------------------
(* A rollback brings back the state before the last write.                 *)

ContentOf(state) == IF state = Absent THEN Absent ELSE state.content

(* Page i has content c when x has run: its statement says so or, if none  *)
(* is left for it, its row.                                                *)
ComesTo(x, i, c) ==
  /\ \A s \in x.todo : s.id = i /\ s.kind # "stage" =>
       IF s.kind = "delete" THEN c = Absent ELSE s.content = c
  /\ (\A s \in x.todo : s.id = i => s.kind = "stage") => ContentOf(x.rows[i]) = c

RollbackOK(x) ==
  /\ x.revision >= 1
  /\ \A s \in x.todo : s.kind # "create"
  /\ \A i \in P!ID : ComesTo(x, i, ContentOf(read[x.tenant][x.revision][i]))

IsRollback(x) == x.operation = "batch.rollback"

RollbacksOK == \A w \in Writers : tx[w] # NoTx /\ IsRollback(tx[w]) => RollbackOK(tx[w])

(* A transaction reads states the tenant has had: they stay as they are.   *)
LEMMA RollbackStays ==
  ASSUME NEW x, RollbackOK(x), read'[x.tenant][x.revision] = read[x.tenant][x.revision]
  PROVE  RollbackOK(x)'
BY DEF RollbackOK, ComesTo

LEMMA RollbackBegins ==
  ASSUME IInv, NEW t \in Tenants, NEW r \in receipts, P!CheckPageBatch(t, P!RollbackBatch(r), TRUE)
  PROVE  RollbackOK(Begun(t, "batch.rollback", BatchStatements(P!RollbackBatch(r))))
<1>1. PICK b : b = P!RollbackBatch(r)
  OBVIOUS
<1>2. PICK x : x = Begun(t, "batch.rollback", BatchStatements(b))
  OBVIOUS
<1>3. /\ x.tenant = t /\ x.todo = BatchStatements(b) /\ x.rows = P!StatesOf(pages, t)
      /\ x.revision = revisions[t]
  BY <1>2 DEF Begun
<1>4. P!BaselineMatches(t, b) /\ Presentable(t, b)
  BY <1>1, RollbackIsPresentable DEF P!CheckPageBatch
<1>5. /\ b.scope = r.scope /\ b.revision = r.afterRevision /\ b.baseline = r.after /\ b.creates = << >>
      /\ \A i \in P!ID : b.targets[i] = P!RollbackMutation(r.before[i], r.after[i])
  BY <1>1 DEF P!RollbackBatch
<1>6. r.scope = t /\ r.afterRevision = revisions[t] /\ r.after = P!StatesOf(pages, t)
  BY <1>4, <1>5 DEF P!BaselineMatches
<1>7. /\ r.before = read[t][revisions[t]]
      /\ r.afterRevision = r.beforeRevision + 1
  BY <1>6 DEF IInv, ReceiptsOK, ReceiptsAreReal
<1>8. x.revision >= 1
  <2>1. r.beforeRevision \in Nat
    BY DEF IInv, TypeOK, P!Receipt
  <2>2. revisions[t] = r.beforeRevision + 1
    BY <1>6, <1>7
  <2> QED BY <1>3, <2>1, <2>2
<1>9. ASSUME NEW s \in x.todo PROVE s.kind # "create"
  <2>1. s \in BatchStatements(b)
    BY <1>3
  <2>2. ~Creates(b, s)
    BY <1>5 DEF Creates
  <2> QED BY <1>4, <2>1, <2>2, BatchStatementIs
<1>10. ASSUME NEW i \in P!ID PROVE ComesTo(x, i, ContentOf(r.before[i]))
  <2>1. PICK old, new, m : /\ old = r.before[i] /\ new = r.after[i]
                           /\ m = P!RollbackMutation(old, new) /\ m = b.targets[i]
    BY <1>5
  <2>2. ASSUME NEW s \in x.todo, s.id = i, s.kind # "stage"
        PROVE  IF s.kind = "delete" THEN ContentOf(old) = Absent ELSE s.content = ContentOf(old)
    <3>1. Mutates(b, s)
      BY <1>3, <1>4, <1>9, <2>2, BatchStatementIs
    <3>2. s.kind = m.kind /\ s.content = m.content /\ m.kind # "none"
      BY <2>1, <2>2, <3>1 DEF Mutates
    <3> QED BY <2>1, <3>2 DEF P!RollbackMutation, P!Mutation, P!Untouched, ContentOf
  <2>3. ASSUME \A s \in x.todo : s.id = i => s.kind = "stage"
        PROVE  ContentOf(x.rows[i]) = ContentOf(old)
    <3>1. m.kind = "none"
      BY <1>3, <1>4, <2>1, <2>3, MutationHasStatement
    <3>2. x.rows[i] = new
      BY <1>3, <1>6, <2>1
    <3> QED BY <2>1, <3>1, <3>2 DEF P!RollbackMutation, P!Mutation, P!Untouched, ContentOf
  <2> QED BY <2>1, <2>2, <2>3 DEF ComesTo
<1>11. ASSUME NEW i \in P!ID PROVE ComesTo(x, i, ContentOf(read[x.tenant][x.revision][i]))
  BY <1>3, <1>7, <1>10
<1>12. RollbackOK(x)
  BY <1>8, <1>9, <1>11 DEF RollbackOK
<1> QED BY <1>1, <1>2, <1>12

LEMMA StatementKeepsRollback ==
  ASSUME NEW x \in Transaction, TransactionOK(x), RollbackOK(x), NEW s \in x.todo,
         NEW y \in Transaction, After(x, s, s.id, y)
  PROVE  RollbackOK(y)
<1>1. /\ y.revision = x.revision /\ y.tenant = x.tenant /\ y.todo = x.todo \ {s}
      /\ y.rows = [x.rows EXCEPT ![s.id] = RowAfter(s)]
  BY DEF After
<1>2. /\ s \in Statements /\ StatementOK(x, s) /\ x.rows \in P!PageSets(Row)
  BY DEF TransactionOK, Transaction
<1>3. ASSUME NEW i \in P!ID, NEW c, ComesTo(x, i, c) PROVE ComesTo(y, i, c)
  <2>1. ASSUME NEW o \in y.todo, o.id = i, o.kind # "stage"
        PROVE  IF o.kind = "delete" THEN c = Absent ELSE o.content = c
    BY <1>1, <1>3, <2>1 DEF ComesTo
  <2>2. ASSUME \A o \in y.todo : o.id = i => o.kind = "stage"
        PROVE  ContentOf(y.rows[i]) = c
    <3>1. CASE s.id # i
      <4>1. y.rows[i] = x.rows[i]
        BY <1>1, <1>2, <3>1 DEF P!PageSets
      <4>2. \A o \in x.todo : o.id = i => o.kind = "stage"
        BY <1>1, <2>2, <3>1
      <4> QED BY <1>3, <4>1, <4>2 DEF ComesTo
    <3>2. CASE s.id = i /\ s.kind = "stage"
      <4>1. PICK o \in x.todo : o.kind = "update" /\ o.id = i
        BY <1>2, <3>2 DEF StatementOK, Updates
      <4>2. o \in y.todo
        BY <1>1, <3>2, <4>1
      <4> QED BY <2>2, <4>1, <4>2
    <3>3. CASE s.id = i /\ s.kind # "stage"
      <4>1. y.rows[i] = RowAfter(s)
        BY <1>1, <1>2, <3>3 DEF P!PageSets
      <4>2. IF s.kind = "delete" THEN c = Absent ELSE s.content = c
        BY <1>3, <3>3 DEF ComesTo
      <4> QED BY <1>2, <4>1, <4>2, RowAfterIs DEF ContentOf
    <3> QED BY <3>1, <3>2, <3>3
  <2> QED BY <2>1, <2>2 DEF ComesTo
<1> QED BY <1>1, <1>3 DEF RollbackOK


LEMMA RollbacksStay ==
  ASSUME RollbacksOK, read' = read,
         \A v \in Writers : tx'[v] # NoTx /\ IsRollback(tx'[v]) => tx'[v] = tx[v] \/ RollbackOK(tx'[v])
  PROVE  RollbacksOK'
<1> SUFFICES ASSUME NEW v \in Writers, tx'[v] # NoTx, IsRollback(tx'[v]) PROVE RollbackOK(tx[v])'
  BY DEF RollbacksOK, IsRollback
<1>1. PICK y : y = tx'[v]
  OBVIOUS
<1>2. RollbackOK(y)
  BY <1>1 DEF RollbacksOK
<1>3. RollbackOK(y)'
  BY <1>2, RollbackStays
<1> QED BY <1>1, <1>3 DEF RollbackOK, ComesTo

LEMMA BeginKeepsRollbacks ==
  ASSUME IInv, RollbacksOK, NEW w \in Writers, NEW t, NEW operation, NEW statements,
         Begin(w, t, operation, statements),
         operation = "batch.rollback" => RollbackOK(Begun(t, operation, statements))
  PROVE  RollbacksOK'
<1>1. PICK x : x = Begun(t, operation, statements)
  OBVIOUS
<1>2. tx' = [tx EXCEPT ![w] = x] /\ read' = read
  BY <1>1 DEF Begin, Begun
<1>3. tx'[w] = x /\ \A v \in Writers : v # w => tx'[v] = tx[v]
  BY <1>2 DEF IInv, TypeOK
<1>4. IsRollback(x) => RollbackOK(x)
  BY <1>1 DEF IsRollback, Begun
<1> QED BY <1>2, <1>3, <1>4, RollbacksStay

LEMMA ExecuteKeepsRollbacks ==
  ASSUME IInv, RollbacksOK, NEW w \in Writers, tx[w] # NoTx, NEW s \in tx[w].todo, Execute(w, s)
  PROVE  RollbacksOK'
<1>1. PICK x \in Transaction : x = tx[w]
  BY TransactionType DEF IInv
<1>2. TransactionOK(x) /\ StatementOK(x, s) /\ s \in x.todo
  BY <1>1 DEF IInv, TransactionsOK, TransactionOK
<1>3. PICK id \in P!ID, y \in Transaction :
        /\ id = IF s.kind = "create" THEN nextID + 1 ELSE s.id
        /\ nextID' = IF s.kind = "create" THEN id ELSE nextID
        /\ tx' = [tx EXCEPT ![w] = y]
        /\ After(x, s, id, y)
  BY <1>1, <1>2, ExecuteIs DEF IInv
<1>4. tx'[w] = y /\ (\A v \in Writers : v # w => tx'[v] = tx[v]) /\ y.operation = x.operation
  BY <1>3 DEF IInv, TypeOK, After
<1>5. read' = read
  BY DEF Execute
<1>6. ASSUME IsRollback(y) PROVE RollbackOK(y)
  <2>1. RollbackOK(x)
    BY <1>1, <1>4, <1>6 DEF RollbacksOK, IsRollback
  <2>2. s.kind # "create"
    BY <1>2, <2>1 DEF RollbackOK
  <2> QED BY <1>2, <1>3, <2>1, <2>2, StatementKeepsRollback
<1> QED BY <1>4, <1>5, <1>6, RollbacksStay

(* A commit of a rollback, with nothing left to run, has brought back the   *)
(* contents; the states of other transactions and events are still there.  *)
LEMMA CommitRestores ==
  ASSUME IInv, RollbacksOK, RollbackRestores, NEW w \in Writers, NEW logged \in BOOLEAN, NEW answered \in BOOLEAN,
         Commit(w, logged, answered)
  PROVE  RollbacksOK' /\ RollbackRestores'
<1>1. PICK x \in Transaction : x = tx[w] /\ tx[w] # NoTx
  BY TransactionType DEF IInv, Commit
<1>2. Committed(w, x) /\ x.todo = {} /\ TransactionOK(x) /\ x.tenant \in Tenants
  BY <1>1, CommitIs DEF Commit, IInv, TransactionsOK, Transaction
<1> DEFINE t == x.tenant
           R == revisions[t]
<1>3. R \in Nat /\ TypeOK /\ ReadIsCurrent /\ x.revision = R
  BY <1>2, ReadType DEF IInv, TransactionOK
<1>4. ASSUME NEW u \in Tenants, NEW n \in DOMAIN read[u]
      PROVE  read'[u][n] = read[u][n]
  BY <1>2, <1>4 DEF Committed
<1>5. RollbacksOK'
  <2> SUFFICES ASSUME NEW v \in Writers, tx'[v] # NoTx, IsRollback(tx'[v]) PROVE RollbackOK(tx[v])'
    BY DEF RollbacksOK, IsRollback
  <2>1. PICK y : y = tx'[v] /\ y = tx[v]
    BY <1>2 DEF Committed
  <2>2. y \in Transaction /\ TransactionOK(y) /\ RollbackOK(y) /\ y.tenant \in Tenants
    BY <1>3, <2>1, TransactionType DEF RollbacksOK, IInv, TransactionsOK
  <2>3. y.revision \in DOMAIN read[y.tenant]
    <3>1. y.revision = revisions[y.tenant] /\ y.revision >= 1 /\ revisions[y.tenant] \in Nat
          /\ DOMAIN read[y.tenant] = 1..(revisions[y.tenant] + 1)
      BY <1>3, <2>2, ReadType DEF TransactionOK, RollbackOK
    <3> QED BY <3>1
  <2>4. RollbackOK(y)'
    BY <1>4, <2>2, <2>3, RollbackStays
  <2> QED BY <2>1, <2>4 DEF RollbackOK, ComesTo
<1>6. ASSUME NEW u \in Tenants, NEW e \in history[u], e.operation = "batch.rollback"
      PROVE  /\ e.revision >= 2
             /\ P!ContentsOf(read'[u][e.revision + 1]) = P!ContentsOf(read'[u][e.revision - 1])
  <2>1. /\ e.revision >= 2
        /\ P!ContentsOf(read[u][e.revision + 1]) = P!ContentsOf(read[u][e.revision - 1])
    BY <1>6 DEF RollbackRestores
  <2>2. HistoryOf(u) /\ revisions[u] \in Nat /\ DOMAIN read[u] = 1..(revisions[u] + 1)
    BY <1>3, ReadType DEF IInv, HistoryOK
  <2>3. e.revision \in Nat /\ e.revision <= revisions[u]
    BY <1>3, <2>2, EventRevision
  <2>4. e.revision + 1 \in DOMAIN read[u] /\ e.revision - 1 \in DOMAIN read[u]
    BY <2>1, <2>2, <2>3
  <2> QED BY <1>4, <2>1, <2>4
<1>7. PICK q : q = Event(x, R + 1) /\ q.revision = R + 1 /\ q.operation = x.operation
  <2>1. PICK n : n = R + 1
    OBVIOUS
  <2>2. Event(x, n).revision = n /\ Event(x, n).operation = x.operation
    BY DEF Event
  <2> QED BY <2>1, <2>2
<1>8. ASSUME q.operation = "batch.rollback"
      PROVE  /\ q.revision >= 2
             /\ P!ContentsOf(read'[t][q.revision + 1]) = P!ContentsOf(read'[t][q.revision - 1])
  <2>1. RollbackOK(x)
    BY <1>1, <1>7, <1>8 DEF RollbacksOK, IsRollback
  <2>2. R >= 1 /\ q.revision >= 2 /\ q.revision + 1 = R + 2 /\ q.revision - 1 = R
    BY <1>3, <1>7, <2>1 DEF RollbackOK
  <2>3. read'[t][R + 2] = x.rows /\ read'[t][R] = read[t][R]
    <3>1. /\ read'[t][R + 2] = x.rows
          /\ \A n \in 1..(R + 1) : read'[t][n] = read[t][n]
      BY <1>2 DEF Committed
    <3>2. R \in 1..(R + 1)
      BY <1>3, <2>2
    <3> QED BY <3>1, <3>2
  <2>4. \A i \in P!ID : ContentOf(x.rows[i]) = ContentOf(read[t][R][i])
    BY <1>2, <1>3, <2>1 DEF RollbackOK, ComesTo
  <2>5. P!ContentsOf(x.rows) = P!ContentsOf(read[t][R])
    BY <2>4 DEF P!ContentsOf, ContentOf
  <2> QED BY <2>2, <2>3, <2>5
<1>9. /\ history'[t] \in {history[t], history[t] \union {q}}
      /\ \A u \in Tenants : u # t => history'[u] = history[u]
  BY <1>1, <1>2, <1>3, <1>7 DEF Commit, TypeOK
<1>10. RollbackRestores'
  <2> SUFFICES ASSUME NEW u \in Tenants, NEW e \in history'[u], e.operation = "batch.rollback"
               PROVE  /\ e.revision >= 2
                      /\ P!ContentsOf(read'[u][e.revision + 1]) = P!ContentsOf(read'[u][e.revision - 1])
    BY DEF RollbackRestores, P!ContentsOf
  <2> QED BY <1>6, <1>8, <1>9
<1> QED BY <1>5, <1>10

LEMMA NextKeepsRollbacks ==
  IInv /\ RollbacksOK /\ RollbackRestores /\ [Next]_vars => RollbacksOK' /\ RollbackRestores'
<1> SUFFICES ASSUME IInv, RollbacksOK, RollbackRestores, [Next]_vars PROVE RollbacksOK' /\ RollbackRestores'
  OBVIOUS
<1>1. ASSUME read' = read, history' = history PROVE RollbackRestores'
  BY <1>1 DEF RollbackRestores, P!ContentsOf
<1>2. ASSUME NEW w \in Writers, NEW t \in Tenants, BeginWrite(w, t) PROVE RollbacksOK' /\ RollbackRestores'
  <2>1. ASSUME NEW operation, NEW statements, Begin(w, t, operation, statements) PROVE RollbackRestores'
    BY <1>1, <2>1 DEF Begin
  <2>2. ASSUME NEW c, Create(w, t, c) PROVE RollbacksOK' /\ RollbackRestores'
    BY <2>1, <2>2, BeginKeepsRollbacks DEF Create
  <2>3. ASSUME NEW i, NEW v, NEW c, Update(w, t, i, v, c) PROVE RollbacksOK' /\ RollbackRestores'
    BY <2>1, <2>3, BeginKeepsRollbacks DEF Update
  <2>4. ASSUME NEW i, NEW v, Delete(w, t, i, v) PROVE RollbacksOK' /\ RollbackRestores'
    BY <2>1, <2>4, BeginKeepsRollbacks DEF Delete
  <2>5. ASSUME NEW n, NEW targets, NEW creates, ApplyPageBatch(w, t, n, targets, creates)
        PROVE  RollbacksOK' /\ RollbackRestores'
    BY <2>1, <2>5, BeginKeepsRollbacks DEF ApplyPageBatch, ApplyBatch
  <2>6. ASSUME NEW r \in receipts, RollbackPageBatch(w, t, r) PROVE RollbacksOK' /\ RollbackRestores'
    <3>1. /\ P!CheckPageBatch(t, P!RollbackBatch(r), TRUE)
          /\ Begin(w, t, "batch.rollback", BatchStatements(P!RollbackBatch(r)))
      BY <2>6 DEF RollbackPageBatch, ApplyBatch
    <3> QED BY <2>1, <3>1, RollbackBegins, BeginKeepsRollbacks
  <2> QED BY <1>2, <2>2, <2>3, <2>4, <2>5, <2>6 DEF BeginWrite
<1>3. ASSUME NEW w \in Writers, ExecuteNext(w) PROVE RollbacksOK' /\ RollbackRestores'
  <2>1. read' = read /\ history' = history
    BY <1>3 DEF ExecuteNext, Execute
  <2> QED BY <1>1, <1>3, <2>1, ExecuteKeepsRollbacks DEF ExecuteNext
<1>4. ASSUME NEW w \in Writers, Abort(w) PROVE RollbacksOK' /\ RollbackRestores'
  <2>1. tx' = [tx EXCEPT ![w] = NoTx] /\ read' = read /\ history' = history
    BY <1>4 DEF Abort
  <2>2. tx'[w] = NoTx /\ \A v \in Writers : v # w => tx'[v] = tx[v]
    BY <2>1 DEF IInv, TypeOK
  <2> QED BY <1>1, <2>1, <2>2, RollbacksStay
<1>5. CASE Adopt \/ UNCHANGED vars
  <2>1. tx' = tx /\ read' = read /\ history' = history
    BY <1>5 DEF Adopt, vars
  <2> QED BY <1>1, <2>1, RollbacksStay
<1> QED BY <1>2, <1>3, <1>4, <1>5, CommitRestores DEF Next

(* A rollback run statement by statement brings back exactly the contents   *)
(* before the write it undoes, whatever other writers do in between, and   *)
(* under the same ids (store/postgres/batch.go, RollbackPageBatch).        *)
THEOREM RollbacksRestore == Spec => []RollbackRestores
<1>1. Init => RollbacksOK /\ RollbackRestores
  BY DEF Init, RollbacksOK, RollbackRestores
<1> QED BY <1>1, NextKeepsRollbacks, Invariance, PTL DEF Spec


--------------------------------------------------------------------------------
(* What any ledger keeps: a version names one content, an id one tenant.   *)

(* A write adds one state, s, to the ledger of its tenant.                 *)
Adds(t, s) ==
  /\ DOMAIN read[t] = 1..Len(read[t]) /\ Len(read[t]) \in Nat \ {0}
  /\ DOMAIN read'[t] = 1..(Len(read[t]) + 1)
  /\ \A n \in DOMAIN read[t] : read'[t][n] = read[t][n]
  /\ read'[t][Len(read[t]) + 1] = s
  /\ \A u \in Tenants \ {t} : read'[u] = read[u]
  /\ \A i \in P!ID : s[i] \in {Absent, read[t][Len(read[t])][i]} \/ Ledger!FreshSave(t, i, s)

LEMMA WriteAdds ==
  ASSUME TypeOK, ReadIsCurrent, NEW t \in Tenants, Ledger!Write(t)
  PROVE  Adds(t, read'[t][Len(read[t]) + 1])
<1>1. PICK s : s = read'[t][Len(read[t]) + 1]
  OBVIOUS
<1>2. /\ read' = [read EXCEPT ![t] = Append(read[t], s)]
      /\ \A i \in P!ID : s[i] \in {Absent, read[t][Len(read[t])][i]} \/ Ledger!FreshSave(t, i, s)
  BY <1>1 DEF Ledger!Write
<1>3. /\ read[t] \in Seq(P!PageSets(P!State)) /\ Len(read[t]) = revisions[t] + 1 /\ revisions[t] \in Nat
      /\ read \in [Tenants -> Seq(P!PageSets(P!State))]
  BY ReadType DEF ReadIsCurrent, TypeOK
<1>4. read'[t] = Append(read[t], s) /\ \A u \in Tenants \ {t} : read'[u] = read[u]
  BY <1>2, <1>3
<1>5. PICK L \in Nat \ {0} : L = Len(read[t])
  BY <1>3
<1>6. /\ DOMAIN read[t] = 1..L /\ DOMAIN Append(read[t], s) = 1..(L + 1)
      /\ \A n \in 1..L : Append(read[t], s)[n] = read[t][n]
      /\ Append(read[t], s)[L + 1] = s
  BY <1>3, <1>5
<1>7. Adds(t, s)
  BY <1>2, <1>4, <1>5, <1>6 DEF Adds
<1> QED BY <1>1, <1>7

LEMMA AddingKeepsVersions ==
  ASSUME P!VersionsNeverRepeat, NEW t \in Tenants, NEW s, Adds(t, s)
  PROVE  P!VersionsNeverRepeat'
<1> SUFFICES ASSUME NEW u \in Tenants, NEW m \in DOMAIN read'[u], NEW n \in DOMAIN read'[u], m < n,
                    NEW i \in P!ID, read'[u][m][i] # Absent, read'[u][n][i] # Absent
             PROVE  \/ read'[u][m][i].version < read'[u][n][i].version
                    \/ \A k \in m..n : read'[u][k][i] = read'[u][m][i]
  BY DEF P!VersionsNeverRepeat, P!IDsOf
<1>1. PICK L \in Nat \ {0} : L = Len(read[t])
  BY DEF Adds
<1>2. /\ DOMAIN read[t] = 1..L /\ DOMAIN read'[t] = 1..(L + 1)
      /\ \A k \in 1..L : read'[t][k] = read[t][k]
      /\ read'[t][L + 1] = s
      /\ s[i] \in {Absent, read[t][L][i]} \/ Ledger!FreshSave(t, i, s)
  BY <1>1 DEF Adds
<1>3. CASE u # t
  <2>1. read'[u] = read[u]
    BY <1>3 DEF Adds
  <2> QED BY <2>1 DEF P!VersionsNeverRepeat, P!IDsOf
<1>4. CASE u = t /\ n # L + 1
  <2>1. m \in 1..L /\ n \in 1..L /\ \A k \in m..n : k \in 1..L
    BY <1>2, <1>4
  <2>2. m \in m..n
    BY <2>1
  <2>3. \/ read[t][m][i].version < read[t][n][i].version
        \/ \A k \in m..n : read[t][k][i] = read[t][m][i]
    <3>1. /\ m \in DOMAIN read[t] /\ read[t][m][i] # Absent
          /\ n \in DOMAIN read[t] /\ read[t][n][i] # Absent
      BY <1>2, <1>4, <2>1
    <3> QED BY <3>1 DEF P!VersionsNeverRepeat, P!IDsOf
  <2> QED BY <1>2, <1>4, <2>1, <2>2, <2>3
<1>5. CASE u = t /\ n = L + 1
  <2>1. m \in 1..L /\ m \in DOMAIN read[t] /\ read'[t][m] = read[t][m] /\ read[t][m][i] # Absent
    BY <1>2, <1>5
  <2>2. read'[t][n] = s /\ s[i] # Absent
    BY <1>2, <1>5
  <2>3. CASE Ledger!FreshSave(t, i, s)
    <3>1. read[t][m][i].version < s[i].version
      BY <2>1, <2>3 DEF Ledger!FreshSave, Ledger!Had
    <3> QED BY <1>5, <2>1, <2>2, <3>1
  <2>4. CASE s[i] = read[t][L][i] /\ m = L
    <3>1. \A k \in m..n : k = L \/ k = L + 1
      BY <1>5, <2>4
    <3> QED BY <1>2, <1>5, <2>1, <2>2, <2>4, <3>1
  <2>5. CASE s[i] = read[t][L][i] /\ m < L
    <3>1. L \in 1..L /\ read[t][L][i] # Absent
      BY <2>2, <2>5
    <3>2. \/ read[t][m][i].version < read[t][L][i].version
          \/ \A k \in m..L : read[t][k][i] = read[t][m][i]
      BY <1>2, <2>1, <2>5, <3>1 DEF P!VersionsNeverRepeat, P!IDsOf
    <3>3. \A k \in m..n : (k \in m..L /\ k \in 1..L) \/ k = n
      BY <1>5, <2>1
    <3>4. L \in m..L
      BY <2>1
    <3>5. CASE read[t][m][i].version < read[t][L][i].version
      BY <1>5, <2>1, <2>2, <2>5, <3>5
    <3>6. CASE \A k \in m..L : read[t][k][i] = read[t][m][i]
      BY <1>2, <1>5, <2>1, <2>2, <2>5, <3>3, <3>4, <3>6
    <3> QED BY <3>2, <3>5, <3>6
  <2>6. m = L \/ m < L
    BY <2>1
  <2> QED BY <1>2, <2>2, <2>3, <2>4, <2>5, <2>6
<1> QED BY <1>3, <1>4, <1>5

LEMMA AddingKeepsOwners ==
  ASSUME P!OneTenantPerID, NEW t \in Tenants, NEW s, Adds(t, s)
  PROVE  P!OneTenantPerID'
<1>1. PICK L \in Nat \ {0} : L = Len(read[t])
  BY DEF Adds
<1>2. /\ DOMAIN read[t] = 1..L /\ DOMAIN read'[t] = 1..(L + 1)
      /\ \A k \in 1..L : read'[t][k] = read[t][k]
      /\ read'[t][L + 1] = s
      /\ \A i \in P!ID : s[i] \in {Absent, read[t][L][i]} \/ Ledger!FreshSave(t, i, s)
      /\ \A u \in Tenants \ {t} : read'[u] = read[u]
  BY <1>1 DEF Adds
<1>3. ASSUME NEW u \in Tenants, u # t, NEW n \in DOMAIN read[u], NEW m \in DOMAIN read'[t], NEW i \in P!ID,
             read[u][n][i] # Absent, read'[t][m][i] # Absent
      PROVE  FALSE
  <2>1. CASE m \in 1..L
    BY <1>2, <1>3, <2>1 DEF P!OneTenantPerID, P!IDsOf
  <2>2. CASE m = L + 1 /\ s[i] = read[t][L][i]
    <3>1. L \in DOMAIN read[t] /\ read[t][L][i] # Absent
      BY <1>2, <1>3, <2>2
    <3> QED BY <1>3, <3>1 DEF P!OneTenantPerID, P!IDsOf
  <2>3. CASE m = L + 1 /\ Ledger!FreshSave(t, i, s)
    BY <1>3, <2>3 DEF Ledger!FreshSave, Ledger!Had
  <2>4. m \in 1..L \/ m = L + 1
    BY <1>2
  <2> QED BY <1>2, <1>3, <2>1, <2>2, <2>3, <2>4
<1> SUFFICES ASSUME NEW u \in Tenants, NEW v \in Tenants, u # v, NEW m \in DOMAIN read'[u], NEW n \in DOMAIN read'[v],
                    NEW i \in P!ID, read'[u][m][i] # Absent, read'[v][n][i] # Absent
             PROVE  FALSE
  BY DEF P!OneTenantPerID, P!IDsOf
<1>4. CASE u = t
  BY <1>2, <1>3, <1>4
<1>5. CASE v = t
  BY <1>2, <1>3, <1>5
<1>6. CASE u # t /\ v # t
  <2>1. read'[u] = read[u] /\ read'[v] = read[v]
    BY <1>2, <1>6
  <2> QED BY <2>1 DEF P!OneTenantPerID, P!IDsOf
<1> QED BY <1>4, <1>5, <1>6

(* Optimistic locking is sound in the Postgres store too: a version of a    *)
(* page never comes back for other contents, and no transaction touches or  *)
(* revives another tenant's page (the promises PageStore makes).            *)
THEOREM VersionsStaySound == Spec => [](P!VersionsNeverRepeat /\ P!OneTenantPerID /\ P!UniquePaths)
<1> DEFINE Sound == P!VersionsNeverRepeat /\ P!OneTenantPerID
<1>1. Init => Sound
  BY DEF Init, P!VersionsNeverRepeat, P!OneTenantPerID, P!IDsOf, P!NoPages
<1>2. IInv /\ Sound /\ [Next]_vars => Sound'
  <2> SUFFICES ASSUME IInv, Sound, [Next]_vars PROVE Sound'
    OBVIOUS
  <2>1. [Ledger!Next]_read
    BY NextIsLedger
  <2>2. CASE Ledger!Next
    <3>1. PICK t \in Tenants : Ledger!Write(t)
      BY <2>2 DEF Ledger!Next
    <3>2. PICK s : Adds(t, s)
      BY <3>1, WriteAdds DEF IInv
    <3> QED BY <3>2, AddingKeepsVersions, AddingKeepsOwners
  <2>3. CASE read' = read
    BY <2>3 DEF P!VersionsNeverRepeat, P!OneTenantPerID, P!IDsOf
  <2> QED BY <2>1, <2>2, <2>3
<1>3. IInv => P!UniquePaths
  <2> SUFFICES ASSUME IInv, NEW t \in Tenants, NEW p \in Paths, NEW i \in P!GetByPath(t, p), NEW j \in P!GetByPath(t, p)
               PROVE  i = j
    BY DEF P!UniquePaths
  <2>1. ASSUME NEW k \in P!GetByPath(t, p)
        PROVE  k \in P!ID /\ P!StatesOf(pages, t)[k] # Absent /\ P!StatesOf(pages, t)[k].content.path = p
    <3>1. k \in P!ID /\ P!BelongsTo(t, k) /\ pages[k].content.path = p
      BY <2>1 DEF P!GetByPath
    <3>2. P!StatesOf(pages, t)[k] = P!PageState(pages[k].version, pages[k].content) /\ pages[k] \in P!Page
      BY <3>1 DEF P!StatesOf, P!BelongsTo, IInv, TypeOK, P!PageSets
    <3>3. P!StatesOf(pages, t)[k] \in P!State /\ P!StatesOf(pages, t)[k].content = pages[k].content
      BY <3>2 DEF P!PageState, P!Page, P!State
    <3> QED BY <3>1, <3>3, StateFacts
  <2>2. Ledger!DistinctPaths(P!StatesOf(pages, t))
    BY DEF IInv, PagesDiffer
  <2> QED BY <2>1, <2>2 DEF Ledger!DistinctPaths
<1> HIDE DEF Sound
<1>4. Spec => []Sound
  BY <1>1, <1>2, Invariance, PTL DEF Spec
<1>5. Sound => P!VersionsNeverRepeat /\ P!OneTenantPerID
  BY DEF Sound
<1> QED BY <1>3, <1>4, <1>5, Invariance, PTL


--------------------------------------------------------------------------------
(* A rollback is refused only for what happened since its batch.            *)

(* Not only the present state but each one a tenant ever had has its pages *)
(* at different paths.                                                     *)
PathsAlwaysDiffered ==
  \A t \in Tenants : \A n \in DOMAIN read[t] : Ledger!DistinctPaths(read[t][n])

LEMMA NextKeepsPathsDiffering ==
  ASSUME IInv, PathsAlwaysDiffered, [Next]_vars
  PROVE  PathsAlwaysDiffered'
<1>1. [Ledger!Next]_read
  BY NextIsLedger
<1>2. ASSUME NEW t \in Tenants, Ledger!Write(t), NEW u \in Tenants, NEW n \in DOMAIN read'[u]
      PROVE  Ledger!DistinctPaths(read'[u][n])
  <2>1. PICK s : s = read'[t][Len(read[t]) + 1]
    OBVIOUS
  <2>2. Adds(t, s) /\ Ledger!DistinctPaths(s)
    BY <1>2, <2>1, WriteAdds DEF IInv, Ledger!Write
  <2>3. PICK L \in Nat : L = Len(read[t])
    BY <2>2 DEF Adds
  <2>4. CASE u = t
    <3>1. n \in 1..L \/ n = L + 1
      BY <1>2, <2>2, <2>3, <2>4 DEF Adds
    <3>2. CASE n = L + 1
      BY <2>2, <2>3, <2>4, <3>2 DEF Adds
    <3>3. CASE n \in 1..L
      <4>1. n \in DOMAIN read[t] /\ read'[t][n] = read[t][n]
        BY <2>2, <2>3, <3>3 DEF Adds
      <4> QED BY <2>4, <4>1 DEF PathsAlwaysDiffered
    <3> QED BY <3>1, <3>2, <3>3
  <2>5. CASE u # t
    <3>1. read'[u] = read[u]
      BY <2>2, <2>5 DEF Adds
    <3> QED BY <1>2, <3>1 DEF PathsAlwaysDiffered
  <2> QED BY <2>4, <2>5
<1>3. CASE Ledger!Next
  BY <1>2, <1>3 DEF Ledger!Next, PathsAlwaysDiffered, Ledger!DistinctPaths
<1>4. CASE read' = read
  BY <1>4 DEF PathsAlwaysDiffered, Ledger!DistinctPaths
<1> QED BY <1>1, <1>3, <1>4

(* One mutation of a rollback: CheckPageBatch takes it in the post-state,  *)
(* and its outcome is the content before the batch.                        *)
LEMMA RollbackMutationFits ==
  ASSUME NEW old \in P!State \union {Absent}, NEW new \in P!State \union {Absent}
  PROVE  /\ P!RollbackMutation(old, new).kind = "restore" => new = Absent
         /\ P!RollbackMutation(old, new).kind \notin {"none", "restore"} =>
              new # Absent /\ new.version = P!RollbackMutation(old, new).version
         /\ P!OutcomeOf(new, P!RollbackMutation(old, new)) =
              (IF old = Absent THEN Absent ELSE old.content)
         /\ P!RollbackMutation(old, new).kind = "none" =>
              (IF old = Absent THEN Absent ELSE old.content) = (IF new = Absent THEN Absent ELSE new.content)
<1>1. CASE old = Absent /\ new # Absent
  BY <1>1 DEF P!RollbackMutation, P!Mutation, P!OutcomeOf
<1>2. CASE old = Absent /\ new = Absent
  BY <1>2 DEF P!RollbackMutation, P!Mutation, P!Untouched, P!OutcomeOf
<1>3. CASE old # Absent /\ new = Absent
  BY <1>3 DEF P!RollbackMutation, P!Mutation, P!OutcomeOf
<1>4. CASE old # Absent /\ new # Absent
  BY <1>4 DEF P!RollbackMutation, P!Mutation, P!Untouched, P!OutcomeOf
<1> QED BY <1>1, <1>2, <1>3, <1>4

LEMMA RollbackIsAvailable ==
  ASSUME IInv, PathsAlwaysDiffered, NEW r \in receipts,
         revisions[r.scope] = r.afterRevision,
         P!ContentsOf(r.before) # P!ContentsOf(r.after),
         P!Reversible(r)
  PROVE  P!CheckPageBatch(r.scope, P!RollbackBatch(r), TRUE)
<1> DEFINE t == r.scope
           b == P!RollbackBatch(r)
           last == P!StatesOf(pages, t)
           before == r.before
           after == r.after
<1>1. /\ t \in Tenants /\ r.beforeRevision \in Nat /\ r.afterRevision \in Nat
      /\ before \in P!PageSets(P!State) /\ after \in P!PageSets(P!State)
  BY DEF IInv, TypeOK, P!Receipt
<1>2. /\ r.afterRevision = r.beforeRevision + 1
      /\ before = read[t][r.afterRevision] /\ after = read[t][r.afterRevision + 1]
  BY <1>1 DEF IInv, ReceiptsOK, ReceiptsAreReal
<1>3. after = last /\ before = read[t][r.afterRevision] /\ r.afterRevision \in DOMAIN read[t]
  <2>1. /\ read[t][revisions[t] + 1] = last /\ DOMAIN read[t] = 1..(revisions[t] + 1)
    BY <1>1, ReadType DEF IInv
  <2> QED BY <1>1, <1>2, <2>1
<1>4. Ledger!DistinctPaths(before)
  BY <1>1, <1>3 DEF PathsAlwaysDiffered
<1>5. P!BaselineMatches(t, b)
  BY <1>3 DEF P!BaselineMatches, P!RollbackBatch
<1>6. \A i \in P!ID : b.targets[i] = P!RollbackMutation(before[i], after[i])
  BY DEF P!RollbackBatch
<1>7. b.creates = << >>
  BY DEF P!RollbackBatch
<1>8. \A i \in P!ID : before[i] \in P!State \union {Absent} /\ after[i] \in P!State \union {Absent}
  BY <1>1 DEF P!PageSets
<1>9. /\ \A i \in P!ID : before[i] # Absent => P!Valid(before[i].content)
  BY DEF P!Reversible, P!IDsOf
<1> HIDE DEF b, before, after, last
<1>10. \E i \in P!ID : b.targets[i].kind # "none"
  <2> SUFFICES ASSUME \A i \in P!ID : b.targets[i].kind = "none" PROVE FALSE
    OBVIOUS
  <2>1. ASSUME NEW i \in P!ID
        PROVE  (IF before[i] = Absent THEN Absent ELSE before[i].content)
                = (IF after[i] = Absent THEN Absent ELSE after[i].content)
    BY <1>6, <1>8, RollbackMutationFits
  <2>2. P!ContentsOf(before) = P!ContentsOf(after)
    BY <2>1 DEF P!ContentsOf
  <2> QED BY <2>2 DEF before, after
<1>11. ASSUME NEW i \in P!ID
       PROVE  CASE b.targets[i].kind = "none" -> TRUE
                [] b.targets[i].kind = "restore" -> TRUE /\ last[i] = Absent
                [] OTHER -> last[i] # Absent /\ last[i].version = b.targets[i].version
  <2>1. /\ b.targets[i].kind = "restore" => last[i] = Absent
        /\ b.targets[i].kind \notin {"none", "restore"} =>
             last[i] # Absent /\ last[i].version = b.targets[i].version
    BY <1>3, <1>6, <1>8, RollbackMutationFits
  <2>2. CASE b.targets[i].kind = "none"
    BY <2>2
  <2>3. CASE b.targets[i].kind = "restore"
    BY <2>1, <2>3
  <2>4. CASE b.targets[i].kind \notin {"none", "restore"}
    BY <2>1, <2>4
  <2> QED BY <2>2, <2>3, <2>4
<1>12. P!OutcomeOK(last, b)
  <2> DEFINE kept == [i \in P!ID |-> P!OutcomeOf(last[i], b.targets[i])]
  <2>1. ASSUME NEW i \in P!ID, kept[i] # Absent
        PROVE  before[i] # Absent /\ kept[i] = before[i].content
    BY <1>3, <1>6, <1>8, <2>1, RollbackMutationFits
  <2>2. \A i \in P!IDsOf(kept) : P!Valid(kept[i])
    BY <1>9, <2>1 DEF P!IDsOf
  <2> HIDE DEF kept
  <2>3. \A i, j \in P!IDsOf(kept) : kept[i].path = kept[j].path => i = j
    <3> SUFFICES ASSUME NEW i \in P!ID, NEW j \in P!ID, kept[i] # Absent, kept[j] # Absent,
                        kept[i].path = kept[j].path
                 PROVE  i = j
      BY DEF P!IDsOf
    <3>1. /\ before[i] # Absent /\ kept[i] = before[i].content
          /\ before[j] # Absent /\ kept[j] = before[j].content
      BY <2>1
    <3> QED BY <1>4, <3>1 DEF Ledger!DistinctPaths
  <2>4. DOMAIN b.creates = {}
    BY <1>7
  <2> QED BY <2>2, <2>3, <2>4 DEF P!OutcomeOK, kept
<1>13. P!CheckPageBatch(t, b, TRUE)
  BY <1>5, <1>10, <1>11, <1>12 DEF P!CheckPageBatch, last
<1> QED BY <1>13 DEF b

(* As long as a tenant is in the post-state a receipt records, and the      *)
(* batch changed some content and left only pages a batch may write, the    *)
(* Postgres store accepts the rollback; that its statements then go through *)
(* is BatchesAlwaysGoThrough (store/postgres/batch.go, RollbackPageBatch).  *)
THEOREM RollbacksStayAvailable == Spec => []P!RollbackAvailable
<1>1. Init => PathsAlwaysDiffered
  <2> SUFFICES ASSUME Init, NEW t \in Tenants, NEW n \in DOMAIN read[t] PROVE Ledger!DistinctPaths(read[t][n])
    BY DEF PathsAlwaysDiffered
  <2>1. read[t][n] = P!NoPages
    BY DEF Init
  <2> QED BY <2>1 DEF Ledger!DistinctPaths, P!NoPages
<1>2. IInv /\ PathsAlwaysDiffered /\ [Next]_vars => PathsAlwaysDiffered'
  BY NextKeepsPathsDiffering
<1>3. IInv /\ PathsAlwaysDiffered => P!RollbackAvailable
  BY RollbackIsAvailable DEF P!RollbackAvailable
<1> QED BY <1>1, <1>2, <1>3, Invariance, PTL DEF Spec

================================================================================
