------------------------------ MODULE PgPageStore ------------------------------
(***************************************************************************)
(* The Postgres page store (store/postgres).  A write is a transaction of  *)
(* several statements under the tenant's advisory lock: rows change one    *)
(* statement at a time below an immediate unique constraint, then the      *)
(* revision advances, the history event is appended and all of it is       *)
(* committed.  It may fail before that, and the answer of a commit may be  *)
(* lost.  What a batch is allowed to do is decided by the same code as in  *)
(* the in-memory store (store/batch.go), so those definitions are taken    *)
(* from PageStore.  History exists only after migration 0002 (Adopt), and  *)
(* writers from before it advance the revision without an event.           *)
(***************************************************************************)
EXTENDS Integers, Sequences, FiniteSetsExt

CONSTANTS
  Tenants, Paths, Bodies, ValidBodies, Absent, MaxRevision, MaxID, MaxCreates,
  Writers,  \* connections that write pages
  NoTx,     \* a connection without a transaction
  Limit     \* events per page of the history

ASSUME ValidBodiesAssumption == ValidBodies \subseteq Bodies
ASSUME BoundsAssumption == {MaxRevision, MaxID, MaxCreates} \subseteq Nat
ASSUME LimitAssumption == Limit \in Nat \ {0}

VARIABLES
  pages,      \* the committed rows, by id, over all tenants
  nextID,     \* the sequence of page ids: never rolled back
  revisions,  \* cms_page_revisions.revision
  adopted,    \* migration 0002 has been applied
  start,      \* cms_page_revisions.history_start_revision
  history,    \* the events of cms_page_history
  tx,         \* the open transaction of each writer
  read,       \* the committed states a caller may hold, as in PageStore
  receipts    \* receipts that reached a caller

vars == <<pages, nextID, revisions, adopted, start, history, tx, read, receipts>>

P == INSTANCE PageStore WITH scoped <- Tenants

--------------------------------------------------------------------------------
(* Statements.  A staged page sits at a path of its own that no page has   *)
(* and none will get: applyBatch draws it until it is unoccupied.          *)

StagedPath(i) == <<"__cms_batch_stage__", i>>

ASSUME StagedPathAssumption == \A i \in P!ID : StagedPath(i) \notin Paths

\* The rows a transaction sees of its tenant's pages.
RowContent == [path : Paths \union {StagedPath(i) : i \in P!ID}, body : Bodies]
Row == [version : Nat \ {0}, content : RowContent]

ASSUME AbsentAssumption == Absent \notin RowContent \union Row \union P!Page

Statement(kind, id, v, c) == [kind |-> kind, id |-> id, version |-> v, content |-> c]

Staged(i, c) == [path |-> StagedPath(i), body |-> c.body]

NoMoveStatements(b) == {}

MoveStatements(b) ==
  {Statement("stage", i, b.targets[i].version, Staged(i, b.baseline[i].content)) :
     i \in {j \in P!ID : b.targets[j].kind = "update" /\
                         b.targets[j].content.path # b.baseline[j].content.path}}

StatementsWithoutDeletes(b) ==
  MoveStatements(b)
    \union {Statement(b.targets[i].kind, i, b.targets[i].version, b.targets[i].content) :
              i \in {j \in P!ID : b.targets[j].kind \notin {"none", "delete"}}}
    \union {Statement("create", 0, P!FirstVersion, b.creates[k]) : k \in DOMAIN b.creates}

BatchStatements(b) ==
  MoveStatements(b)
    \union {Statement(b.targets[i].kind, i, b.targets[i].version, b.targets[i].content) :
              i \in {j \in P!ID : b.targets[j].kind # "none"}}
    \union {Statement("create", 0, P!FirstVersion, b.creates[k]) : k \in DOMAIN b.creates}

(* Moved pages are staged first, then deletes run, then the rest in the    *)
(* order of the batch, which is the caller's.                              *)
Rank == [stage |-> 1, delete |-> 2, create |-> 3, update |-> 3, restore |-> 3]

Ready(x) == {s \in x.todo : \A o \in x.todo : Rank[s.kind] <= Rank[o.kind]}

RowAfter(s) ==
  CASE s.kind = "delete" -> Absent
    [] s.kind = "update" -> P!PageState(P!NextVersion(s.version), s.content)
    [] OTHER -> P!PageState(s.version, s.content)

FoundAnyVersion(rows, s) ==
  s.kind # "create" => (s.kind = "restore" <=> rows[s.id] = Absent)

(* An INSERT needs a free id, the others find the row by id and version. *)
Found(rows, s) ==
  CASE s.kind = "create" -> TRUE
    [] s.kind = "restore" -> rows[s.id] = Absent
    [] OTHER -> rows[s.id] # Absent /\ rows[s.id].version = s.version

(* UNIQUE (tenant_id, subsite, path), checked at every statement. *)
PathFree(rows, s) ==
  s.kind # "delete" =>
    \A i \in P!IDsOf(rows) \ {s.id} : rows[i].content.path # s.content.path

Succeeds(rows, s) == Found(rows, s) /\ PathFree(rows, s)

--------------------------------------------------------------------------------
(* Transactions. *)

NoLock(t) == TRUE

(* pageTransaction: pg_advisory_xact_lock of the tenant. *)
Lock(t) == \A w \in Writers : tx[w] # NoTx => tx[w].tenant # t

Begin(w, t, operation, statements) ==
  /\ tx' = [tx EXCEPT ![w] =
       [tenant |-> t, operation |-> operation, revision |-> revisions[t],
        before |-> P!StatesOf(pages, t), rows |-> P!StatesOf(pages, t),
        todo |-> statements, last |-> 0]]
  /\ UNCHANGED <<pages, nextID, revisions, adopted, start, history, read, receipts>>

Create(w, t, c) ==
  Begin(w, t, "create", {Statement("create", 0, P!FirstVersion, c)})

(* pageBefore: a page the tenant does not have is refused at once. *)
Update(w, t, i, v, c) ==
  /\ P!BelongsTo(t, i)
  /\ Begin(w, t, "update", {Statement("update", i, v, c)})

Delete(w, t, i, v) ==
  /\ P!BelongsTo(t, i)
  /\ Begin(w, t, "delete", {Statement("delete", i, v, Absent)})

ApplyBatch(w, t, b, operation) ==
  /\ P!CheckPageBatch(t, b, operation = "batch.rollback")
  /\ Begin(w, t, operation, BatchStatements(b))

ApplyPageBatch(w, t, n, targets, creates) ==
  ApplyBatch(w, t, P!BatchFor(t, n, targets, creates), "batch.apply")

RollbackPageBatch(w, t, r) ==
  /\ P!Reversible(r)
  /\ ApplyBatch(w, t, P!RollbackBatch(r), "batch.rollback")

Execute(w, s) ==
  LET id == IF s.kind = "create" THEN nextID + 1 ELSE s.id
  IN /\ s \in Ready(tx[w])
     /\ Succeeds(tx[w].rows, s)
     /\ id \in P!ID
     /\ nextID' = IF s.kind = "create" THEN id ELSE nextID
     /\ tx' = [tx EXCEPT ![w].rows[id] = RowAfter(s), ![w].todo = @ \ {s}, ![w].last = id]
     /\ UNCHANGED <<pages, revisions, adopted, start, history, read, receipts>>

(* A statement is refused, the connection breaks or the process stops: the *)
(* rows are rolled back, an id the sequence gave out is not.               *)
Abort(w) ==
  /\ tx[w] # NoTx
  /\ tx' = [tx EXCEPT ![w] = NoTx]
  /\ nextID' \in {nextID} \union
       {nextID + 1 : s \in {o \in Ready(tx[w]) : o.kind = "create" /\ nextID < MaxID}}
  /\ UNCHANGED <<pages, revisions, adopted, start, history, read, receipts>>

--------------------------------------------------------------------------------
(* The end of a write. *)

IsBatch(x) == x.operation \in {"batch.apply", "batch.rollback"}

(* A batch records all it changed, a single write the page it wrote. *)
Event(x, revision) ==
  LET one(states) == P!Only(x.last, states[x.last])
  IN [revision |-> revision, operation |-> x.operation,
      before |-> IF IsBatch(x) THEN P!Changed(x.before, x.rows) ELSE one(x.before),
      after |-> IF IsBatch(x) THEN P!Changed(x.rows, x.before) ELSE one(x.rows)]

AppendUnchecked(t, revision) == adopted

(* The INSERT ... SELECT of appendPageHistory inserts a row only right     *)
(* after the marker or the previous event.                                 *)
CanAppend(t, revision) ==
  /\ adopted
  /\ start[t] = revision - 1 \/ \E e \in history[t] : e.revision = revision - 1

ReceiptOf(x, revision) ==
  [scope |-> x.tenant, beforeRevision |-> x.revision, afterRevision |-> revision,
   before |-> x.before, after |-> x.rows]

(* The rows the transaction wrote become the tenant's. *)
Written(x) ==
  [i \in P!ID |->
     IF x.rows[i] = x.before[i] THEN pages[i]
     ELSE IF x.rows[i] = Absent THEN Absent
     ELSE [tenant |-> x.tenant, version |-> x.rows[i].version, content |-> x.rows[i].content]]

(* advanceRevision, appendPageHistory and COMMIT.  A writer from before    *)
(* migration 0002 (logged is FALSE) differs only in that it appends        *)
(* nothing.  The receipt is lost when the answer of the COMMIT is.         *)
Commit(w, logged, answered) ==
  LET x == tx[w]
      t == x.tenant
      revision == revisions[t] + 1
  IN /\ tx[w] # NoTx
     /\ x.todo = {}
     /\ revision <= MaxRevision
     /\ logged => CanAppend(t, revision)
     /\ tx' = [tx EXCEPT ![w] = NoTx]
     /\ pages' = Written(x)
     /\ revisions' = [revisions EXCEPT ![t] = revision]
     /\ history' = IF logged THEN [history EXCEPT ![t] = @ \union {Event(x, revision)}]
                             ELSE history
     /\ read' = [read EXCEPT ![t] = Append(@, P!StatesOf(Written(x), t))]
     /\ receipts' = IF IsBatch(x) /\ answered THEN receipts \union {ReceiptOf(x, revision)}
                                              ELSE receipts
     /\ UNCHANGED <<nextID, adopted, start>>

(* Migration 0002, under a write fence: history starts at each tenant's    *)
(* current revision.                                                       *)
Adopt ==
  /\ ~adopted
  /\ \A w \in Writers : tx[w] = NoTx
  /\ adopted' = TRUE
  /\ start' = revisions
  /\ UNCHANGED <<pages, nextID, revisions, history, tx, read, receipts>>

--------------------------------------------------------------------------------
(* ReadPageHistory runs in one read-only repeatable-read transaction, which *)
(* sees one committed state and waits for no writer: its answer is a        *)
(* function of the state it starts in.                                      *)

Revisions(events) == {e.revision : e \in events}

HistoryHeadFromZero(t) == Max(Revisions(history[t]) \union {0})

(* COALESCE(MAX(revision), history_start_revision) *)
HistoryHead(t) ==
  IF history[t] = {} THEN start[t] ELSE Max(Revisions(history[t]))

(* ORDER BY revision LIMIT n *)
First(events, n) ==
  {e \in events : Cardinality({o \in events : o.revision < e.revision}) < n}

From(t, after) == Max({after, start[t]})

RowsWithoutExtra(t, after) == First({e \in history[t] : e.revision > after}, Limit)

(* One row more is read than the answer has room for. *)
Rows(t, after) == First({e \in history[t] : e.revision > after}, Limit + 1)

(* The head and each row must follow on, or nothing is answered. *)
Available(t, after) ==
  /\ HistoryHead(t) = revisions[t]
  /\ Revisions(Rows(t, after)) =
       From(t, after) + 1 .. From(t, after) + Cardinality(Rows(t, after))

Answer(t, after) ==
  LET entries == First(Rows(t, after), Limit)
  IN [entries |-> entries,
      next |-> IF entries = {} THEN after ELSE Max(Revisions(entries)),
      more |-> Cardinality(Rows(t, after)) > Limit]

--------------------------------------------------------------------------------
Init ==
  /\ pages = P!NoPages
  /\ nextID = 0
  /\ revisions = [t \in Tenants |-> 0]
  /\ adopted = FALSE
  /\ start = [t \in Tenants |-> 0]
  /\ history = [t \in Tenants |-> {}]
  /\ tx = [w \in Writers |-> NoTx]
  /\ read = [t \in Tenants |-> <<P!NoPages>>]
  /\ receipts = {}

BeginWrite(w, t) ==
  /\ tx[w] = NoTx
  /\ Lock(t)
  /\ \/ \E c \in P!Content : Create(w, t, c)
     \/ \E h \in P!Held, c \in P!Content : Update(w, t, h[1], h[2], c)
     \/ \E h \in P!Held : Delete(w, t, h[1], h[2])
     \/ \E n \in 0..revisions[t] : \E targets \in P!TargetChoices(read[t][n + 1]) :
          \E creates \in P!CreateChoices : ApplyPageBatch(w, t, n, targets, creates)
     \/ \E r \in receipts : RollbackPageBatch(w, t, r)

ExecuteNext(w) == tx[w] # NoTx /\ \E s \in tx[w].todo : Execute(w, s)

Next ==
  \/ \E w \in Writers :
       \/ \E t \in Tenants : BeginWrite(w, t)
       \/ ExecuteNext(w)
       \/ Abort(w)
       \/ \E logged, answered \in BOOLEAN : Commit(w, logged, answered)
  \/ Adopt

Spec == Init /\ [][Next]_vars

--------------------------------------------------------------------------------
(* Properties. *)

Statements ==
  [kind : DOMAIN Rank, id : 0..MaxID, version : Nat, content : RowContent \union {Absent}]
Transaction ==
  [tenant : Tenants, operation : P!Events, revision : 0..MaxRevision,
   before : P!PageSets(P!State), rows : P!PageSets(Row), todo : SUBSET Statements, last : 0..MaxID]

(* Type invariant: committed rows are pages at real paths, never staged. *)
TypeOK ==
  /\ pages \in P!PageSets(P!Page)
  /\ nextID \in 0..MaxID
  /\ revisions \in [Tenants -> 0..MaxRevision]
  /\ start \in [Tenants -> 0..MaxRevision]
  /\ adopted \in BOOLEAN
  /\ history \in [Tenants -> SUBSET P!Entry]
  /\ tx \in [Writers -> Transaction \union {NoTx}]
  /\ read \in [Tenants -> Seq(P!PageSets(P!State))]
  /\ receipts \subseteq P!Receipt

(* applyBatch: a batch that CheckPageBatch accepted meets neither the      *)
(* unique constraint nor a missing row, in whatever order its creates,     *)
(* updates and restores come, swaps of paths included.                     *)
BatchesGoThrough ==
  \A w \in Writers : tx[w] # NoTx /\ IsBatch(tx[w]) =>
    \A s \in Ready(tx[w]) : Succeeds(tx[w].rows, s)

(* appendPageHistory: the saved events are those of the writes from the    *)
(* marker on, each exactly what its write changed, and they stop for good  *)
(* at the first write that left none: no event ever hides a gap.  From     *)
(* that write on, and only then, the tenant's history is unavailable, for  *)
(* every cursor (adoption, step 2); a tenant without a write since the     *)
(* marker has an empty history and not an unavailable one.                 *)
HistoryEndsAtFirstGap ==
  \A t \in Tenants :
    /\ adopted => \A after \in 0..revisions[t] :
         Available(t, after) <=> start[t] + 1 .. revisions[t] \subseteq Revisions(history[t])
    /\ Revisions(history[t]) = start[t] + 1 .. start[t] + Cardinality(history[t])
    /\ \A e \in history[t] :
         LET old == read[t][e.revision]
             new == read[t][e.revision + 1]
         IN e.before = P!Changed(old, new) /\ e.after = P!Changed(new, old)

(* The receipt of a batch records two consecutive states that the tenant   *)
(* really had, so that a rollback restores what was there.                 *)
ReceiptsAreReal ==
  \A r \in receipts :
    /\ r.afterRevision = r.beforeRevision + 1
    /\ r.before = read[r.scope][r.afterRevision]
    /\ r.after = read[r.scope][r.afterRevision + 1]

(* A rollback undoes exactly the last write, although it runs statement by *)
(* statement, stages pages and finds others deleted: what it leaves are    *)
(* the contents at the revision before, under the same ids.                *)
RollbackRestores ==
  \A t \in Tenants : \A e \in history[t] :
    e.operation = "batch.rollback" =>
      /\ e.revision >= 2
      /\ P!ContentsOf(read[t][e.revision + 1]) = P!ContentsOf(read[t][e.revision - 1])

(* ReadPageHistory: a caller who follows the cursor from anywhere between  *)
(* the marker and the head, each time in a later state, gets every event   *)
(* once: an answer goes on right after the cursor (or the marker), ends    *)
(* where the next cursor starts, and says that there is no more only when  *)
(* it has reached the tenant's revision.                                   *)
AnswersAreExact ==
  \A t \in Tenants : \A after \in 0..revisions[t] :
    adopted /\ Available(t, after) =>
      LET a == Answer(t, after)
          from == IF after < start[t] THEN start[t] ELSE after
      IN /\ Revisions(a.entries) = {n \in from + 1 .. revisions[t] : n <= a.next}
         /\ Cardinality(a.entries) <= Limit
         /\ ~a.more => revisions[t] \in {a.next, start[t]}

Ledger == INSTANCE PageLedger WITH ledger <- read, ID <- P!ID

(* The store implements the ledger of PageLedger, the contract it shares   *)
(* with the in-memory store: a transaction is one legal write or nothing.  *)
LedgerSpec == Ledger!Spec

================================================================================
