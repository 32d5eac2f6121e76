------------------------------- MODULE PageStore -------------------------------
(***************************************************************************)
(* The tenant-scoped page store (store/page.go, batch.go, batch_memory.go, *)
(* history.go).  Every operation runs under one mutex, so each is a single *)
(* action; an operation the store refuses changes nothing and is not an    *)
(* action.  What makes the store hard is that its callers work from what   *)
(* they read earlier: a save, a delete, a batch and a rollback all carry a *)
(* state of the tenant that may be long gone.  The variable read keeps     *)
(* every state a caller can still hold, and the actions take their input   *)
(* from any of them.                                                       *)
(***************************************************************************)
EXTENDS Integers, Sequences

CONSTANTS
  Tenants,      \* tenant ids; a tenant's random scope is the tenant itself
  Paths,        \* (subsite, path) pairs
  Bodies,       \* the rest of a page's content: title, blocks, status, schedule
  ValidBodies,  \* the bodies that PageContent.Validate accepts
  Absent,       \* no page
  MaxRevision,  \* bound: committed writes per tenant
  MaxID,        \* bound: page ids handed out
  MaxCreates    \* bound: new pages in one batch

ASSUME ValidBodiesAssumption == ValidBodies \subseteq Bodies
ASSUME BoundsAssumption == {MaxRevision, MaxID, MaxCreates} \subseteq Nat

VARIABLES
  pages,      \* the live pages, by id, over all tenants
  nextID,     \* the last id handed out, shared by the tenants
  revisions,  \* writes committed per tenant
  scoped,     \* the tenants whose scope has been drawn
  history,    \* the saved history events per tenant
  read,       \* read[t][n + 1] is the state of t at revision n: what a caller may hold
  receipts    \* batch receipts handed to callers, who keep them for ever

vars == <<pages, nextID, revisions, scoped, history, read, receipts>>

--------------------------------------------------------------------------------
(* Data. *)

Content == [path : Paths, body : Bodies]
State == [version : Nat \ {0}, content : Content]
Page == [tenant : Tenants, version : Nat \ {0}, content : Content]
ID == 1..MaxID

ASSUME AbsentAssumption == Absent \notin Content \union State \union Page

\* What is known of each id: a value of S, or Absent.
PageSets(S) == [ID -> S \union {Absent}]

Events == {"create", "update", "delete", "batch.apply", "batch.rollback"}
Entry == [revision : Nat, operation : Events,
          before : PageSets(State), after : PageSets(State)]
Receipt == [scope : Tenants, beforeRevision : Nat, afterRevision : Nat,
            before : PageSets(State), after : PageSets(State)]

NoPages == [i \in ID |-> Absent]
IDsOf(ps) == {i \in ID : ps[i] # Absent}
Only(i, x) == [NoPages EXCEPT ![i] = x]

PageState(v, c) == [version |-> v, content |-> c]

(* Page.Validate accepts every body, PageContent.Validate only these. *)
Valid(c) == c.body \in ValidBodies

BelongsTo(t, i) == pages[i] # Absent /\ pages[i].tenant = t

(* The pages of t as States, ReadPageState and a receipt's Before and After *)
(* record them: without the tenant.                                         *)
StatesOf(ps, t) ==
  [i \in ID |-> IF ps[i] # Absent /\ ps[i].tenant = t
                THEN PageState(ps[i].version, ps[i].content) ELSE Absent]

ChangedByContentOnly(old, new) ==
  [i \in ID |-> IF old[i] # Absent /\ new[i] # Absent /\ old[i].content = new[i].content
                THEN Absent ELSE old[i]]

(* The pages of old that new lacks or has in another version or content. *)
Changed(old, new) ==
  [i \in ID |-> IF old[i] = new[i] THEN Absent ELSE old[i]]

GetByPath(t, p) == {i \in ID : BelongsTo(t, i) /\ pages[i].content.path = p}

--------------------------------------------------------------------------------
(* The write every operation ends with: revision, scope and history event. *)

Commit(t, newPages, operation, before, after) ==
  /\ revisions[t] < MaxRevision
  /\ pages' = newPages
  /\ scoped' = scoped \union {t}
  /\ revisions' = [revisions EXCEPT ![t] = @ + 1]
  /\ history' = [history EXCEPT ![t] =
       Append(@, [revision |-> revisions[t] + 1, operation |-> operation,
                  before |-> before, after |-> after])]
  /\ read' = [read EXCEPT ![t] = Append(@, StatesOf(newPages, t))]

NoDuplicateCheck(t, p, except) == FALSE

(* duplicateLocked: another page of the tenant has the path. *)
Duplicate(t, p, except) == \E i \in GetByPath(t, p) : i # except

CurrentInAnyTenant(t, i, v) == pages[i] # Absent /\ pages[i].version = v

(* The precondition of Update and Delete: the page is the tenant's and the *)
(* caller holds its current version.                                       *)
Current(t, i, v) == BelongsTo(t, i) /\ pages[i].version = v

(* Create in memory would keep another version its caller names            *)
(* (store/page.go:158); no caller in the program names one.                *)
FirstVersion == 1

NextVersionUnchanged(v) == v
NextVersion(v) == v + 1

Create(t, c) ==
  LET id == nextID + 1
  IN /\ ~Duplicate(t, c.path, 0)
     /\ id \in ID
     /\ nextID' = id
     /\ Commit(t, [pages EXCEPT ![id] = [tenant |-> t, version |-> FirstVersion, content |-> c]],
               "create", NoPages, Only(id, PageState(FirstVersion, c)))
     /\ UNCHANGED receipts

(* v is the version the caller read; the content may be the same as before. *)
Update(t, i, v, c) ==
  /\ Current(t, i, v)
  /\ ~Duplicate(t, c.path, i)
  /\ Commit(t, [pages EXCEPT ![i] =
               [tenant |-> t, version |-> NextVersion(v), content |-> c]],
            "update", Only(i, PageState(v, pages[i].content)), Only(i, PageState(NextVersion(v), c)))
  /\ UNCHANGED <<nextID, receipts>>

Delete(t, i, v) ==
  /\ Current(t, i, v)
  /\ Commit(t, [pages EXCEPT ![i] = Absent],
            "delete", Only(i, PageState(v, pages[i].content)), NoPages)
  /\ UNCHANGED <<nextID, receipts>>

(* Reading the state draws the tenant's scope.  A refused batch does too.  *)
ReadPageState(t) ==
  /\ scoped' = scoped \union {t}
  /\ UNCHANGED <<pages, nextID, revisions, history, read, receipts>>

--------------------------------------------------------------------------------
(* Batches.  A batch names the scope, the revision and the whole baseline  *)
(* it was computed from.  targets gives each existing page it touches one  *)
(* mutation (a list that names a page twice is refused); creates lists the *)
(* contents of new pages.                                                  *)

Mutation(kind, v, c) == [kind |-> kind, version |-> v, content |-> c]
Untouched == Mutation("none", 0, Absent)

OutcomeKeepingDeleted(state, m) ==
  CASE m.kind \in {"none", "delete"} -> IF state = Absent THEN Absent ELSE state.content
    [] OTHER -> m.content

(* The content an existing id has once the batch has been applied. *)
OutcomeOf(state, m) ==
  CASE m.kind = "none" -> IF state = Absent THEN Absent ELSE state.content
    [] m.kind = "delete" -> Absent
    [] OTHER -> m.content

(* Every page of the outcome is valid and no two share a path. *)
OutcomeOK(states, b) ==
  LET kept == [i \in ID |-> OutcomeOf(states[i], b.targets[i])]
  IN /\ \A i \in IDsOf(kept) : Valid(kept[i])
     /\ \A i, j \in IDsOf(kept) : kept[i].path = kept[j].path => i = j
     /\ \A k \in DOMAIN b.creates :
          /\ Valid(b.creates[k])
          /\ \A i \in IDsOf(kept) : kept[i].path # b.creates[k].path
          /\ \A l \in DOMAIN b.creates : b.creates[l].path = b.creates[k].path => k = l

BaselineMatchesPagesOnly(t, b) ==
  /\ b.scope = t
  /\ b.baseline = StatesOf(pages, t)

(* The batch was computed from the current state of this very tenant. *)
BaselineMatches(t, b) ==
  /\ b.scope = t
  /\ b.revision = revisions[t]
  /\ b.baseline = StatesOf(pages, t)

CheckPageBatch(t, b, allowRestore) ==
  LET states == StatesOf(pages, t)
  IN /\ BaselineMatches(t, b)
     /\ b.creates # << >> \/ \E i \in ID : b.targets[i].kind # "none"
     /\ \A i \in ID :
          CASE b.targets[i].kind = "none" -> TRUE
            [] b.targets[i].kind = "restore" -> allowRestore /\ states[i] = Absent
            [] OTHER -> states[i] # Absent /\ states[i].version = b.targets[i].version
     /\ OutcomeOK(states, b)

(* The page an existing id holds after its mutation: a restored page gets  *)
(* the version the mutation names, an updated one the next.                *)
Saved(t, page, m) ==
  CASE m.kind = "none" -> page
    [] m.kind = "delete" -> Absent
    [] m.kind = "update" -> [tenant |-> t, version |-> NextVersion(m.version), content |-> m.content]
    [] m.kind = "restore" -> [tenant |-> t, version |-> m.version, content |-> m.content]

PagesAfter(t, b) ==
  [i \in ID |->
     IF i - nextID \in DOMAIN b.creates
     THEN [tenant |-> t, version |-> FirstVersion, content |-> b.creates[i - nextID]]
     ELSE Saved(t, pages[i], b.targets[i])]

(* applyBatchLocked.  A restored id above the counter raises the counter. *)
ApplyBatch(t, b, operation) ==
  LET old == StatesOf(pages, t)
      new == StatesOf(PagesAfter(t, b), t)
      ids == {nextID + Len(b.creates)} \union {i \in ID : b.targets[i].kind = "restore"}
  IN /\ CheckPageBatch(t, b, operation = "batch.rollback")
     /\ nextID + Len(b.creates) <= MaxID
     /\ nextID' \in {n \in ids : \A m \in ids : m <= n}
     /\ Commit(t, PagesAfter(t, b), operation, Changed(old, new), Changed(new, old))
     /\ receipts' = receipts \union
          {[scope |-> t, beforeRevision |-> revisions[t], afterRevision |-> revisions[t] + 1,
            before |-> old, after |-> new]}

(* BatchFor: mutations chosen against the state read at revision n. *)
BatchFor(t, n, targets, creates) ==
  [scope |-> t, revision |-> n, baseline |-> read[t][n + 1],
   targets |-> targets, creates |-> creates]

(* The mutation of a page read as state: to Absent a delete, else an update. *)
(* A caller can never ask for a restore.                                     *)
MutationTo(state, c) ==
  IF c = Absent THEN Mutation("delete", state.version, Absent)
  ELSE Mutation("update", state.version, c)

ApplyPageBatch(t, n, targets, creates) ==
  ApplyBatch(t, BatchFor(t, n, targets, creates), "batch.apply")

--------------------------------------------------------------------------------
(* Rollback.  A receipt is sealed by its digest: the only ones a caller    *)
(* can present are those the store handed out, to any tenant.              *)

RestoredVersionUnchanged(v) == v
RestoredVersion(v) == v + 1

(* A page the batch created is deleted, a page it changed gets its old     *)
(* content, a page it deleted returns with the version after its last.     *)
RollbackMutation(old, new) ==
  CASE old = Absent /\ new # Absent -> Mutation("delete", new.version, Absent)
    [] old # Absent /\ new = Absent -> Mutation("restore", RestoredVersion(old.version), old.content)
    [] OTHER -> IF old = Absent \/ old.content = new.content THEN Untouched
                ELSE Mutation("update", new.version, old.content)

RollbackBatch(r) ==
  [scope |-> r.scope, revision |-> r.afterRevision, baseline |-> r.after,
   targets |-> [i \in ID |-> RollbackMutation(r.before[i], r.after[i])], creates |-> << >>]

(* RollbackBatch refuses a receipt that records an invalid page. *)
Reversible(r) ==
  /\ \A i \in IDsOf(r.before) : Valid(r.before[i].content)
  /\ \A i \in IDsOf(r.after) : Valid(r.after[i].content)

RollbackPageBatch(t, r) ==
  /\ Reversible(r)
  /\ ApplyBatch(t, RollbackBatch(r), "batch.rollback")

--------------------------------------------------------------------------------
Init ==
  /\ pages = NoPages
  /\ nextID = 0
  /\ revisions = [t \in Tenants |-> 0]
  /\ scoped = {}
  /\ history = [t \in Tenants |-> << >>]
  /\ read = [t \in Tenants |-> <<NoPages>>]
  /\ receipts = {}

(* Ids and versions somebody has read, of whatever tenant. *)
Held ==
  {h \in ID \X (1..MaxRevision) :
     \E u \in Tenants : \E n \in DOMAIN read[u] :
       read[u][n][h[1]] # Absent /\ read[u][n][h[1]].version = h[2]}

(* A mutation, or none, for each page of a state that was read. *)
TargetChoices(states) ==
  UNION {{[i \in ID |-> IF i \in D THEN MutationTo(states[i], f[i]) ELSE Untouched] :
            f \in [D -> Content \union {Absent}]} : D \in SUBSET IDsOf(states)}

CreateChoices == UNION {[1..k -> Content] : k \in 0..MaxCreates}

Next ==
  \E t \in Tenants :
    \/ \E c \in Content : Create(t, c)
    \/ \E h \in Held, c \in Content : Update(t, h[1], h[2], c)
    \/ \E h \in Held : Delete(t, h[1], h[2])
    \/ ReadPageState(t)
    \/ \E n \in 0..revisions[t] : \E targets \in TargetChoices(read[t][n + 1]) :
         \E creates \in CreateChoices : ApplyPageBatch(t, n, targets, creates)
    \/ \E r \in receipts : RollbackPageBatch(t, r)

Spec == Init /\ [][Next]_vars

--------------------------------------------------------------------------------
(* Properties. *)

(* Type invariant of the store's state. *)
TypeOK ==
  /\ pages \in PageSets(Page)
  /\ nextID \in 0..MaxID
  /\ revisions \in [Tenants -> 0..MaxRevision]
  /\ scoped \subseteq Tenants
  /\ history \in [Tenants -> Seq(Entry)]
  /\ read \in [Tenants -> Seq(PageSets(State))]
  /\ receipts \subseteq Receipt

(* GetByPath scans a map in random order, so a tenant must never have two  *)
(* pages at one path, whichever mixture of saves, batches and rollbacks    *)
(* produced them.                                                          *)
UniquePaths ==
  \A t \in Tenants, p \in Paths : \A i, j \in GetByPath(t, p) : i = j

(* Optimistic locking is sound: a version number never comes back for      *)
(* another content.  If a page has the same version in two states of a     *)
(* tenant then nothing happened to it in between, not even a delete and a  *)
(* restore; otherwise the later version is greater.                        *)
VersionsNeverRepeat ==
  \A t \in Tenants : \A m, n \in DOMAIN read[t] :
    m < n => \A i \in IDsOf(read[t][m]) \intersect IDsOf(read[t][n]) :
      \/ read[t][m][i].version < read[t][n][i].version
      \/ \A k \in m..n : read[t][k][i] = read[t][m][i]

(* An id belongs to one tenant for ever: no operation on behalf of another *)
(* tenant, and no receipt replayed there, touches or revives its page.     *)
OneTenantPerID ==
  \A t, u \in Tenants : t # u =>
    \A m \in DOMAIN read[t], n \in DOMAIN read[u] :
      IDsOf(read[t][m]) \intersect IDsOf(read[u][n]) = {}

(* The saved history is a lossless log: event n takes the state at         *)
(* revision n - 1 to the state at revision n, and names no other page.     *)
HistoryIsLossless ==
  \A t \in Tenants :
    /\ Len(history[t]) = revisions[t]
    /\ \A n \in DOMAIN history[t] :
         LET e == history[t][n]
         IN /\ e.revision = n
            /\ e.before = Changed(read[t][n], read[t][n + 1])
            /\ e.after = Changed(read[t][n + 1], read[t][n])

ContentsOf(states) ==
  [i \in ID |-> IF states[i] = Absent THEN Absent ELSE states[i].content]

(* A rollback undoes exactly the last write: the contents at revision n    *)
(* are those at revision n - 2, page by page, with the same ids.  A        *)
(* receipt can therefore never be replayed over later work.                *)
RollbackRestores ==
  \A t \in Tenants : \A n \in DOMAIN history[t] :
    history[t][n].operation = "batch.rollback" =>
      /\ n >= 2
      /\ ContentsOf(read[t][n + 1]) = ContentsOf(read[t][n - 1])

(* RollbackPageBatch refuses any change to the recorded post-state, and    *)
(* only that: while the tenant is still in the post-state of a batch that  *)
(* changed some content and left only pages a batch may write, the         *)
(* rollback is accepted.  It never meets a path conflict half way.         *)
RollbackAvailable ==
  \A r \in receipts :
    /\ revisions[r.scope] = r.afterRevision
    /\ ContentsOf(r.before) # ContentsOf(r.after)
    /\ Reversible(r)
    => CheckPageBatch(r.scope, RollbackBatch(r), TRUE)

Ledger == INSTANCE PageLedger WITH ledger <- read

(* The store implements the ledger: a step either leaves every tenant's    *)
(* state alone or is one legal write of one tenant (each operation of      *)
(* store/page.go and store/batch_memory.go).                               *)
LedgerSpec == Ledger!Spec

================================================================================
