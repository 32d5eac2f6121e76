---------------------------- MODULE PageStoreProofs ----------------------------
(* What holds of PageStore for every set of tenants, paths and bodies and   *)
(* every bound, proved; and of Promotion, which publishes within it, for    *)
(* any bundles, links and mappings.                                         *)
EXTENDS Promotion, FiniteSetTheorems, TLAPS

(* The helpers that build page sets return page sets. *)
LEMMA StatesOfType ==
  ASSUME NEW ps \in PageSets(Page), NEW t
  PROVE  StatesOf(ps, t) \in PageSets(State)
BY DEF PageSets, StatesOf, PageState, Page, State

LEMMA ChangedType ==
  ASSUME NEW old \in PageSets(State), NEW new \in PageSets(State)
  PROVE  Changed(old, new) \in PageSets(State)
BY DEF PageSets, Changed

LEMMA OnlyType ==
  ASSUME NEW i \in ID, NEW v \in Nat \ {0}, NEW c \in Content
  PROVE  Only(i, PageState(v, c)) \in PageSets(State)
BY DEF PageSets, Only, PageState, State, NoPages

LEMMA NoPagesType == ASSUME NEW S PROVE NoPages \in PageSets(S)
BY DEF NoPages, PageSets

(* A committed write of well-typed pages leaves well-typed state. *)
LEMMA CommitType ==
  ASSUME TypeOK, NEW t \in Tenants, NEW newPages \in PageSets(Page),
         NEW operation \in Events,
         NEW before \in PageSets(State), NEW after \in PageSets(State),
         Commit(t, newPages, operation, before, after)
  PROVE  /\ pages' \in PageSets(Page)
         /\ revisions' \in [Tenants -> 0..MaxRevision]
         /\ scoped' \subseteq Tenants
         /\ history' \in [Tenants -> Seq(Entry)]
         /\ read' \in [Tenants -> Seq(PageSets(State))]
<1> DEFINE e == [revision |-> revisions[t] + 1, operation |-> operation,
                 before |-> before, after |-> after]
<1>1. revisions[t] \in 0..MaxRevision /\ revisions[t] < MaxRevision
  BY DEF TypeOK, Commit
<1>2. revisions[t] + 1 \in 0..MaxRevision
  BY <1>1, BoundsAssumption
<1>3. e \in Entry
  BY <1>1 DEF Entry
<1>4. history' = [history EXCEPT ![t] = Append(history[t], e)]
  BY DEF Commit
<1>5. history' \in [Tenants -> Seq(Entry)]
  <2> HIDE DEF e
  <2>1. history \in [Tenants -> Seq(Entry)]
    BY DEF TypeOK
  <2>2. Append(history[t], e) \in Seq(Entry)
    BY <1>3, <2>1
  <2> QED BY <1>4, <2>1, <2>2
<1>6. read' \in [Tenants -> Seq(PageSets(State))]
  <2>1. read \in [Tenants -> Seq(PageSets(State))]
    BY DEF TypeOK
  <2>2. StatesOf(newPages, t) \in PageSets(State)
    BY StatesOfType
  <2>3. Append(read[t], StatesOf(newPages, t)) \in Seq(PageSets(State))
    BY <2>1, <2>2
  <2> QED BY <2>1, <2>3 DEF Commit
<1> QED BY <1>1, <1>2, <1>5, <1>6 DEF Commit, TypeOK

--------------------------------------------------------------------------------
(* Batches.  Whatever a caller reads and mutates, and whatever receipt it   *)
(* presents, the batch is built of well-typed mutations.                    *)

MutationType(m) ==
  /\ m.kind \in {"none", "delete", "update", "restore"}
  /\ m.kind \in {"update", "restore"} => m.version \in Nat \ {0} /\ m.content \in Content

BatchType(b) ==
  /\ \A i \in ID : MutationType(b.targets[i])
  /\ b.creates \in Seq(Content)

LEMMA ChosenBatchType ==
  ASSUME TypeOK, NEW t \in Tenants, NEW n \in 0..revisions[t], n + 1 \in DOMAIN read[t],
         NEW targets \in TargetChoices(read[t][n + 1]), NEW creates \in CreateChoices
  PROVE  BatchType(BatchFor(t, n, targets, creates))
<1> DEFINE states == read[t][n + 1]
<1>1. states \in PageSets(State)
  BY DEF TypeOK
<1>a. PICK D \in SUBSET IDsOf(states) :
        \E f \in [D -> Content \union {Absent}] :
        targets = [i \in ID |-> IF i \in D THEN MutationTo(states[i], f[i]) ELSE Untouched]
  BY DEF TargetChoices
<1>2. PICK f \in [D -> Content \union {Absent}] :
        targets = [i \in ID |-> IF i \in D THEN MutationTo(states[i], f[i]) ELSE Untouched]
  BY <1>a
<1>3. ASSUME NEW i \in ID PROVE MutationType(targets[i])
  <2> HIDE DEF states
  <2>1. CASE i \in D
    <3>1. states[i] \in State
      BY <1>1, <2>1 DEF IDsOf, PageSets
    <3>2. targets[i] = MutationTo(states[i], f[i])
      BY <1>2, <2>1
    <3> QED BY <2>1, <3>1, <3>2 DEF MutationTo, Mutation, MutationType, State
  <2>2. CASE i \notin D
    BY <1>2, <2>2 DEF Untouched, Mutation, MutationType
  <2> QED BY <2>1, <2>2
<1>4. creates \in Seq(Content)
  BY DEF CreateChoices
<1> QED BY <1>3, <1>4 DEF BatchType, BatchFor

LEMMA RollbackBatchType ==
  ASSUME NEW r \in Receipt
  PROVE  BatchType(RollbackBatch(r))
<1>1. ASSUME NEW i \in ID
      PROVE  MutationType(RollbackMutation(r.before[i], r.after[i]))
  <2>1. r.before[i] \in State \union {Absent} /\ r.after[i] \in State \union {Absent}
    BY DEF Receipt, PageSets
  <2> QED BY <2>1 DEF RollbackMutation, MutationType, Mutation, Untouched, RestoredVersion, State
<1> QED BY <1>1 DEF BatchType, RollbackBatch

LEMMA PagesAfterType ==
  ASSUME TypeOK, NEW t \in Tenants, NEW b, BatchType(b)
  PROVE  PagesAfter(t, b) \in PageSets(Page)
<1> SUFFICES ASSUME NEW i \in ID
             PROVE  PagesAfter(t, b)[i] \in Page \union {Absent}
  BY DEF PagesAfter, PageSets
<1>1. CASE i - nextID \in DOMAIN b.creates
  <2>1. b.creates[i - nextID] \in Content
    BY <1>1 DEF BatchType
  <2> QED BY <1>1, <2>1 DEF PagesAfter, Page, FirstVersion
<1>2. CASE i - nextID \notin DOMAIN b.creates
  <2>1. PagesAfter(t, b)[i] = Saved(t, pages[i], b.targets[i])
    BY <1>2 DEF PagesAfter
  <2>2. MutationType(b.targets[i]) /\ pages[i] \in Page \union {Absent}
    BY DEF BatchType, TypeOK, PageSets
  <2> QED BY <2>1, <2>2 DEF Saved, MutationType, NextVersion, Page
<1> QED BY <1>1, <1>2

LEMMA ApplyBatchType ==
  ASSUME TypeOK, NEW t \in Tenants, NEW b, BatchType(b), NEW operation \in Events,
         ApplyBatch(t, b, operation)
  PROVE  TypeOK'
<1> DEFINE old == StatesOf(pages, t)
           new == StatesOf(PagesAfter(t, b), t)
<1>1. pages \in PageSets(Page) /\ PagesAfter(t, b) \in PageSets(Page)
  BY PagesAfterType DEF TypeOK
<1>2. old \in PageSets(State) /\ new \in PageSets(State)
  BY <1>1, StatesOfType
<1>3. Changed(old, new) \in PageSets(State) /\ Changed(new, old) \in PageSets(State)
  BY <1>2, ChangedType
<1>4. Commit(t, PagesAfter(t, b), operation, Changed(old, new), Changed(new, old))
  BY DEF ApplyBatch
<1>5. nextID' \in 0..MaxID
  BY BoundsAssumption DEF ApplyBatch, TypeOK, BatchType, ID
<1>6. receipts' \subseteq Receipt
  <2>1. revisions[t] \in Nat
    BY DEF TypeOK
  <2> QED BY <1>2, <2>1 DEF ApplyBatch, TypeOK, Receipt
<1> HIDE DEF old, new
<1> QED BY <1>1, <1>3, <1>4, <1>5, <1>6, CommitType DEF TypeOK

--------------------------------------------------------------------------------
(* Type correctness.  A batch is computed from a state that was read, so    *)
(* the invariant must also say that every revision has one.                 *)

ReadOfEveryRevision == \A t \in Tenants : Len(read[t]) = revisions[t] + 1

LEMMA CommitAddsRead ==
  ASSUME TypeOK, ReadOfEveryRevision, NEW t \in Tenants,
         NEW newPages, NEW operation, NEW before, NEW after,
         Commit(t, newPages, operation, before, after)
  PROVE  ReadOfEveryRevision'
<1> DEFINE s == StatesOf(newPages, t)
<1>1. read' = [read EXCEPT ![t] = Append(read[t], s)] /\ revisions' = [revisions EXCEPT ![t] = revisions[t] + 1]
  BY DEF Commit
<1> HIDE DEF s
<1>2. ASSUME NEW u \in Tenants PROVE Len(read'[u]) = revisions'[u] + 1
  <2>1. CASE u = t
    <3>1. read'[u] = Append(read[t], s) /\ revisions'[u] = revisions[t] + 1
      BY <1>1, <2>1 DEF TypeOK
    <3>2. read[t] \in Seq(PageSets(State)) /\ Len(read[t]) = revisions[t] + 1
      BY DEF TypeOK, ReadOfEveryRevision
    <3> QED BY <3>1, <3>2
  <2>2. CASE u # t
    BY <1>1, <2>2 DEF TypeOK, ReadOfEveryRevision
  <2> QED BY <2>1, <2>2
<1> QED BY <1>2 DEF ReadOfEveryRevision

(* Every operation keeps the types. *)
LEMMA NextKeepsType ==
  ASSUME TypeOK, ReadOfEveryRevision, [Next]_vars
  PROVE  TypeOK' /\ ReadOfEveryRevision'
<1>1. ASSUME NEW t \in Tenants, NEW c \in Content, Create(t, c)
      PROVE  TypeOK' /\ ReadOfEveryRevision'
  <2> DEFINE id == nextID + 1
             newPages == [pages EXCEPT ![id] = [tenant |-> t, version |-> FirstVersion, content |-> c]]
             after == Only(id, PageState(FirstVersion, c))
  <2>1. Commit(t, newPages, "create", NoPages, after)
    BY <1>1 DEF Create
  <2>2. id \in ID /\ nextID' = id /\ receipts' = receipts
    BY <1>1 DEF Create
  <2>3. newPages \in PageSets(Page)
    BY <2>2 DEF TypeOK, PageSets, Page, FirstVersion
  <2>4. after \in PageSets(State)
    BY <2>2, OnlyType DEF FirstVersion
  <2>5. "create" \in Events /\ NoPages \in PageSets(State) /\ nextID' \in 0..MaxID
    BY <2>2, NoPagesType, BoundsAssumption DEF Events, ID
  <2> HIDE DEF newPages, after
  <2> QED BY <2>1, <2>2, <2>3, <2>4, <2>5, CommitType, CommitAddsRead DEF TypeOK
<1>2. ASSUME NEW t \in Tenants, NEW h \in Held, NEW c \in Content, Update(t, h[1], h[2], c)
      PROVE  TypeOK' /\ ReadOfEveryRevision'
  <2> DEFINE i == h[1]  v == h[2]
             newPages == [pages EXCEPT ![i] = [tenant |-> t, version |-> NextVersion(v), content |-> c]]
             before == Only(i, PageState(v, pages[i].content))
             after == Only(i, PageState(NextVersion(v), c))
  <2>1. Commit(t, newPages, "update", before, after)
    BY <1>2 DEF Update
  <2>2. i \in ID /\ v \in Nat \ {0} /\ NextVersion(v) \in Nat \ {0}
    BY DEF Held, NextVersion
  <2>3. nextID' = nextID /\ receipts' = receipts /\ pages[i] # Absent
    BY <1>2 DEF Update, Current, BelongsTo
  <2>4. pages[i] \in Page
    BY <2>2, <2>3 DEF TypeOK, PageSets
  <2>5. newPages \in PageSets(Page)
    BY <2>2 DEF TypeOK, PageSets, Page
  <2>6. before \in PageSets(State) /\ after \in PageSets(State)
    BY <2>2, <2>4, OnlyType DEF Page
  <2>7. "update" \in Events
    BY DEF Events
  <2> HIDE DEF newPages, before, after
  <2> QED BY <2>1, <2>3, <2>5, <2>6, <2>7, CommitType, CommitAddsRead DEF TypeOK
<1>3. ASSUME NEW t \in Tenants, NEW h \in Held, Delete(t, h[1], h[2])
      PROVE  TypeOK' /\ ReadOfEveryRevision'
  <2> DEFINE i == h[1]  v == h[2]
             newPages == [pages EXCEPT ![i] = Absent]
             before == Only(i, PageState(v, pages[i].content))
  <2>1. Commit(t, newPages, "delete", before, NoPages)
    BY <1>3 DEF Delete
  <2>2. i \in ID /\ v \in Nat \ {0}
    BY DEF Held
  <2>3. nextID' = nextID /\ receipts' = receipts /\ pages[i] # Absent
    BY <1>3 DEF Delete, Current, BelongsTo
  <2>4. pages[i] \in Page /\ newPages \in PageSets(Page)
    BY <2>2, <2>3 DEF TypeOK, PageSets
  <2>5. before \in PageSets(State) /\ NoPages \in PageSets(State)
    BY <2>2, <2>4, OnlyType, NoPagesType DEF Page
  <2>6. "delete" \in Events
    BY DEF Events
  <2> HIDE DEF newPages, before
  <2> QED BY <2>1, <2>3, <2>4, <2>5, <2>6, CommitType, CommitAddsRead DEF TypeOK
<1>4. ASSUME NEW t \in Tenants, ReadPageState(t)
      PROVE  TypeOK' /\ ReadOfEveryRevision'
  BY <1>4 DEF ReadPageState, TypeOK, ReadOfEveryRevision
<1>5. ASSUME NEW t \in Tenants, NEW b, BatchType(b), NEW operation \in Events,
             ApplyBatch(t, b, operation)
      PROVE  TypeOK' /\ ReadOfEveryRevision'
  BY <1>5, ApplyBatchType, CommitAddsRead DEF ApplyBatch
<1>6. ASSUME NEW t \in Tenants, NEW n \in 0..revisions[t],
             NEW targets \in TargetChoices(read[t][n + 1]), NEW creates \in CreateChoices,
             ApplyPageBatch(t, n, targets, creates)
      PROVE  TypeOK' /\ ReadOfEveryRevision'
  <2>1. n + 1 \in DOMAIN read[t]
    BY DEF TypeOK, ReadOfEveryRevision
  <2>2. BatchType(BatchFor(t, n, targets, creates))
    BY <2>1, ChosenBatchType
  <2> QED BY <1>5, <1>6, <2>2 DEF ApplyPageBatch, Events
<1>7. ASSUME NEW t \in Tenants, NEW r \in receipts, RollbackPageBatch(t, r)
      PROVE  TypeOK' /\ ReadOfEveryRevision'
  <2>1. BatchType(RollbackBatch(r))
    BY RollbackBatchType DEF TypeOK
  <2> QED BY <1>5, <1>7, <2>1 DEF RollbackPageBatch, Events
<1>8. CASE UNCHANGED vars
  BY <1>8 DEF vars, TypeOK, ReadOfEveryRevision
<1> QED BY <1>1, <1>2, <1>3, <1>4, <1>6, <1>7, <1>8 DEF Next

LEMMA InitType == ASSUME Init PROVE TypeOK /\ ReadOfEveryRevision
<1>1. <<NoPages>> \in Seq(PageSets(State)) /\ Len(<<NoPages>>) = 1
  BY NoPagesType
<1> QED BY <1>1, NoPagesType, BoundsAssumption DEF Init, TypeOK, ReadOfEveryRevision

(* Every state has the type TypeOK gives it, for all tenants, contents and  *)
(* bounds; a page version in particular is never 0 (store/page.go:154-156). *)
THEOREM TypeCorrect == Spec => []TypeOK
<1> DEFINE IInv == TypeOK /\ ReadOfEveryRevision
<1>1. Init => IInv
  BY InitType
<1>2. IInv /\ [Next]_vars => IInv'
  BY NextKeepsType
<1> QED BY <1>1, <1>2, PTL DEF Spec

--------------------------------------------------------------------------------
(***************************************************************************)
(* The store implements the ledger of PageLedger and keeps the invariants  *)
(* of PageStore, for every set of tenants, paths and bodies and every      *)
(* bound.  The argument: whatever an operation commits is a legal write of *)
(* the ledger (Legal), and legal writes preserve the invariants.           *)
(***************************************************************************)

(* read[t] has the state of every revision, the last being the current one. *)
ReadIsCurrent ==
  \A t \in Tenants :
    /\ Len(read[t]) = revisions[t] + 1
    /\ read[t][revisions[t] + 1] = StatesOf(pages, t)

(* No id above the counter was ever used: a new page's id is new. *)
IDsBounded ==
  \A t \in Tenants : \A n \in DOMAIN read[t] : \A i \in IDsOf(read[t][n]) : i <= nextID

(* A receipt records two consecutive states of its tenant. *)
ReceiptsAreRead ==
  \A r \in receipts :
    /\ r.afterRevision = r.beforeRevision + 1
    /\ r.afterRevision <= revisions[r.scope]
    /\ r.before = read[r.scope][r.beforeRevision + 1]
    /\ r.after = read[r.scope][r.afterRevision + 1]

(* v is above every version page i of t ever had, and no other tenant had i. *)
Fresh(t, i, v) ==
  /\ \A n \in DOMAIN read[t] : read[t][n][i] # Absent => read[t][n][i].version < v
  /\ \A u \in Tenants \ {t} : \A n \in DOMAIN read[u] : read[u][n][i] = Absent

PathsDiffer(s) ==
  \A i, j \in ID :
    s[i] # Absent /\ s[j] # Absent /\ s[i].content.path = s[j].content.path => i = j

(* The pages newPages are a legal write of t. *)
Legal(t, newPages) ==
  LET last == StatesOf(pages, t)
      s == StatesOf(newPages, t)
  IN /\ \A u \in Tenants \ {t} : StatesOf(newPages, u) = StatesOf(pages, u)
     /\ s # last
     /\ PathsDiffer(s)
     /\ \A i \in ID : s[i] \notin {Absent, last[i]} => Fresh(t, i, s[i].version)

LedgerInv ==
  /\ ReadIsCurrent
  /\ IDsBounded
  /\ ReceiptsAreRead
  /\ UniquePaths
  /\ VersionsNeverRepeat
  /\ OneTenantPerID

--------------------------------------------------------------------------------
(* What a commit leaves in read. *)

(* A commit appends the new state of its tenant and keeps all else of read. *)
LEMMA CommitReads ==
  ASSUME TypeOK, ReadIsCurrent, NEW t \in Tenants, NEW newPages \in PageSets(Page),
         NEW operation, NEW before, NEW after,
         Commit(t, newPages, operation, before, after)
  PROVE  /\ revisions[t] \in Nat
         /\ revisions'[t] = revisions[t] + 1
         /\ read'[t] = Append(read[t], StatesOf(newPages, t))
         /\ DOMAIN read[t] = 1..(revisions[t] + 1)
         /\ DOMAIN read'[t] = 1..(revisions[t] + 2)
         /\ \A n \in DOMAIN read[t] : read'[t][n] = read[t][n]
         /\ read'[t][revisions[t] + 2] = StatesOf(newPages, t)
         /\ \A u \in Tenants \ {t} : read'[u] = read[u] /\ revisions'[u] = revisions[u]
<1> DEFINE s == StatesOf(newPages, t)
<1>1. read' = [read EXCEPT ![t] = Append(read[t], s)] /\ revisions' = [revisions EXCEPT ![t] = revisions[t] + 1]
  BY DEF Commit
<1>2. read[t] \in Seq(PageSets(State)) /\ Len(read[t]) = revisions[t] + 1 /\ revisions[t] \in Nat
  BY DEF TypeOK, ReadIsCurrent
<1> HIDE DEF s
<1>3. read'[t] = Append(read[t], s) /\ revisions'[t] = revisions[t] + 1
  BY <1>1 DEF TypeOK
<1>4. \A u \in Tenants \ {t} : read'[u] = read[u] /\ revisions'[u] = revisions[u]
  BY <1>1 DEF TypeOK
<1> QED BY <1>2, <1>3, <1>4 DEF s

(* A state of any tenant that was read is a page set. *)
LEMMA ReadType ==
  ASSUME TypeOK, NEW t \in Tenants, NEW n \in DOMAIN read[t]
  PROVE  /\ read[t][n] \in PageSets(State)
         /\ \A i \in ID : read[t][n][i] # Absent =>
              read[t][n][i] \in State /\ read[t][n][i].version \in Nat \ {0}
<1>1. read[t] \in Seq(PageSets(State))
  BY DEF TypeOK
<1>2. read[t][n] \in PageSets(State)
  BY <1>1
<1> QED BY <1>2 DEF PageSets, State

LEMMA CurrentInRead ==
  ASSUME TypeOK, ReadIsCurrent, NEW t \in Tenants
  PROVE  /\ revisions[t] + 1 \in DOMAIN read[t]
         /\ DOMAIN read[t] = 1..(revisions[t] + 1)
         /\ revisions[t] \in Nat
         /\ read[t][revisions[t] + 1] = StatesOf(pages, t)
BY DEF TypeOK, ReadIsCurrent

--------------------------------------------------------------------------------
(* A legal write preserves each invariant. *)

LEMMA LegalKeepsReadIsCurrent ==
  ASSUME TypeOK, ReadIsCurrent, NEW t \in Tenants, NEW newPages \in PageSets(Page),
         NEW operation, NEW before, NEW after, Legal(t, newPages),
         Commit(t, newPages, operation, before, after)
  PROVE  ReadIsCurrent'
<1> SUFFICES ASSUME NEW u \in Tenants
             PROVE  /\ Len(read'[u]) = revisions'[u] + 1
                    /\ read'[u][revisions'[u] + 1] = StatesOf(pages', u)
  BY DEF ReadIsCurrent, StatesOf
<1>1. pages' = newPages
  BY DEF Commit
<1>2. CASE u = t
  <2>1. read[t] \in Seq(PageSets(State)) /\ Len(read[t]) = revisions[t] + 1
    BY DEF TypeOK, ReadIsCurrent
  <2> QED BY <1>1, <1>2, <2>1, CommitReads
<1>3. CASE u # t
  <2>1. StatesOf(pages', u) = StatesOf(pages, u)
    BY <1>1, <1>3 DEF Legal
  <2> QED BY <1>3, <2>1, CommitReads DEF ReadIsCurrent
<1> QED BY <1>2, <1>3

LEMMA LegalKeepsUniquePaths ==
  ASSUME TypeOK, UniquePaths, NEW t \in Tenants, NEW newPages \in PageSets(Page),
         NEW operation, NEW before, NEW after, Legal(t, newPages),
         Commit(t, newPages, operation, before, after)
  PROVE  UniquePaths'
<1> SUFFICES ASSUME NEW u \in Tenants, NEW p \in Paths, NEW i \in ID, NEW j \in ID,
                    newPages[i] # Absent, newPages[i].tenant = u, newPages[i].content.path = p,
                    newPages[j] # Absent, newPages[j].tenant = u, newPages[j].content.path = p
             PROVE  i = j
  <2>1. pages' = newPages
    BY DEF Commit
  <2> QED BY <2>1 DEF UniquePaths, GetByPath, BelongsTo
<1> DEFINE s == StatesOf(newPages, u)
<1>1. s[i] # Absent /\ s[i].content.path = p /\ s[j] # Absent /\ s[j].content.path = p
  BY AbsentAssumption DEF StatesOf, PageState, PageSets, Page, State
<1>2. CASE u = t
  BY <1>1, <1>2 DEF Legal, PathsDiffer
<1>3. CASE u # t
  <2>1. s = StatesOf(pages, u)
    BY <1>3 DEF Legal
  <2>2. \A k \in ID : s[k] # Absent =>
          pages[k] # Absent /\ pages[k].tenant = u /\ s[k].content = pages[k].content
    BY <2>1 DEF StatesOf, PageState
  <2>3. i \in GetByPath(u, p) /\ j \in GetByPath(u, p)
    BY <1>1, <2>2 DEF GetByPath, BelongsTo
  <2> QED BY <2>3 DEF UniquePaths
<1> QED BY <1>2, <1>3

LEMMA LegalKeepsVersions ==
  ASSUME TypeOK, ReadIsCurrent, VersionsNeverRepeat,
         NEW t \in Tenants, NEW newPages \in PageSets(Page),
         NEW operation, NEW before, NEW after, Legal(t, newPages),
         Commit(t, newPages, operation, before, after)
  PROVE  VersionsNeverRepeat'
<1> DEFINE R == revisions[t]
           s == StatesOf(newPages, t)
           last == StatesOf(pages, t)
<1> SUFFICES ASSUME NEW u \in Tenants, NEW m \in DOMAIN read'[u], NEW n \in DOMAIN read'[u], m < n,
                    NEW i \in ID, read'[u][m][i] # Absent, read'[u][n][i] # Absent
             PROVE  \/ read'[u][m][i].version < read'[u][n][i].version
                    \/ \A k \in m..n : read'[u][k][i] = read'[u][m][i]
  BY DEF VersionsNeverRepeat, IDsOf
<1>1. CASE u # t
  <2>1. read'[u] = read[u]
    BY <1>1, CommitReads
  <2> QED BY <2>1 DEF VersionsNeverRepeat, IDsOf
<1>2. CASE u = t /\ n \in DOMAIN read[t]
  <2>1. m \in DOMAIN read[t] /\ \A k \in m..n : k \in DOMAIN read[t] /\ read'[t][k] = read[t][k]
    BY <1>2, CommitReads
  <2>2. m \in m..n /\ n \in m..n
    BY <1>2, CommitReads
  <2> QED BY <1>2, <2>1, <2>2 DEF VersionsNeverRepeat, IDsOf
<1>3. CASE u = t /\ n \notin DOMAIN read[t]
  <2>1. n = R + 2 /\ R \in Nat /\ m \in 1..(R + 1) /\ m \in DOMAIN read[t]
    BY <1>3, CommitReads
  <2>2. /\ read'[t][n] = s
        /\ \A k \in 1..(R + 1) : read'[t][k] = read[t][k]
        /\ read[t][R + 1] = last
        /\ R + 1 \in DOMAIN read[t]
    BY <1>3, <2>1, CommitReads, CurrentInRead
  <2>3. CASE s[i] # last[i]
    BY <1>3, <2>1, <2>2, <2>3 DEF Legal, Fresh
  <2>4. CASE s[i] = last[i] /\ m = R + 1
    BY <1>3, <2>1, <2>2, <2>4
  <2>5. CASE s[i] = last[i] /\ m < R + 1
    <3> HIDE DEF s, last
    <3>1. \/ read[t][m][i].version < last[i].version
          \/ \A k \in m..(R + 1) : read[t][k][i] = read[t][m][i]
      BY <1>3, <2>1, <2>2, <2>5 DEF VersionsNeverRepeat, IDsOf
    <3>2. \A k \in m..n : (k \in m..(R + 1) /\ read'[t][k] = read[t][k]) \/ k = n
      BY <2>1, <2>2
    <3>3. R + 1 \in m..(R + 1) /\ read'[t][m] = read[t][m]
      BY <2>1, <2>2
    <3>4. CASE read[t][m][i].version < last[i].version
      BY <1>3, <2>2, <2>5, <3>3, <3>4
    <3>5. CASE \A k \in m..(R + 1) : read[t][k][i] = read[t][m][i]
      BY <1>3, <2>2, <2>5, <3>2, <3>3, <3>5
    <3> QED BY <3>1, <3>4, <3>5
  <2> QED BY <2>1, <2>3, <2>4, <2>5
<1> QED BY <1>1, <1>2, <1>3

LEMMA LegalKeepsOneTenant ==
  ASSUME TypeOK, ReadIsCurrent, OneTenantPerID,
         NEW t \in Tenants, NEW newPages \in PageSets(Page),
         NEW operation, NEW before, NEW after, Legal(t, newPages),
         Commit(t, newPages, operation, before, after)
  PROVE  OneTenantPerID'
<1> DEFINE R == revisions[t]
           s == StatesOf(newPages, t)
           last == StatesOf(pages, t)
<1>1. ASSUME NEW w \in Tenants, NEW m \in DOMAIN read'[w], NEW i \in ID, read'[w][m][i] # Absent,
             NEW u \in Tenants, u # w, u # t, NEW n \in DOMAIN read[u]
      PROVE  read[u][n][i] = Absent
  <2>1. CASE w # t \/ m \in DOMAIN read[t]
    <3>1. m \in DOMAIN read[w] /\ read[w][m][i] # Absent
      BY <1>1, <2>1, CommitReads
    <3> QED BY <1>1, <3>1 DEF OneTenantPerID, IDsOf
  <2>2. CASE w = t /\ m \notin DOMAIN read[t]
    <3>1. s[i] # Absent
      BY <1>1, <2>2, CommitReads
    <3>2. CASE s[i] = last[i]
      <4>1. R + 1 \in DOMAIN read[t] /\ read[t][R + 1][i] # Absent
        BY <3>1, <3>2, CurrentInRead
      <4> HIDE DEF R
      <4> QED BY <1>1, <2>2, <4>1 DEF OneTenantPerID, IDsOf
    <3>3. CASE s[i] # last[i]
      BY <1>1, <2>2, <3>1, <3>3 DEF Legal, Fresh
    <3> QED BY <3>2, <3>3
  <2> QED BY <2>1, <2>2
<1>2. \A u \in Tenants : u # t => read'[u] = read[u]
  BY CommitReads
<1> SUFFICES ASSUME NEW u \in Tenants, NEW w \in Tenants, u # w,
                    NEW m \in DOMAIN read'[u], NEW n \in DOMAIN read'[w], NEW i \in ID,
                    read'[u][m][i] # Absent, read'[w][n][i] # Absent
             PROVE  FALSE
  BY DEF OneTenantPerID, IDsOf
<1>3. CASE u # t
  BY <1>1, <1>2, <1>3
<1>4. CASE w # t
  BY <1>1, <1>2, <1>4
<1> QED BY <1>3, <1>4

LEMMA LegalKeepsHistory ==
  ASSUME TypeOK, ReadIsCurrent, HistoryIsLossless,
         NEW t \in Tenants, NEW newPages \in PageSets(Page), NEW operation,
         Commit(t, newPages, operation,
                Changed(StatesOf(pages, t), StatesOf(newPages, t)),
                Changed(StatesOf(newPages, t), StatesOf(pages, t)))
  PROVE  HistoryIsLossless'
<1> DEFINE R == revisions[t]
           s == StatesOf(newPages, t)
           last == StatesOf(pages, t)
           e == [revision |-> R + 1, operation |-> operation,
                 before |-> Changed(last, s), after |-> Changed(s, last)]
<1>1. history' = [history EXCEPT ![t] = Append(history[t], e)]
  BY DEF Commit
<1>2. history[t] \in Seq(Entry) /\ Len(history[t]) = R /\ R \in Nat
  BY DEF TypeOK, HistoryIsLossless
<1>3. history'[t] = Append(history[t], e)
  BY <1>1 DEF TypeOK
<1>4. \A u \in Tenants \ {t} : history'[u] = history[u]
  BY <1>1 DEF TypeOK
<1>5. e.revision = R + 1 /\ e.before = Changed(last, s) /\ e.after = Changed(s, last)
  OBVIOUS
<1> HIDE DEF e
<1>6. /\ Len(history'[t]) = R + 1
      /\ DOMAIN history'[t] = 1..(R + 1)
      /\ \A n \in 1..R : history'[t][n] = history[t][n] /\ n \in DOMAIN history[t]
      /\ history'[t][R + 1] = e
  BY <1>2, <1>3
<1>7. /\ \A n \in 1..(R + 1) : read'[t][n] = read[t][n]
      /\ read'[t][R + 2] = s /\ read[t][R + 1] = last
      /\ revisions'[t] = R + 1
  BY CommitReads, CurrentInRead
<1> HIDE DEF R, s, last
<1>8. ASSUME NEW n \in DOMAIN history'[t]
      PROVE  /\ history'[t][n].revision = n
             /\ history'[t][n].before = Changed(read'[t][n], read'[t][n + 1])
             /\ history'[t][n].after = Changed(read'[t][n + 1], read'[t][n])
  <2>1. CASE n = R + 1
    BY <1>2, <1>5, <1>6, <1>7, <2>1
  <2>2. CASE n \in 1..R
    <3>1. history'[t][n] = history[t][n] /\ read'[t][n] = read[t][n] /\ read'[t][n + 1] = read[t][n + 1]
      BY <1>2, <1>6, <1>7, <2>2
    <3> QED BY <1>6, <2>2, <3>1 DEF HistoryIsLossless
  <2> QED BY <1>2, <1>6, <2>1, <2>2
<1>9. ASSUME NEW u \in Tenants, u # t
      PROVE  history'[u] = history[u] /\ read'[u] = read[u] /\ revisions'[u] = revisions[u]
  BY <1>4, <1>9, CommitReads
<1> SUFFICES ASSUME NEW u \in Tenants
             PROVE  /\ Len(history'[u]) = revisions'[u]
                    /\ \A n \in DOMAIN history'[u] :
                         /\ history'[u][n].revision = n
                         /\ history'[u][n].before = Changed(read'[u][n], read'[u][n + 1])
                         /\ history'[u][n].after = Changed(read'[u][n + 1], read'[u][n])
  BY DEF HistoryIsLossless, Changed
<1>10. CASE u = t
  BY <1>6, <1>7, <1>8, <1>10
<1>11. CASE u # t
  <2>1. history'[u] = history[u] /\ read'[u] = read[u] /\ revisions'[u] = revisions[u]
    BY <1>9, <1>11
  <2> QED BY <2>1 DEF HistoryIsLossless
<1> QED BY <1>10, <1>11

LEMMA CommitKeepsReceipts ==
  ASSUME TypeOK, ReadIsCurrent, ReceiptsAreRead,
         NEW t \in Tenants, NEW newPages \in PageSets(Page),
         NEW operation, NEW before, NEW after,
         Commit(t, newPages, operation, before, after),
         receipts' = receipts
  PROVE  ReceiptsAreRead'
<1> SUFFICES ASSUME NEW r \in receipts
             PROVE  /\ r.afterRevision <= revisions'[r.scope]
                    /\ r.before = read'[r.scope][r.beforeRevision + 1]
                    /\ r.after = read'[r.scope][r.afterRevision + 1]
  BY DEF ReceiptsAreRead
<1> DEFINE u == r.scope
<1>1. u \in Tenants /\ r.beforeRevision \in Nat /\ r.afterRevision \in Nat
  BY DEF TypeOK, Receipt
<1>2. /\ r.afterRevision = r.beforeRevision + 1 /\ r.afterRevision <= revisions[u]
      /\ r.before = read[u][r.beforeRevision + 1]
      /\ r.after = read[u][r.afterRevision + 1]
  BY DEF ReceiptsAreRead
<1>3. CASE u # t
  BY <1>1, <1>2, <1>3, CommitReads
<1>4. CASE u = t
  <2>1. r.beforeRevision + 1 \in DOMAIN read[t] /\ r.afterRevision + 1 \in DOMAIN read[t]
    BY <1>1, <1>2, <1>4, CommitReads
  <2>2. /\ read'[t][r.beforeRevision + 1] = read[t][r.beforeRevision + 1]
        /\ read'[t][r.afterRevision + 1] = read[t][r.afterRevision + 1]
    BY <2>1, CommitReads
  <2>3. revisions[t] \in Nat /\ revisions'[t] = revisions[t] + 1
    BY CommitReads
  <2>4. r.afterRevision <= revisions'[t]
    BY <1>1, <1>2, <1>4, <2>3
  <2> QED BY <1>2, <1>4, <2>2, <2>4
<1> QED BY <1>3, <1>4

--------------------------------------------------------------------------------
(* What makes a write legal, page by page. *)

(* The version a page has now is its greatest, and the id is its tenant's. *)
LEMMA CurrentIsNewest ==
  ASSUME TypeOK, ReadIsCurrent, VersionsNeverRepeat, OneTenantPerID,
         NEW t \in Tenants, NEW i \in ID, BelongsTo(t, i),
         NEW v \in Nat, pages[i].version < v
  PROVE  Fresh(t, i, v)
<1> DEFINE R == revisions[t]
<1>1. /\ R + 1 \in DOMAIN read[t] /\ DOMAIN read[t] = 1..(R + 1) /\ R \in Nat
      /\ read[t][R + 1][i] # Absent /\ read[t][R + 1][i].version = pages[i].version
  <2>1. StatesOf(pages, t)[i] = PageState(pages[i].version, pages[i].content)
    BY DEF StatesOf, BelongsTo
  <2>2. pages[i] \in Page
    BY DEF TypeOK, PageSets, BelongsTo
  <2>3. StatesOf(pages, t)[i] \in State
    BY <2>1, <2>2 DEF PageState, Page, State
  <2> QED BY <2>1, <2>3, CurrentInRead, AbsentAssumption DEF PageState
<1> HIDE DEF R
<1>2. ASSUME NEW n \in DOMAIN read[t], read[t][n][i] # Absent
      PROVE  read[t][n][i].version < v
  <2>1. read[t][n][i].version \in Nat /\ pages[i].version \in Nat
    BY <1>1, <1>2, ReadType
  <2>2. CASE n < R + 1
    <3>1. \/ read[t][n][i].version < read[t][R + 1][i].version
          \/ \A k \in n..(R + 1) : read[t][k][i] = read[t][n][i]
      BY <1>1, <1>2, <2>2 DEF VersionsNeverRepeat, IDsOf
    <3>2. R + 1 \in n..(R + 1)
      BY <1>1, <2>2
    <3> QED BY <1>1, <2>1, <3>1, <3>2
  <2>3. CASE n = R + 1
    BY <1>1, <2>3
  <2> QED BY <1>1, <2>2, <2>3
<1>3. ASSUME NEW u \in Tenants \ {t}, NEW n \in DOMAIN read[u]
      PROVE  read[u][n][i] = Absent
  BY <1>1 DEF OneTenantPerID, IDsOf
<1> QED BY <1>2, <1>3 DEF Fresh

(* An id above the counter is nobody's. *)
LEMMA NewIDIsFresh ==
  ASSUME TypeOK, ReadIsCurrent, IDsBounded, NEW i \in ID, i > nextID
  PROVE  /\ pages[i] = Absent
         /\ \A t \in Tenants : \A n \in DOMAIN read[t] : read[t][n][i] = Absent
         /\ \A t \in Tenants, v \in Nat : Fresh(t, i, v)
<1>1. nextID \in Int /\ i \in Int
  BY DEF TypeOK, ID
<1>2. \A t \in Tenants : \A n \in DOMAIN read[t] : read[t][n][i] = Absent
  BY <1>1 DEF IDsBounded, IDsOf
<1>3. pages[i] = Absent
  <2> SUFFICES ASSUME pages[i] # Absent PROVE FALSE
    OBVIOUS
  <2> DEFINE t == pages[i].tenant
  <2>1. pages[i] \in Page /\ t \in Tenants
    BY DEF TypeOK, PageSets, Page
  <2>2. StatesOf(pages, t)[i] \in State
    BY <2>1 DEF StatesOf, PageState, Page, State
  <2>3. read[t][revisions[t] + 1][i] \in State /\ revisions[t] + 1 \in DOMAIN read[t]
    BY <2>1, <2>2, CurrentInRead
  <2> QED BY <1>2, <2>1, <2>3, AbsentAssumption
<1> QED BY <1>2, <1>3 DEF Fresh

(* A write that touches only pages of t and gives fresh versions is legal. *)
LEMMA LegalByPage ==
  ASSUME TypeOK, NEW t \in Tenants, NEW newPages \in PageSets(Page),
         StatesOf(newPages, t) # StatesOf(pages, t),
         PathsDiffer(StatesOf(newPages, t)),
         \A i \in ID : newPages[i] # pages[i] =>
           /\ pages[i] = Absent \/ pages[i].tenant = t
           /\ \/ newPages[i] = Absent
              \/ newPages[i].tenant = t /\ Fresh(t, i, newPages[i].version)
  PROVE  Legal(t, newPages)
<1> DEFINE last == StatesOf(pages, t)
           s == StatesOf(newPages, t)
<1>1. ASSUME NEW u \in Tenants \ {t} PROVE StatesOf(newPages, u) = StatesOf(pages, u)
  <2>1. \A i \in ID : StatesOf(newPages, u)[i] = StatesOf(pages, u)[i]
    BY DEF StatesOf
  <2> QED BY <2>1 DEF StatesOf
<1>2. ASSUME NEW i \in ID, s[i] \notin {Absent, last[i]}
      PROVE  Fresh(t, i, s[i].version)
  <2>1. newPages[i] # Absent /\ newPages[i].tenant = t /\ newPages[i] # pages[i]
    BY <1>2 DEF StatesOf
  <2>2. s[i].version = newPages[i].version
    BY <2>1 DEF StatesOf, PageState
  <2> HIDE DEF s, last
  <2> QED BY <2>1, <2>2
<1> QED BY <1>1, <1>2 DEF Legal

--------------------------------------------------------------------------------
(* Each operation's write is legal and says what it changed. *)

LEMMA CreateIsLegal ==
  ASSUME TypeOK, LedgerInv, NEW t \in Tenants, NEW c \in Content, Create(t, c)
  PROVE  LET id == nextID + 1
             newPages == [pages EXCEPT ![id] = [tenant |-> t, version |-> FirstVersion, content |-> c]]
         IN /\ newPages \in PageSets(Page)
            /\ Legal(t, newPages)
            /\ Commit(t, newPages, "create",
                      Changed(StatesOf(pages, t), StatesOf(newPages, t)),
                      Changed(StatesOf(newPages, t), StatesOf(pages, t)))
<1> DEFINE id == nextID + 1
           page == [tenant |-> t, version |-> FirstVersion, content |-> c]
           newPages == [pages EXCEPT ![id] = page]
           last == StatesOf(pages, t)
           s == StatesOf(newPages, t)
<1>1. id \in ID /\ id > nextID
  BY DEF Create, ID, TypeOK
<1>2. pages[id] = Absent /\ Fresh(t, id, FirstVersion)
  BY <1>1, NewIDIsFresh DEF LedgerInv, FirstVersion
<1>3. page \in Page /\ page # Absent /\ newPages \in PageSets(Page)
  BY <1>1, AbsentAssumption DEF TypeOK, PageSets, Page, FirstVersion
<1>4. /\ \A i \in ID : i # id => newPages[i] = pages[i] /\ s[i] = last[i]
      /\ newPages[id] = page
      /\ last[id] = Absent
      /\ s[id] = PageState(FirstVersion, c) /\ s[id] \in State /\ s[id] # Absent
  BY <1>1, <1>2, <1>3, AbsentAssumption DEF StatesOf, PageState, State, FirstVersion, TypeOK, PageSets
<1>5. PathsDiffer(s)
  <2>1. ASSUME NEW i \in ID, i # id, s[i] # Absent PROVE s[i].content.path # c.path
    <3>1. BelongsTo(t, i) /\ s[i].content = pages[i].content
      BY <1>4, <2>1 DEF StatesOf, PageState, BelongsTo
    <3>2. i # 0
      BY DEF ID
    <3> QED BY <3>1, <3>2 DEF Create, Duplicate, GetByPath
  <2>2. ASSUME NEW i \in ID, i # id, NEW j \in ID, j # id,
               s[i] # Absent, s[j] # Absent, s[i].content.path = s[j].content.path
        PROVE  i = j
    <3>1. /\ BelongsTo(t, i) /\ s[i].content = pages[i].content
          /\ BelongsTo(t, j) /\ s[j].content = pages[j].content
      BY <1>4, <2>2 DEF StatesOf, PageState, BelongsTo
    <3>2. s[i].content.path \in Paths
      BY <2>2, <3>1 DEF TypeOK, PageSets, BelongsTo, Page, Content
    <3> QED BY <2>2, <3>1, <3>2 DEF LedgerInv, UniquePaths, GetByPath
  <2>3. s[id].content = c
    BY <1>4 DEF PageState
  <2> HIDE DEF s
  <2> QED BY <2>1, <2>2, <2>3 DEF PathsDiffer
<1>6. Legal(t, newPages)
  <2>1. s # last
    BY <1>1, <1>4
  <2>2. page.version = FirstVersion /\ page.tenant = t
    OBVIOUS
  <2> HIDE DEF newPages, page
  <2> QED BY <1>2, <1>3, <1>4, <1>5, <2>1, <2>2, LegalByPage
<1>7. Changed(last, s) = NoPages /\ Changed(s, last) = Only(id, PageState(FirstVersion, c))
  <2> HIDE DEF s, last
  <2> QED BY <1>1, <1>4 DEF Changed, NoPages, Only
<1>8. Commit(t, newPages, "create", NoPages, Only(id, PageState(FirstVersion, c)))
  BY DEF Create
<1> QED BY <1>3, <1>6, <1>7, <1>8

(* Update and Delete replace one page of the tenant. *)
LEMMA ReplaceIsLegal ==
  ASSUME TypeOK, LedgerInv, NEW t \in Tenants, NEW i \in ID, BelongsTo(t, i),
         NEW page,
         \/ page = Absent
         \/ /\ page \in Page
            /\ page.tenant = t
            /\ page.version > pages[i].version
            /\ ~Duplicate(t, page.content.path, i)
  PROVE  LET newPages == [pages EXCEPT ![i] = page]
             old == Only(i, PageState(pages[i].version, pages[i].content))
             new == IF page = Absent THEN NoPages ELSE Only(i, PageState(page.version, page.content))
         IN /\ newPages \in PageSets(Page)
            /\ Legal(t, newPages)
            /\ old = Changed(StatesOf(pages, t), StatesOf(newPages, t))
            /\ new = Changed(StatesOf(newPages, t), StatesOf(pages, t))
<1> DEFINE newPages == [pages EXCEPT ![i] = page]
           last == StatesOf(pages, t)
           s == StatesOf(newPages, t)
<1>1. pages[i] \in Page /\ pages[i].tenant = t /\ pages[i].version \in Nat
  BY DEF BelongsTo, TypeOK, PageSets, Page
<1>2. newPages \in PageSets(Page) /\ newPages[i] = page
      /\ \A j \in ID : j # i => newPages[j] = pages[j]
  BY DEF TypeOK, PageSets
<1>3. last[i] = PageState(pages[i].version, pages[i].content) /\ last[i] # Absent
  BY <1>1, AbsentAssumption DEF StatesOf, BelongsTo, PageState, Page, State
<1>4. \A j \in ID : j # i => s[j] = last[j]
  BY <1>2 DEF StatesOf
<1>5. /\ page = Absent => s[i] = Absent
      /\ page # Absent => s[i] = PageState(page.version, page.content) /\ s[i] # Absent
  BY <1>2, AbsentAssumption DEF StatesOf, PageState, Page, State
<1>6. last[i] # s[i]
  BY <1>1, <1>3, <1>5 DEF PageState, Page
<1>7. PathsDiffer(s)
  <2>1. ASSUME NEW j \in ID, j # i, s[j] # Absent
        PROVE  BelongsTo(t, j) /\ s[j].content = pages[j].content
    BY <1>4, <2>1 DEF StatesOf, PageState, BelongsTo
  <2>2. ASSUME NEW j \in ID, j # i, s[j] # Absent, s[i] # Absent
        PROVE  s[j].content.path # s[i].content.path
    <3>1. page # Absent /\ s[i].content = page.content
      BY <1>5, <2>2 DEF PageState
    <3> QED BY <2>1, <2>2, <3>1 DEF Duplicate, GetByPath
  <2>3. ASSUME NEW j \in ID, j # i, NEW k \in ID, k # i, s[j] # Absent, s[k] # Absent,
               s[j].content.path = s[k].content.path
        PROVE  j = k
    <3>1. BelongsTo(t, j) /\ s[j].content = pages[j].content /\ BelongsTo(t, k) /\ s[k].content = pages[k].content
      BY <2>1, <2>3
    <3>2. s[j].content.path \in Paths
      BY <3>1 DEF TypeOK, PageSets, BelongsTo, Page, Content
    <3> QED BY <2>3, <3>1, <3>2 DEF LedgerInv, UniquePaths, GetByPath
  <2> HIDE DEF s
  <2> QED BY <2>2, <2>3 DEF PathsDiffer
<1>8. page # Absent => Fresh(t, i, page.version)
  BY <1>1, CurrentIsNewest DEF LedgerInv, Page
<1>9. Legal(t, newPages)
  <2>1. s # last
    BY <1>6
  <2> HIDE DEF newPages
  <2> QED BY <1>1, <1>2, <1>7, <1>8, <2>1, LegalByPage
<1>10. /\ Changed(last, s) = Only(i, PageState(pages[i].version, pages[i].content))
       /\ Changed(s, last) = (IF page = Absent THEN NoPages ELSE Only(i, PageState(page.version, page.content)))
  <2> HIDE DEF s, last
  <2> QED BY <1>3, <1>4, <1>5, <1>6 DEF Changed, NoPages, Only
<1> QED BY <1>2, <1>9, <1>10

--------------------------------------------------------------------------------
(* Batches. *)

(* What a page of the batch's outcome is made of. *)
LEMMA OutcomePage ==
  ASSUME TypeOK, LedgerInv, NEW t \in Tenants, NEW b, BatchType(b), NEW allowRestore,
         CheckPageBatch(t, b, allowRestore), NEW i \in ID
  PROVE  LET s == StatesOf(PagesAfter(t, b), t)
             k == i - nextID
             kept == OutcomeOf(StatesOf(pages, t)[i], b.targets[i])
         IN /\ k \in DOMAIN b.creates => s[i] = PageState(FirstVersion, b.creates[k]) /\ s[i] # Absent
            /\ k \notin DOMAIN b.creates /\ s[i] # Absent => kept # Absent /\ s[i].content = kept
            /\ k \notin DOMAIN b.creates /\ b.targets[i].kind # "none" => s[i] # StatesOf(pages, t)[i]
<1> DEFINE k == i - nextID
           m == b.targets[i]
           after == PagesAfter(t, b)[i]
           s == StatesOf(PagesAfter(t, b), t)
           old == StatesOf(pages, t)[i]
<1>1. s[i] = IF after # Absent /\ after.tenant = t THEN PageState(after.version, after.content) ELSE Absent
  BY DEF StatesOf
<1>2. MutationType(m) /\ pages[i] \in Page \union {Absent}
  BY DEF BatchType, TypeOK, PageSets
<1>3. CASE k \in DOMAIN b.creates
  <2>1. b.creates[k] \in Content
    BY <1>3 DEF BatchType
  <2>2. after = [tenant |-> t, version |-> FirstVersion, content |-> b.creates[k]]
    BY <1>3 DEF PagesAfter
  <2>3. after \in Page /\ after # Absent /\ PageState(FirstVersion, b.creates[k]) \in State
    BY <2>1, <2>2, AbsentAssumption DEF Page, State, PageState, FirstVersion
  <2> QED BY <1>1, <1>3, <2>2, <2>3, AbsentAssumption
<1>4. ASSUME k \notin DOMAIN b.creates
      PROVE  /\ s[i] # Absent => OutcomeOf(old, m) # Absent /\ s[i].content = OutcomeOf(old, m)
             /\ m.kind # "none" => s[i] # old
  <2>1. after = Saved(t, pages[i], m)
    BY <1>4 DEF PagesAfter
  <2>2. m.kind \in {"none", "delete", "update", "restore"}
    BY <1>2 DEF MutationType
  <2>3. CASE m.kind = "none"
    <3>1. after = pages[i] /\ s[i] = old
      BY <1>1, <2>1, <2>3 DEF Saved, StatesOf
    <3>2. OutcomeOf(old, m) = IF old = Absent THEN Absent ELSE old.content
      BY <2>3 DEF OutcomeOf
    <3>3. old # Absent => old.content \in Content
      BY <1>2 DEF StatesOf, PageState, Page
    <3> HIDE DEF s, old, after, m
    <3> QED BY <1>4, <2>3, <3>1, <3>2, <3>3, AbsentAssumption
  <2>4. CASE m.kind = "delete"
    <3>1. s[i] = Absent
      BY <1>1, <2>1, <2>4 DEF Saved
    <3>2. old # Absent
      BY <2>4 DEF CheckPageBatch
    <3> HIDE DEF s, old, after, m
    <3> QED BY <1>4, <3>1, <3>2
  <2>5. CASE m.kind = "update"
    <3>1. after = [tenant |-> t, version |-> NextVersion(m.version), content |-> m.content]
      BY <2>1, <2>5 DEF Saved
    <3>2. m.version \in Nat \ {0} /\ m.content \in Content
      BY <1>2, <2>5 DEF MutationType
    <3>3. after \in Page /\ after # Absent
      BY <3>1, <3>2, AbsentAssumption DEF Page, NextVersion
    <3>4. s[i] = PageState(NextVersion(m.version), m.content)
      BY <1>1, <3>1, <3>3
    <3>5. OutcomeOf(old, m) = m.content
      BY <2>5 DEF OutcomeOf
    <3>6. old # Absent /\ old.version = m.version
      BY <2>5 DEF CheckPageBatch
    <3> HIDE DEF s, old, after, m
    <3> QED BY <1>4, <3>2, <3>4, <3>5, <3>6, AbsentAssumption DEF PageState, NextVersion
  <2>6. CASE m.kind = "restore"
    <3>1. after = [tenant |-> t, version |-> m.version, content |-> m.content]
      BY <2>1, <2>6 DEF Saved
    <3>2. m.version \in Nat \ {0} /\ m.content \in Content
      BY <1>2, <2>6 DEF MutationType
    <3>3. after \in Page /\ after # Absent /\ PageState(m.version, m.content) \in State
      BY <3>1, <3>2, AbsentAssumption DEF Page, State, PageState
    <3>4. s[i] = PageState(m.version, m.content) /\ s[i] # Absent
      BY <1>1, <3>1, <3>3, AbsentAssumption
    <3>5. OutcomeOf(old, m) = m.content
      BY <2>6 DEF OutcomeOf
    <3>6. old = Absent
      BY <2>6 DEF CheckPageBatch
    <3> HIDE DEF s, old, after, m
    <3> QED BY <1>4, <3>2, <3>4, <3>5, <3>6, AbsentAssumption DEF PageState
  <2> QED BY <2>2, <2>3, <2>4, <2>5, <2>6
<1> QED BY <1>3, <1>4

LEMMA BatchIsLegal ==
  ASSUME TypeOK, LedgerInv, NEW t \in Tenants, NEW b, BatchType(b), NEW operation,
         ApplyBatch(t, b, operation),
         \A i \in ID : b.targets[i].kind = "restore" => Fresh(t, i, b.targets[i].version)
  PROVE  Legal(t, PagesAfter(t, b))
<1> DEFINE last == StatesOf(pages, t)
           newPages == PagesAfter(t, b)
           s == StatesOf(newPages, t)
           kept == [i \in ID |-> OutcomeOf(last[i], b.targets[i])]
           IsNew(i) == i - nextID \in DOMAIN b.creates
<1>1. newPages \in PageSets(Page)
  BY PagesAfterType
<1>2. nextID \in Nat /\ b.creates \in Seq(Content) /\ nextID + Len(b.creates) <= MaxID /\ MaxID \in Nat
  BY BoundsAssumption DEF TypeOK, BatchType, ApplyBatch
<1>3. CheckPageBatch(t, b, operation = "batch.rollback")
  BY DEF ApplyBatch
<1>4. ASSUME NEW i \in ID
      PROVE  /\ IsNew(i) => s[i] = PageState(FirstVersion, b.creates[i - nextID]) /\ s[i] # Absent
             /\ ~IsNew(i) /\ s[i] # Absent => kept[i] # Absent /\ s[i].content = kept[i]
             /\ ~IsNew(i) /\ b.targets[i].kind # "none" => s[i] # last[i]
  BY <1>3, OutcomePage
<1>5. ASSUME NEW i \in ID, IsNew(i)
      PROVE  /\ pages[i] = Absent /\ last[i] = Absent
             /\ \A v \in Nat : Fresh(t, i, v)
  <2>1. i > nextID
    BY <1>2, <1>5 DEF ID
  <2> QED BY <2>1, NewIDIsFresh DEF LedgerInv, StatesOf
<1>6. PathsDiffer(s)
  <2>1. /\ \A i, j \in ID : kept[i] # Absent /\ kept[j] # Absent /\ kept[i].path = kept[j].path => i = j
        /\ \A k \in DOMAIN b.creates :
             /\ \A i \in ID : kept[i] # Absent => kept[i].path # b.creates[k].path
             /\ \A l \in DOMAIN b.creates : b.creates[l].path = b.creates[k].path => k = l
    BY <1>3 DEF CheckPageBatch, OutcomeOK, IDsOf
  <2> HIDE DEF s, kept
  <2>2. ASSUME NEW i \in ID, IsNew(i) PROVE s[i].content = b.creates[i - nextID]
    <3>1. s[i] = PageState(FirstVersion, b.creates[i - nextID])
      BY <1>4, <2>2
    <3> QED BY <3>1 DEF PageState
  <2> SUFFICES ASSUME NEW i \in ID, NEW j \in ID, s[i] # Absent, s[j] # Absent,
                      s[i].content.path = s[j].content.path
               PROVE  i = j
    BY DEF PathsDiffer
  <2>3. CASE IsNew(i) /\ IsNew(j)
    <3>1. i - nextID = j - nextID
      BY <2>1, <2>2, <2>3
    <3> QED BY <1>2, <3>1 DEF ID
  <2>4. CASE ~IsNew(i) /\ ~IsNew(j)
    BY <1>4, <2>1, <2>4
  <2>5. CASE IsNew(i) /\ ~IsNew(j)
    BY <1>4, <2>1, <2>2, <2>5
  <2>6. CASE ~IsNew(i) /\ IsNew(j)
    BY <1>4, <2>1, <2>2, <2>6
  <2> QED BY <2>3, <2>4, <2>5, <2>6
<1>7. s # last
  <2>1. CASE b.creates # << >>
    <3>1. nextID + 1 \in ID /\ (nextID + 1) - nextID \in DOMAIN b.creates
      BY <1>2, <2>1 DEF ID
    <3> HIDE DEF s, last
    <3> QED BY <1>4, <1>5, <3>1
  <2>2. CASE b.creates = << >>
    <3>1. PICK i \in ID : b.targets[i].kind # "none"
      BY <1>3, <2>2 DEF CheckPageBatch
    <3>2. ~IsNew(i)
      BY <2>2
    <3> HIDE DEF s, last
    <3> QED BY <1>4, <3>1, <3>2
  <2> QED BY <2>1, <2>2
<1>8. ASSUME NEW i \in ID, newPages[i] # pages[i]
      PROVE  /\ pages[i] = Absent \/ pages[i].tenant = t
             /\ \/ newPages[i] = Absent
                \/ newPages[i].tenant = t /\ Fresh(t, i, newPages[i].version)
  <2> DEFINE m == b.targets[i]
  <2>1. CASE IsNew(i)
    <3>1. newPages[i].tenant = t /\ newPages[i].version = FirstVersion
      BY <2>1 DEF PagesAfter
    <3> QED BY <1>5, <2>1, <3>1 DEF FirstVersion
  <2>2. CASE ~IsNew(i)
    <3>1. newPages[i] = Saved(t, pages[i], m)
      BY <2>2 DEF PagesAfter
    <3>2. MutationType(m)
      BY DEF BatchType
    <3>3. m.kind # "none"
      BY <1>8, <3>1 DEF Saved
    <3>4. CASE m.kind \in {"delete", "update"}
      <4>1. last[i] # Absent /\ last[i].version = m.version
        BY <1>3, <3>4 DEF CheckPageBatch
      <4>2. BelongsTo(t, i) /\ pages[i].version = m.version
        BY <4>1 DEF BelongsTo, StatesOf, PageState
      <4>3. CASE m.kind = "delete"
        BY <3>1, <4>2, <4>3 DEF Saved, BelongsTo
      <4>4. CASE m.kind = "update"
        <5>1. newPages[i].tenant = t /\ newPages[i].version = m.version + 1 /\ m.version \in Nat
          BY <3>1, <3>2, <4>4 DEF Saved, NextVersion, MutationType
        <5>2. Fresh(t, i, m.version + 1)
          BY <4>2, <5>1, CurrentIsNewest DEF LedgerInv
        <5> QED BY <4>2, <5>1, <5>2 DEF BelongsTo
      <4> QED BY <3>4, <4>3, <4>4
    <3>5. CASE m.kind = "restore"
      <4>1. newPages[i].tenant = t /\ newPages[i].version = m.version
        BY <3>1, <3>5 DEF Saved
      <4>2. Fresh(t, i, m.version)
        BY <3>5
      <4>3. pages[i] = Absent \/ pages[i].tenant = t
        <5> SUFFICES ASSUME pages[i] # Absent, pages[i].tenant # t PROVE FALSE
          OBVIOUS
        <5> DEFINE u == pages[i].tenant
        <5>1. pages[i] \in Page /\ u \in Tenants
          BY DEF TypeOK, PageSets, Page
        <5>2. StatesOf(pages, u)[i] \in State
          BY <5>1 DEF StatesOf, PageState, Page, State
        <5>3. read[u][revisions[u] + 1][i] \in State /\ revisions[u] + 1 \in DOMAIN read[u]
          BY <5>1, <5>2, CurrentInRead DEF LedgerInv
        <5> QED BY <4>2, <5>1, <5>3, AbsentAssumption DEF Fresh
      <4> QED BY <4>1, <4>2, <4>3
    <3> QED BY <3>2, <3>3, <3>4, <3>5 DEF MutationType
  <2> QED BY <2>1, <2>2
<1>9. Legal(t, newPages)
  <2> HIDE DEF newPages
  <2> QED BY <1>1, <1>6, <1>7, <1>8, LegalByPage
<1> QED BY <1>9

(* The rollback of a receipt restores only ids the tenant had, above the    *)
(* last version each had, and brings the contents before the batch back.    *)
LEMMA RollbackIsFresh ==
  ASSUME TypeOK, LedgerInv, NEW t \in Tenants, NEW r \in receipts,
         BaselineMatches(t, RollbackBatch(r))
  PROVE  /\ revisions[t] >= 1
         /\ r.before = read[t][revisions[t]]
         /\ r.after = StatesOf(pages, t)
         /\ \A i \in ID : RollbackMutation(r.before[i], r.after[i]).kind = "restore" =>
              Fresh(t, i, RollbackMutation(r.before[i], r.after[i]).version)
<1> DEFINE R == revisions[t]
<1>1. r.scope = t /\ r.afterRevision = R /\ r.after = StatesOf(pages, t)
  BY DEF BaselineMatches, RollbackBatch
<1>2. R \in Nat /\ r.beforeRevision \in Nat /\ r.afterRevision \in Nat
  BY DEF TypeOK, Receipt
<1>3. /\ r.afterRevision = r.beforeRevision + 1
      /\ r.before = read[t][r.beforeRevision + 1]
      /\ r.after = read[t][r.afterRevision + 1]
  BY <1>1 DEF LedgerInv, ReceiptsAreRead
<1>4. R >= 1 /\ r.before = read[t][R] /\ r.after = read[t][R + 1]
  BY <1>1, <1>2, <1>3
<1>5. DOMAIN read[t] = 1..(R + 1)
  BY CurrentInRead DEF LedgerInv
<1> HIDE DEF R
<1>6. ASSUME NEW i \in ID, RollbackMutation(r.before[i], r.after[i]).kind = "restore"
      PROVE  Fresh(t, i, RollbackMutation(r.before[i], r.after[i]).version)
  <2> DEFINE old == read[t][R][i]
             v == RollbackMutation(r.before[i], r.after[i]).version
  <2>1. R \in DOMAIN read[t]
    BY <1>2, <1>4, <1>5
  <2>2. r.before[i] # Absent /\ r.after[i] = Absent /\ v = r.before[i].version + 1
    BY <1>6 DEF RollbackMutation, Mutation, Untouched, RestoredVersion
  <2>3. old # Absent /\ read[t][R + 1][i] = Absent /\ v = old.version + 1 /\ old.version \in Nat
    BY <1>4, <2>1, <2>2, ReadType
  <2> HIDE DEF v
  <2>4. ASSUME NEW n \in DOMAIN read[t], read[t][n][i] # Absent
        PROVE  read[t][n][i].version < v
    <3>1. read[t][n][i].version \in Nat
      BY <2>4, ReadType
    <3>2. n \in 1..R
      BY <1>2, <1>5, <2>3, <2>4
    <3>3. CASE n = R
      BY <2>3, <3>3
    <3>4. CASE n < R
      <4>1. \/ read[t][n][i].version < old.version
            \/ \A k \in n..R : read[t][k][i] = read[t][n][i]
        BY <2>1, <2>3, <2>4, <3>4 DEF LedgerInv, VersionsNeverRepeat, IDsOf
      <4>2. R \in n..R
        BY <1>2, <3>2
      <4> QED BY <2>3, <3>1, <4>1, <4>2
    <3> QED BY <1>2, <3>2, <3>3, <3>4
  <2>5. ASSUME NEW u \in Tenants \ {t}, NEW n \in DOMAIN read[u]
        PROVE  read[u][n][i] = Absent
    BY <2>1, <2>3 DEF LedgerInv, OneTenantPerID, IDsOf
  <2> QED BY <2>4, <2>5 DEF Fresh, v
<1> QED BY <1>1, <1>4, <1>6 DEF R

LEMMA RollbackContents ==
  ASSUME TypeOK, LedgerInv, NEW t \in Tenants, NEW r \in receipts,
         CheckPageBatch(t, RollbackBatch(r), TRUE)
  PROVE  ContentsOf(StatesOf(PagesAfter(t, RollbackBatch(r)), t)) = ContentsOf(r.before)
<1> DEFINE b == RollbackBatch(r)
           s == StatesOf(PagesAfter(t, b), t)
           last == StatesOf(pages, t)
           before == r.before
           after == r.after
<1>1. BatchType(b) /\ b.creates = << >>
  BY RollbackBatchType DEF TypeOK, RollbackBatch
<1>2. r.after = last
  BY DEF CheckPageBatch, BaselineMatches, RollbackBatch
<1>3. ASSUME NEW i \in ID
      PROVE  (IF s[i] = Absent THEN Absent ELSE s[i].content)
              = (IF before[i] = Absent THEN Absent ELSE before[i].content)
  <2> DEFINE m == b.targets[i]
             page == PagesAfter(t, b)[i]
             old == before[i]
             new == after[i]
  <2>1. m = RollbackMutation(old, new)
    BY DEF RollbackBatch
  <2>2. page = Saved(t, pages[i], m)
    BY <1>1 DEF PagesAfter
  <2>3. old \in State \union {Absent} /\ new \in State \union {Absent}
    BY DEF TypeOK, Receipt, PageSets
  <2>4. s[i] = IF page # Absent /\ page.tenant = t THEN PageState(page.version, page.content) ELSE Absent
    BY DEF StatesOf
  <2>5. new = IF pages[i] # Absent /\ pages[i].tenant = t THEN PageState(pages[i].version, pages[i].content) ELSE Absent
    BY <1>2 DEF StatesOf
  <2> HIDE DEF s, b, m, page, before, after
  <2>6. CASE old = Absent /\ new # Absent
    BY <2>1, <2>2, <2>4, <2>6 DEF RollbackMutation, Mutation, Saved
  <2>7. CASE old = Absent /\ new = Absent
    BY <2>1, <2>2, <2>4, <2>5, <2>7, AbsentAssumption DEF RollbackMutation, Mutation, Untouched, Saved
  <2>8. CASE old # Absent /\ new = Absent
    <3>1. m = Mutation("restore", RestoredVersion(old.version), old.content) /\ old \in State
      BY <2>1, <2>3, <2>8 DEF RollbackMutation
    <3>2. page = [tenant |-> t, version |-> RestoredVersion(old.version), content |-> old.content]
      BY <2>2, <3>1 DEF Saved, Mutation
    <3>3. page \in Page /\ s[i] = PageState(page.version, page.content) /\ s[i] \in State
      BY <2>4, <3>1, <3>2, AbsentAssumption DEF Page, State, PageState, RestoredVersion
    <3> QED BY <2>8, <3>2, <3>3, AbsentAssumption DEF PageState
  <2>9. CASE old # Absent /\ new # Absent /\ old.content = new.content
    <3>1. m = Untouched /\ page = pages[i]
      BY <2>1, <2>2, <2>9 DEF RollbackMutation, Untouched, Mutation, Saved
    <3>2. s[i] = new
      BY <2>4, <2>5, <3>1
    <3> QED BY <2>9, <3>2
  <2>10. CASE old # Absent /\ new # Absent /\ old.content # new.content
    <3>1. m = Mutation("update", new.version, old.content) /\ old \in State /\ new \in State
      BY <2>1, <2>3, <2>10 DEF RollbackMutation
    <3>2. page = [tenant |-> t, version |-> NextVersion(new.version), content |-> old.content]
      BY <2>2, <3>1 DEF Saved, Mutation
    <3>3. page \in Page /\ s[i] = PageState(page.version, page.content) /\ s[i] \in State
      BY <2>4, <3>1, <3>2, AbsentAssumption DEF Page, State, PageState, NextVersion
    <3> QED BY <2>10, <3>2, <3>3, AbsentAssumption DEF PageState
  <2> QED BY <2>6, <2>7, <2>8, <2>9, <2>10
<1> QED BY <1>3 DEF ContentsOf

--------------------------------------------------------------------------------
(* From a legal write to the invariants and the ledger. *)

IInv == LedgerInv /\ HistoryIsLossless /\ RollbackRestores

LEMMA CommitKeepsRestores ==
  ASSUME TypeOK, ReadIsCurrent, HistoryIsLossless, RollbackRestores,
         NEW t \in Tenants, NEW newPages \in PageSets(Page),
         NEW operation, NEW before, NEW after,
         Commit(t, newPages, operation, before, after),
         operation = "batch.rollback" =>
           /\ revisions[t] >= 1
           /\ ContentsOf(StatesOf(newPages, t)) = ContentsOf(read[t][revisions[t]])
  PROVE  RollbackRestores'
<1> DEFINE R == revisions[t]
           e == [revision |-> R + 1, operation |-> operation, before |-> before, after |-> after]
<1>1. history' = [history EXCEPT ![t] = Append(history[t], e)]
  BY DEF Commit
<1>2. history[t] \in Seq(Entry) /\ Len(history[t]) = R /\ R \in Nat
  BY DEF TypeOK, HistoryIsLossless
<1>3. history'[t] = Append(history[t], e) /\ \A u \in Tenants \ {t} : history'[u] = history[u]
  BY <1>1 DEF TypeOK
<1>4. e.operation = operation
  OBVIOUS
<1> HIDE DEF e
<1>5. /\ DOMAIN history'[t] = 1..(R + 1)
      /\ \A n \in 1..R : history'[t][n] = history[t][n] /\ n \in DOMAIN history[t]
      /\ history'[t][R + 1] = e
  BY <1>2, <1>3
<1>6. \A n \in 1..(R + 1) : read'[t][n] = read[t][n]
  BY CommitReads
<1>7. read'[t][R + 2] = StatesOf(newPages, t)
  BY CommitReads
<1> SUFFICES ASSUME NEW u \in Tenants, NEW n \in DOMAIN history'[u],
                    history'[u][n].operation = "batch.rollback"
             PROVE  n >= 2 /\ ContentsOf(read'[u][n + 1]) = ContentsOf(read'[u][n - 1])
  BY DEF RollbackRestores, ContentsOf
<1>8. CASE u # t
  <2>1. history'[u] = history[u] /\ read'[u] = read[u]
    BY <1>3, <1>8, CommitReads
  <2> QED BY <2>1 DEF RollbackRestores
<1>9. CASE u = t /\ n \in 1..R
  <2>1. history[t][n].operation = "batch.rollback" /\ n \in DOMAIN history[t]
    BY <1>5, <1>9
  <2>2. n >= 2 /\ ContentsOf(read[t][n + 1]) = ContentsOf(read[t][n - 1])
    BY <2>1 DEF RollbackRestores
  <2>3. read'[t][n + 1] = read[t][n + 1] /\ read'[t][n - 1] = read[t][n - 1]
    BY <1>2, <1>6, <1>9, <2>2
  <2> QED BY <1>9, <2>2, <2>3
<1>10. CASE u = t /\ n = R + 1
  <2>1. R >= 1 /\ ContentsOf(StatesOf(newPages, t)) = ContentsOf(read[t][R])
    BY <1>4, <1>5, <1>10
  <2>2. read'[t][n + 1] = StatesOf(newPages, t) /\ read'[t][n - 1] = read[t][R]
    BY <1>2, <1>6, <1>7, <1>10, <2>1
  <2> QED BY <1>2, <1>10, <2>1, <2>2
<1> QED BY <1>2, <1>5, <1>8, <1>9, <1>10

LEMMA CommitKeepsIDs ==
  ASSUME TypeOK, ReadIsCurrent, IDsBounded,
         NEW t \in Tenants, NEW newPages \in PageSets(Page),
         NEW operation, NEW before, NEW after,
         Commit(t, newPages, operation, before, after),
         nextID' \in Int, nextID <= nextID',
         \A i \in ID : newPages[i] # pages[i] => i <= nextID'
  PROVE  IDsBounded'
<1> SUFFICES ASSUME NEW u \in Tenants, NEW n \in DOMAIN read'[u], NEW i \in ID, read'[u][n][i] # Absent
             PROVE  i <= nextID'
  BY DEF IDsBounded, IDsOf
<1>1. nextID \in Int /\ i \in Int
  BY DEF TypeOK, ID
<1>2. CASE u # t \/ n \in DOMAIN read[t]
  <2>1. n \in DOMAIN read[u] /\ read[u][n][i] # Absent
    BY <1>2, CommitReads
  <2> QED BY <1>1, <2>1 DEF IDsBounded, IDsOf
<1>3. CASE u = t /\ n \notin DOMAIN read[t]
  <2>1. StatesOf(newPages, t)[i] # Absent
    BY <1>3, CommitReads
  <2>2. newPages[i] # Absent
    BY <2>1 DEF StatesOf
  <2>3. CASE newPages[i] = pages[i]
    BY <1>1, <2>2, <2>3, NewIDIsFresh
  <2> QED BY <2>3
<1> QED BY <1>2, <1>3

LEMMA LegalIsLedgerWrite ==
  ASSUME TypeOK, ReadIsCurrent, NEW t \in Tenants, NEW newPages \in PageSets(Page),
         NEW operation, NEW before, NEW after, Legal(t, newPages),
         Commit(t, newPages, operation, before, after)
  PROVE  Ledger!Write(t)
<1> DEFINE last == StatesOf(pages, t)
           s == StatesOf(newPages, t)
<1>1. Len(read[t]) = revisions[t] + 1 /\ revisions[t] \in Nat /\ read[t] \in Seq(PageSets(State))
  BY DEF TypeOK, ReadIsCurrent
<1>2. read'[t] = Append(read[t], s) /\ read' = [read EXCEPT ![t] = Append(read[t], s)]
  BY CommitReads DEF Commit
<1>3. read[t][Len(read[t])] = last
  BY <1>1, CurrentInRead
<1> HIDE DEF s, last
<1>4. Len(read'[t]) = Len(read[t]) + 1 /\ read'[t][Len(read[t]) + 1] = s
  BY <1>1, <1>2
<1>5. s # last /\ Ledger!DistinctPaths(s)
  BY DEF Legal, PathsDiffer, Ledger!DistinctPaths, s, last
<1>6. \A i \in ID : s[i] \in {Absent, last[i]} \/ Ledger!FreshSave(t, i, s)
  BY DEF Legal, Fresh, Ledger!FreshSave, Ledger!Had, s, last
<1> QED BY <1>2, <1>3, <1>4, <1>5, <1>6 DEF Ledger!Write

LEMMA WriteStep ==
  ASSUME TypeOK, IInv, NEW t \in Tenants, NEW newPages \in PageSets(Page), NEW operation,
         Legal(t, newPages),
         Commit(t, newPages, operation,
                Changed(StatesOf(pages, t), StatesOf(newPages, t)),
                Changed(StatesOf(newPages, t), StatesOf(pages, t))),
         nextID' \in Int, nextID <= nextID',
         \A i \in ID : newPages[i] # pages[i] => i <= nextID',
         ReceiptsAreRead',
         operation = "batch.rollback" =>
           /\ revisions[t] >= 1
           /\ ContentsOf(StatesOf(newPages, t)) = ContentsOf(read[t][revisions[t]])
  PROVE  IInv' /\ Ledger!Write(t)
<1>1. ReadIsCurrent' /\ UniquePaths' /\ VersionsNeverRepeat' /\ OneTenantPerID'
  BY LegalKeepsReadIsCurrent, LegalKeepsUniquePaths, LegalKeepsVersions, LegalKeepsOneTenant
     DEF IInv, LedgerInv
<1>2. IDsBounded'
  BY CommitKeepsIDs DEF IInv, LedgerInv
<1>3. HistoryIsLossless'
  BY LegalKeepsHistory DEF IInv, LedgerInv
<1>4. RollbackRestores'
  BY CommitKeepsRestores DEF IInv, LedgerInv
<1>5. Ledger!Write(t)
  BY LegalIsLedgerWrite DEF IInv, LedgerInv
<1> QED BY <1>1, <1>2, <1>3, <1>4, <1>5 DEF IInv, LedgerInv

LEMMA BatchKeepsReceipts ==
  ASSUME TypeOK, ReadIsCurrent, ReceiptsAreRead, NEW t \in Tenants, NEW b, BatchType(b),
         NEW operation, ApplyBatch(t, b, operation)
  PROVE  ReceiptsAreRead'
<1> DEFINE R == revisions[t]
           newPages == PagesAfter(t, b)
           new == [scope |-> t, beforeRevision |-> R, afterRevision |-> R + 1,
                   before |-> StatesOf(pages, t), after |-> StatesOf(newPages, t)]
<1>1. newPages \in PageSets(Page)
  BY PagesAfterType
<1>2. PICK before, after : Commit(t, newPages, operation, before, after)
  BY DEF ApplyBatch
<1>3. receipts' = receipts \union {new}
  BY DEF ApplyBatch
<1>4. /\ R \in Nat /\ R + 1 \in DOMAIN read[t] /\ read[t][R + 1] = StatesOf(pages, t)
      /\ revisions'[t] = R + 1
      /\ DOMAIN read[t] = 1..(R + 1)
      /\ \A n \in DOMAIN read[t] : read'[t][n] = read[t][n]
      /\ read'[t][R + 2] = StatesOf(newPages, t)
      /\ \A u \in Tenants \ {t} : read'[u] = read[u] /\ revisions'[u] = revisions[u]
  <2> HIDE DEF newPages
  <2> QED BY <1>1, <1>2, CommitReads, CurrentInRead
<1> SUFFICES ASSUME NEW r \in receipts'
             PROVE  /\ r.afterRevision = r.beforeRevision + 1
                    /\ r.afterRevision <= revisions'[r.scope]
                    /\ r.before = read'[r.scope][r.beforeRevision + 1]
                    /\ r.after = read'[r.scope][r.afterRevision + 1]
  BY DEF ReceiptsAreRead
<1>5. CASE r = new
  <2>1. (R + 1) + 1 = R + 2
    BY <1>4
  <2> HIDE DEF newPages, R
  <2> QED BY <1>4, <1>5, <2>1
<1>6. CASE r \in receipts
  <2>1. r.scope \in Tenants /\ r.beforeRevision \in Nat /\ r.afterRevision \in Nat
    BY <1>6 DEF TypeOK, Receipt
  <2>2. /\ r.afterRevision = r.beforeRevision + 1 /\ r.afterRevision <= revisions[r.scope]
        /\ r.before = read[r.scope][r.beforeRevision + 1]
        /\ r.after = read[r.scope][r.afterRevision + 1]
    BY <1>6 DEF ReceiptsAreRead
  <2>3. CASE r.scope # t
    BY <1>4, <2>1, <2>2, <2>3
  <2>4. CASE r.scope = t
    <3>1. r.beforeRevision + 1 \in DOMAIN read[t] /\ r.afterRevision + 1 \in DOMAIN read[t]
      <4> HIDE DEF new, newPages
      <4> QED BY <1>4, <2>1, <2>2, <2>4
    <3>2. /\ read'[t][r.beforeRevision + 1] = read[t][r.beforeRevision + 1]
          /\ read'[t][r.afterRevision + 1] = read[t][r.afterRevision + 1]
      BY <1>4, <3>1
    <3>3. r.afterRevision <= revisions'[t]
      BY <1>4, <2>1, <2>2, <2>4
    <3> QED BY <2>2, <2>4, <3>2, <3>3
  <2> QED BY <2>3, <2>4
<1> HIDE DEF new
<1> QED BY <1>3, <1>5, <1>6

LEMMA BatchStep ==
  ASSUME TypeOK, IInv, NEW t \in Tenants, NEW b, BatchType(b), NEW operation,
         ApplyBatch(t, b, operation),
         \A i \in ID : b.targets[i].kind = "restore" => Fresh(t, i, b.targets[i].version),
         operation = "batch.rollback" =>
           /\ revisions[t] >= 1
           /\ ContentsOf(StatesOf(PagesAfter(t, b), t)) = ContentsOf(read[t][revisions[t]])
  PROVE  IInv' /\ Ledger!Write(t)
<1> DEFINE newPages == PagesAfter(t, b)
           ids == {nextID + Len(b.creates)} \union {i \in ID : b.targets[i].kind = "restore"}
<1>1. newPages \in PageSets(Page) /\ Legal(t, newPages)
  BY PagesAfterType, BatchIsLegal DEF IInv
<1>2. Commit(t, newPages, operation,
             Changed(StatesOf(pages, t), StatesOf(newPages, t)),
             Changed(StatesOf(newPages, t), StatesOf(pages, t)))
  BY DEF ApplyBatch
<1>3. nextID \in Nat /\ Len(b.creates) \in Nat /\ DOMAIN b.creates = 1..Len(b.creates)
  BY DEF TypeOK, BatchType
<1>4. nextID' \in ids /\ \A m \in ids : m <= nextID'
  BY DEF ApplyBatch
<1>5. nextID' \in Int /\ nextID + Len(b.creates) <= nextID' /\ nextID <= nextID'
  <2>1. ids \subseteq Int /\ nextID + Len(b.creates) \in ids
    BY <1>3 DEF ID
  <2> HIDE DEF ids
  <2> QED BY <1>3, <1>4, <2>1
<1>6. ASSUME NEW i \in ID, newPages[i] # pages[i] PROVE i <= nextID'
  <2>1. i \in Int
    BY DEF ID
  <2>2. CASE i - nextID \in DOMAIN b.creates
    BY <1>3, <1>5, <2>1, <2>2
  <2>3. CASE i - nextID \notin DOMAIN b.creates
    <3>1. newPages[i] = Saved(t, pages[i], b.targets[i])
      BY <2>3 DEF PagesAfter
    <3>2. CASE b.targets[i].kind = "restore"
      BY <1>4, <3>2
    <3>3. CASE b.targets[i].kind # "restore"
      <4>1. b.targets[i].kind # "none"
        BY <1>6, <3>1 DEF Saved
      <4>2. StatesOf(pages, t)[i] # Absent
        BY <3>3, <4>1 DEF ApplyBatch, CheckPageBatch
      <4>3. pages[i] # Absent
        BY <4>2 DEF StatesOf
      <4> QED BY <1>3, <1>5, <2>1, <4>3, NewIDIsFresh DEF IInv, LedgerInv
    <3> QED BY <3>2, <3>3
  <2> QED BY <2>2, <2>3
<1>7. ReceiptsAreRead'
  BY BatchKeepsReceipts DEF IInv, LedgerInv
<1>8. operation = "batch.rollback" =>
        /\ revisions[t] >= 1
        /\ ContentsOf(StatesOf(newPages, t)) = ContentsOf(read[t][revisions[t]])
  OBVIOUS
<1> HIDE DEF newPages
<1> QED BY <1>1, <1>2, <1>5, <1>6, <1>7, <1>8, WriteStep

LEMMA NoWriteKeepsInv ==
  ASSUME IInv, UNCHANGED <<pages, nextID, revisions, history, read, receipts>>
  PROVE  IInv'
<1>1. ReadIsCurrent' /\ ReceiptsAreRead'
  BY DEF IInv, LedgerInv, ReadIsCurrent, ReceiptsAreRead, StatesOf
<1>2. UniquePaths'
  BY DEF IInv, LedgerInv, UniquePaths, GetByPath, BelongsTo
<1>3. IDsBounded' /\ VersionsNeverRepeat' /\ OneTenantPerID'
  BY DEF IInv, LedgerInv, IDsBounded, VersionsNeverRepeat, OneTenantPerID, IDsOf
<1>4. HistoryIsLossless' /\ RollbackRestores'
  BY DEF IInv, HistoryIsLossless, RollbackRestores, Changed, ContentsOf
<1> QED BY <1>1, <1>2, <1>3, <1>4 DEF IInv, LedgerInv

(* Every step keeps the invariants and is a ledger write or a stutter. *)
LEMMA NextStep ==
  ASSUME TypeOK, IInv, [Next]_vars
  PROVE  IInv' /\ [Ledger!Next]_read
<1>1. ASSUME NEW t \in Tenants, NEW c \in Content, Create(t, c)
      PROVE  IInv' /\ Ledger!Write(t)
  <2> DEFINE id == nextID + 1
             newPages == [pages EXCEPT ![id] = [tenant |-> t, version |-> FirstVersion, content |-> c]]
  <2>1. /\ newPages \in PageSets(Page)
        /\ Legal(t, newPages)
        /\ Commit(t, newPages, "create",
                  Changed(StatesOf(pages, t), StatesOf(newPages, t)),
                  Changed(StatesOf(newPages, t), StatesOf(pages, t)))
    BY <1>1, CreateIsLegal DEF IInv
  <2>2. nextID' = id /\ nextID \in Nat /\ receipts' = receipts
    BY <1>1 DEF Create, TypeOK
  <2>3. \A i \in ID : newPages[i] # pages[i] => i <= nextID'
    BY <2>2 DEF TypeOK, PageSets, ID
  <2> HIDE DEF newPages
  <2>4. ReceiptsAreRead'
    BY <2>1, <2>2, CommitKeepsReceipts DEF IInv, LedgerInv
  <2> QED BY <2>1, <2>2, <2>3, <2>4, WriteStep
<1>2. ASSUME NEW t \in Tenants, NEW h \in Held, NEW c \in Content, Update(t, h[1], h[2], c)
      PROVE  IInv' /\ Ledger!Write(t)
  <2> DEFINE i == h[1]  v == h[2]
             page == [tenant |-> t, version |-> NextVersion(v), content |-> c]
             newPages == [pages EXCEPT ![i] = page]
  <2>1. i \in ID /\ v \in Nat \ {0} /\ BelongsTo(t, i) /\ pages[i].version = v
    BY <1>2 DEF Held, Update, Current
  <2>2. page \in Page /\ page # Absent /\ page.tenant = t /\ page.version = v + 1 /\ page.content = c
    BY <2>1, AbsentAssumption DEF Page, NextVersion
  <2>3. ~Duplicate(t, c.path, i)
    BY <1>2 DEF Update
  <2>4. Commit(t, newPages, "update", Only(i, PageState(v, pages[i].content)), Only(i, PageState(NextVersion(v), c)))
    BY <1>2 DEF Update
  <2>5. nextID' = nextID /\ nextID \in Nat /\ receipts' = receipts
    BY <1>2 DEF Update, TypeOK
  <2>6. \A j \in ID : newPages[j] # pages[j] => j <= nextID'
    <3>1. i <= nextID
      BY <2>1, <2>5, NewIDIsFresh DEF IInv, LedgerInv, BelongsTo, ID
    <3> QED BY <2>5, <3>1 DEF TypeOK, PageSets
  <2>7. /\ newPages \in PageSets(Page)
        /\ Legal(t, newPages)
        /\ Only(i, PageState(v, pages[i].content)) = Changed(StatesOf(pages, t), StatesOf(newPages, t))
        /\ Only(i, PageState(page.version, page.content)) = Changed(StatesOf(newPages, t), StatesOf(pages, t))
    <3>1. page.version > pages[i].version
      BY <2>1, <2>2
    <3> HIDE DEF page
    <3> QED BY <2>1, <2>2, <2>3, <3>1, ReplaceIsLegal DEF IInv
  <2>8. page.version = NextVersion(v)
    OBVIOUS
  <2> HIDE DEF newPages, page
  <2>9. ReceiptsAreRead'
    BY <2>4, <2>5, <2>7, CommitKeepsReceipts DEF IInv, LedgerInv
  <2> QED BY <2>2, <2>4, <2>5, <2>6, <2>7, <2>8, <2>9, WriteStep
<1>3. ASSUME NEW t \in Tenants, NEW h \in Held, Delete(t, h[1], h[2])
      PROVE  IInv' /\ Ledger!Write(t)
  <2> DEFINE i == h[1]  v == h[2]
             newPages == [pages EXCEPT ![i] = Absent]
  <2>1. i \in ID /\ BelongsTo(t, i) /\ pages[i].version = v
    BY <1>3 DEF Held, Delete, Current
  <2>2. Commit(t, newPages, "delete", Only(i, PageState(v, pages[i].content)), NoPages)
    BY <1>3 DEF Delete
  <2>3. nextID' = nextID /\ nextID \in Nat /\ receipts' = receipts
    BY <1>3 DEF Delete, TypeOK
  <2>4. \A j \in ID : newPages[j] # pages[j] => j <= nextID'
    <3>1. i <= nextID
      BY <2>1, <2>3, NewIDIsFresh DEF IInv, LedgerInv, BelongsTo, ID
    <3> QED BY <2>3, <3>1 DEF TypeOK, PageSets
  <2>5. /\ newPages \in PageSets(Page)
        /\ Legal(t, newPages)
        /\ Only(i, PageState(v, pages[i].content)) = Changed(StatesOf(pages, t), StatesOf(newPages, t))
        /\ NoPages = Changed(StatesOf(newPages, t), StatesOf(pages, t))
    BY <2>1, ReplaceIsLegal DEF IInv
  <2> HIDE DEF newPages
  <2>6. ReceiptsAreRead'
    BY <2>2, <2>3, <2>5, CommitKeepsReceipts DEF IInv, LedgerInv
  <2> QED BY <2>2, <2>3, <2>4, <2>5, <2>6, WriteStep
<1>4. ASSUME NEW t \in Tenants, ReadPageState(t)
      PROVE  IInv' /\ read' = read
  BY <1>4, NoWriteKeepsInv DEF ReadPageState
<1>5. ASSUME NEW t \in Tenants, NEW n \in 0..revisions[t],
             NEW targets \in TargetChoices(read[t][n + 1]), NEW creates \in CreateChoices,
             ApplyPageBatch(t, n, targets, creates)
      PROVE  IInv' /\ Ledger!Write(t)
  <2> DEFINE b == BatchFor(t, n, targets, creates)
  <2>1. n + 1 \in DOMAIN read[t]
    BY CurrentInRead DEF IInv, LedgerInv
  <2>2. BatchType(b)
    BY <2>1, ChosenBatchType
  <2>3. ApplyBatch(t, b, "batch.apply")
    BY <1>5 DEF ApplyPageBatch
  <2>4. \A i \in ID : b.targets[i].kind # "restore"
    BY <2>3 DEF ApplyBatch, CheckPageBatch
  <2> HIDE DEF b
  <2> QED BY <2>2, <2>3, <2>4, BatchStep
<1>6. ASSUME NEW t \in Tenants, NEW r \in receipts, RollbackPageBatch(t, r)
      PROVE  IInv' /\ Ledger!Write(t)
  <2> DEFINE b == RollbackBatch(r)
  <2>1. BatchType(b)
    BY RollbackBatchType DEF TypeOK
  <2>2. ApplyBatch(t, b, "batch.rollback") /\ CheckPageBatch(t, b, TRUE)
    BY <1>6 DEF RollbackPageBatch, ApplyBatch
  <2>3. /\ revisions[t] >= 1 /\ r.before = read[t][revisions[t]]
        /\ \A i \in ID : RollbackMutation(r.before[i], r.after[i]).kind = "restore" =>
             Fresh(t, i, RollbackMutation(r.before[i], r.after[i]).version)
    BY <2>2, RollbackIsFresh DEF CheckPageBatch, IInv
  <2>4. \A i \in ID : b.targets[i] = RollbackMutation(r.before[i], r.after[i])
    BY DEF RollbackBatch
  <2>5. ContentsOf(StatesOf(PagesAfter(t, b), t)) = ContentsOf(read[t][revisions[t]])
    BY <2>2, <2>3, RollbackContents DEF IInv
  <2> HIDE DEF b
  <2> QED BY <2>1, <2>2, <2>3, <2>4, <2>5, BatchStep
<1>7. CASE UNCHANGED vars
  BY <1>7, NoWriteKeepsInv DEF vars
<1> QED BY <1>1, <1>2, <1>3, <1>4, <1>5, <1>6, <1>7 DEF Next, Ledger!Next

LEMMA InitHolds == ASSUME Init PROVE IInv /\ Ledger!Init
<1>1. DOMAIN <<NoPages>> = 1..1 /\ Len(<<NoPages>>) = 1 /\ <<NoPages>>[1] = NoPages
  OBVIOUS
<1>2. /\ pages = NoPages /\ receipts = {} /\ nextID = 0
      /\ \A t \in Tenants : revisions[t] = 0 /\ read[t] = <<NoPages>> /\ history[t] = << >>
  BY DEF Init
<1>3. \A t : StatesOf(NoPages, t) = NoPages
  BY DEF StatesOf, NoPages
<1>4. \A i \in ID : NoPages[i] = Absent
  BY DEF NoPages
<1> HIDE DEF NoPages
<1>5. ReadIsCurrent /\ IDsBounded /\ ReceiptsAreRead /\ UniquePaths
  <2>1. ReadIsCurrent
    <3>1. ASSUME NEW t \in Tenants
          PROVE  Len(read[t]) = revisions[t] + 1 /\ read[t][revisions[t] + 1] = StatesOf(pages, t)
      <4>1. revisions[t] + 1 = 1 /\ read[t] = <<NoPages>>
        BY <1>2
      <4>2. StatesOf(pages, t) = NoPages
        BY <1>2, <1>3
      <4> QED BY <1>1, <4>1, <4>2
    <3> QED BY <3>1 DEF ReadIsCurrent
  <2>2. IDsBounded
    BY <1>1, <1>2, <1>4 DEF IDsBounded, IDsOf
  <2>3. ReceiptsAreRead
    BY <1>2 DEF ReceiptsAreRead
  <2>4. UniquePaths
    BY <1>2, <1>4 DEF UniquePaths, GetByPath, BelongsTo
  <2> QED BY <2>1, <2>2, <2>3, <2>4
<1>6. VersionsNeverRepeat /\ OneTenantPerID
  BY <1>1, <1>2, <1>4 DEF VersionsNeverRepeat, OneTenantPerID, IDsOf
<1>7. HistoryIsLossless /\ RollbackRestores
  BY <1>2 DEF HistoryIsLossless, RollbackRestores
<1>8. Ledger!Init
  BY DEF Init, Ledger!Init, NoPages
<1> QED BY <1>5, <1>6, <1>7, <1>8 DEF IInv, LedgerInv

--------------------------------------------------------------------------------
(* The store's safety properties hold for all tenants, paths, bodies and     *)
(* bounds: unique paths per tenant, versions that never come back, ids that  *)
(* never change tenant, a lossless history and exact rollbacks.              *)
THEOREM StoreIsSafe ==
  Spec => [](UniquePaths /\ VersionsNeverRepeat /\ OneTenantPerID /\ HistoryIsLossless /\ RollbackRestores)
<1>1. Init => IInv
  BY InitHolds
<1>2. TypeOK /\ IInv /\ [Next]_vars => IInv'
  BY NextStep
<1>3. IInv => UniquePaths /\ VersionsNeverRepeat /\ OneTenantPerID /\ HistoryIsLossless /\ RollbackRestores
  BY DEF IInv, LedgerInv
<1> QED BY <1>1, <1>2, <1>3, TypeCorrect, PTL DEF Spec

(* A tenant never has two live pages at one path (GetByPath). *)
THEOREM PathsStayUnique == Spec => []UniquePaths
BY StoreIsSafe, PTL

(* Event n of the saved history takes the state at revision n - 1 to that  *)
(* at revision n and names no other page.                                  *)
THEOREM HistoryReplaysTheWrites == Spec => []HistoryIsLossless
BY StoreIsSafe, PTL

(* No operation for a tenant touches or revives a page whose id another    *)
(* tenant had, replayed receipts included.                                 *)
THEOREM IDsStayWithTheirTenant == Spec => []OneTenantPerID
BY StoreIsSafe, PTL

(* A rollback brings back, page by page, what the write before it replaced. *)
THEOREM RollbacksRestore == Spec => []RollbackRestores
BY StoreIsSafe, PTL

(* The page store implements the ledger of PageLedger: every operation of   *)
(* store/page.go and store/batch_memory.go is one legal write or no write.  *)
THEOREM StoreImplementsLedger == Spec => LedgerSpec
<1>1. Init => IInv /\ Ledger!Init
  BY InitHolds
<1>2. TypeOK /\ IInv /\ [Next]_vars => IInv' /\ [Ledger!Next]_read
  BY NextStep
<1> QED BY <1>1, <1>2, TypeCorrect, PTL DEF Spec, LedgerSpec, Ledger!Spec

--------------------------------------------------------------------------------
(* A rollback is refused only for what happened since its batch.             *)

(* Every state of a tenant that was ever current, not only the present one, *)
(* has its pages at different paths.                                        *)
PathsAlwaysDiffered ==
  \A t \in Tenants : \A n \in DOMAIN read[t] : PathsDiffer(read[t][n])

LEMMA InitPathsDiffer == ASSUME Init PROVE PathsAlwaysDiffered
<1>1. \A t \in Tenants : read[t] = <<NoPages>>
  BY DEF Init
<1>2. PathsDiffer(NoPages)
  BY DEF PathsDiffer, NoPages
<1>3. DOMAIN <<NoPages>> = {1} /\ <<NoPages>>[1] = NoPages
  OBVIOUS
<1> HIDE DEF NoPages
<1> QED BY <1>1, <1>2, <1>3 DEF PathsAlwaysDiffered

(* The ledger accepts only states whose paths differ and forgets none.      *)
LEMMA LedgerKeepsPathsDiffering ==
  ASSUME TypeOK, PathsAlwaysDiffered, [Ledger!Next]_read
  PROVE  PathsAlwaysDiffered'
<1>1. ASSUME NEW t \in Tenants, Ledger!Write(t)
      PROVE  PathsAlwaysDiffered'
  <2> DEFINE s == read'[t][Len(read[t]) + 1]
  <2>1. read' = [read EXCEPT ![t] = Append(read[t], s)] /\ Ledger!DistinctPaths(s)
    BY <1>1 DEF Ledger!Write
  <2>2. PathsDiffer(s)
    BY <2>1 DEF Ledger!DistinctPaths, PathsDiffer
  <2>3. read[t] \in Seq(PageSets(State)) /\ read \in [Tenants -> Seq(PageSets(State))]
    BY DEF TypeOK
  <2> HIDE DEF s
  <2>4. read'[t] = Append(read[t], s) /\ \A u \in Tenants \ {t} : read'[u] = read[u]
    BY <2>1, <2>3
  <2>5. \A n \in DOMAIN Append(read[t], s) :
          Append(read[t], s)[n] = s \/ (n \in DOMAIN read[t] /\ Append(read[t], s)[n] = read[t][n])
    BY <2>3
  <2>6. ASSUME NEW u \in Tenants, NEW n \in DOMAIN read'[u] PROVE PathsDiffer(read'[u][n])
    <3>1. CASE u = t
      <4>1. read'[u][n] = s \/ (n \in DOMAIN read[t] /\ read'[u][n] = read[t][n])
        BY <2>4, <2>5, <2>6, <3>1
      <4> QED BY <2>2, <4>1 DEF PathsAlwaysDiffered
    <3>2. CASE u # t
      BY <2>4, <2>6, <3>2 DEF PathsAlwaysDiffered
    <3> QED BY <3>1, <3>2
  <2> QED BY <2>6 DEF PathsAlwaysDiffered, PathsDiffer
<1>2. CASE read' = read
  BY <1>2 DEF PathsAlwaysDiffered, PathsDiffer
<1> QED BY <1>1, <1>2 DEF Ledger!Next

(* What one rollback mutation does to a page of the post-state: it is one   *)
(* CheckPageBatch takes, and its outcome is the content before the batch.   *)
LEMMA RollbackMutationFits ==
  ASSUME NEW old \in State \union {Absent}, NEW new \in State \union {Absent}
  PROVE  /\ RollbackMutation(old, new).kind = "restore" => new = Absent
         /\ RollbackMutation(old, new).kind \notin {"none", "restore"} =>
              new # Absent /\ new.version = RollbackMutation(old, new).version
         /\ OutcomeOf(new, RollbackMutation(old, new)) =
              (IF old = Absent THEN Absent ELSE old.content)
         /\ RollbackMutation(old, new).kind = "none" =>
              (IF old = Absent THEN Absent ELSE old.content) = (IF new = Absent THEN Absent ELSE new.content)
<1>1. CASE old = Absent /\ new # Absent
  BY <1>1 DEF RollbackMutation, Mutation, OutcomeOf
<1>2. CASE old = Absent /\ new = Absent
  BY <1>2 DEF RollbackMutation, Mutation, Untouched, OutcomeOf
<1>3. CASE old # Absent /\ new = Absent
  BY <1>3 DEF RollbackMutation, Mutation, OutcomeOf
<1>4. CASE old # Absent /\ new # Absent
  BY <1>4 DEF RollbackMutation, Mutation, Untouched, OutcomeOf
<1> QED BY <1>1, <1>2, <1>3, <1>4

LEMMA RollbackIsAvailable ==
  ASSUME TypeOK, LedgerInv, PathsAlwaysDiffered, NEW r \in receipts,
         revisions[r.scope] = r.afterRevision,
         ContentsOf(r.before) # ContentsOf(r.after),
         Reversible(r)
  PROVE  CheckPageBatch(r.scope, RollbackBatch(r), TRUE)
<1> DEFINE t == r.scope
           b == RollbackBatch(r)
           last == StatesOf(pages, t)
           before == r.before
           after == r.after
<1>1. /\ t \in Tenants /\ r.beforeRevision \in Nat /\ r.afterRevision \in Nat
      /\ before \in PageSets(State) /\ after \in PageSets(State)
  BY DEF TypeOK, Receipt
<1>2. /\ r.afterRevision = r.beforeRevision + 1
      /\ before = read[t][r.beforeRevision + 1] /\ after = read[t][r.afterRevision + 1]
  BY DEF LedgerInv, ReceiptsAreRead
<1>3. after = last /\ before = read[t][r.afterRevision] /\ r.afterRevision \in DOMAIN read[t]
  <2>1. /\ read[t][revisions[t] + 1] = last /\ DOMAIN read[t] = 1..(revisions[t] + 1)
    BY <1>1, CurrentInRead DEF LedgerInv
  <2> QED BY <1>1, <1>2, <2>1
<1>4. PathsDiffer(before)
  BY <1>1, <1>3 DEF PathsAlwaysDiffered
<1>5. BaselineMatches(t, b)
  BY <1>3 DEF BaselineMatches, RollbackBatch
<1>6. \A i \in ID : b.targets[i] = RollbackMutation(before[i], after[i])
  BY DEF RollbackBatch
<1>7. b.creates = << >>
  BY DEF RollbackBatch
<1>8. \A i \in ID : before[i] \in State \union {Absent} /\ after[i] \in State \union {Absent}
  BY <1>1 DEF PageSets
<1>9. /\ \A i \in ID : before[i] # Absent => Valid(before[i].content)
  BY DEF Reversible, IDsOf
<1> HIDE DEF b, before, after, last
<1>10. \E i \in ID : b.targets[i].kind # "none"
  <2> SUFFICES ASSUME \A i \in ID : b.targets[i].kind = "none" PROVE FALSE
    OBVIOUS
  <2>1. ASSUME NEW i \in ID
        PROVE  (IF before[i] = Absent THEN Absent ELSE before[i].content)
                = (IF after[i] = Absent THEN Absent ELSE after[i].content)
    BY <1>6, <1>8, RollbackMutationFits
  <2>2. ContentsOf(before) = ContentsOf(after)
    BY <2>1 DEF ContentsOf
  <2> QED BY <2>2 DEF before, after
<1>11. ASSUME NEW i \in ID
       PROVE  CASE b.targets[i].kind = "none" -> TRUE
                [] b.targets[i].kind = "restore" -> TRUE /\ last[i] = Absent
                [] OTHER -> last[i] # Absent /\ last[i].version = b.targets[i].version
  <2>1. /\ b.targets[i].kind = "restore" => last[i] = Absent
        /\ b.targets[i].kind \notin {"none", "restore"} =>
             last[i] # Absent /\ last[i].version = b.targets[i].version
    BY <1>3, <1>6, <1>8, RollbackMutationFits
  <2>2. CASE b.targets[i].kind = "none"
    BY <2>2
  <2>3. CASE b.targets[i].kind = "restore"
    BY <2>1, <2>3
  <2>4. CASE b.targets[i].kind \notin {"none", "restore"}
    BY <2>1, <2>4
  <2> QED BY <2>2, <2>3, <2>4
<1>12. OutcomeOK(last, b)
  <2> DEFINE kept == [i \in ID |-> OutcomeOf(last[i], b.targets[i])]
  <2>1. ASSUME NEW i \in ID, kept[i] # Absent
        PROVE  before[i] # Absent /\ kept[i] = before[i].content
    BY <1>3, <1>6, <1>8, <2>1, RollbackMutationFits
  <2>2. \A i \in IDsOf(kept) : Valid(kept[i])
    BY <1>9, <2>1 DEF IDsOf
  <2> HIDE DEF kept
  <2>3. \A i, j \in IDsOf(kept) : kept[i].path = kept[j].path => i = j
    <3> SUFFICES ASSUME NEW i \in ID, NEW j \in ID, kept[i] # Absent, kept[j] # Absent,
                        kept[i].path = kept[j].path
                 PROVE  i = j
      BY DEF IDsOf
    <3>1. /\ before[i] # Absent /\ kept[i] = before[i].content
          /\ before[j] # Absent /\ kept[j] = before[j].content
      BY <2>1
    <3> QED BY <1>4, <3>1 DEF PathsDiffer
  <2>4. DOMAIN b.creates = {}
    BY <1>7
  <2> QED BY <2>2, <2>3, <2>4 DEF OutcomeOK, kept
<1>13. CheckPageBatch(t, b, TRUE)
  BY <1>5, <1>10, <1>11, <1>12 DEF CheckPageBatch, last
<1> QED BY <1>13 DEF b

(* As long as a tenant is in the post-state of a batch that changed some    *)
(* content and left only pages a batch may write, the store takes the       *)
(* rollback of its receipt: it is never refused for a path conflict, a      *)
(* version or a stale baseline (store/batch_memory.go RollbackPageBatch).   *)
THEOREM RollbacksStayAvailable == Spec => []RollbackAvailable
<1>1. Init => IInv /\ PathsAlwaysDiffered
  BY InitHolds, InitPathsDiffer
<1>2. TypeOK /\ IInv /\ PathsAlwaysDiffered /\ [Next]_vars => IInv' /\ PathsAlwaysDiffered'
  BY NextStep, LedgerKeepsPathsDiffering
<1>3. TypeOK /\ IInv /\ PathsAlwaysDiffered => RollbackAvailable
  BY RollbackIsAvailable DEF IInv, RollbackAvailable
<1> QED BY <1>1, <1>2, <1>3, TypeCorrect, PTL DEF Spec

--------------------------------------------------------------------------------
(***************************************************************************)
(* Publishing.  A snapshot, a plan and a publication each keep what was    *)
(* checked when they were made; the states of the target they speak of are *)
(* in the ledger for ever.  What a publication did then follows from the   *)
(* batch having met the very state the plan was made for.                  *)
(***************************************************************************)

ContentsIn(s) == {ContentIn(s, k) : k \in Keys(s)}

SnapshotOK(s) ==
  /\ s.pages \in PageSets(State)
  /\ ValidSnapshot(s)
  /\ VerifyBundle(s.bundle, ContentsIn(s))
  /\ OneMoment(s)

(* p was made by DryRun of the state current, read at revision n. *)
MadeFrom(p, n, current) ==
  \E mapping \in MappingChoices(Keys(p.snapshot), current) :
    /\ Accepted(p.snapshot, current, mapping, p.deletes)
    /\ p.targets = [k \in ID |-> IF k \in Keys(p.snapshot) THEN mapping[k].target ELSE Absent]
    /\ p.batch = [scope |-> Target, revision |-> n, baseline |-> current,
                  targets |-> PlannedTargets(p.snapshot, current, mapping, p.deletes),
                  creates |-> PlannedCreates(p.snapshot, mapping)]

PlanOK(p) ==
  /\ SnapshotOK(p.snapshot)
  /\ \E n \in 0..MaxRevision :
       n + 1 \in DOMAIN read[Target] /\ MadeFrom(p, n, read[Target][n + 1])

(* What PublishedIsApproved says of a plan that took old to new. *)
Approved(p, old, new) ==
  LET s == p.snapshot
      m == p.targets
      targets == {m[k] : k \in Keys(s)} \ {0}
      added == IDsOf(new) \ IDsOf(old)
      fresh == {k \in Keys(s) : m[k] = 0}
  IN /\ old = p.batch.baseline
     /\ \A k \in Keys(s) \ fresh : new[m[k]] # Absent /\ new[m[k]].content = ContentIn(s, k)
     /\ \A i \in p.deletes : new[i] = Absent
     /\ Cardinality(added) = Cardinality(fresh)
     /\ \A k \in fresh : \E i \in added : new[i].content = ContentIn(s, k)
     /\ \A i \in IDsOf(old) \ (targets \union p.deletes) : new[i] = old[i]

(* What PublishedLinksHold says of a snapshot whose publication gave new. *)
LinksKept(s, new) ==
  LET live == {new[i].content.path : i \in IDsOf(new)}
      files == Files[s.bundle]
  IN \A k \in Keys(s) :
       LET c == ContentIn(s, k)
           sources == {c.body, ShellOf[c.body]} \ {Absent}
       IN /\ \A x \in sources :
               /\ Needs[x][c.path] \subseteq files
               /\ \A l \in Links[x][c.path] : l \intersect (live \union files) # {}
          /\ ShellOf[c.body] \in files \union {Absent}
          /\ c.path \in live \ files

PublicationOK(e) ==
  /\ e.revision \in 1..MaxRevision
  /\ e.revision + 1 \in DOMAIN read[Target]
  /\ Approved(e.plan, read[Target][e.revision], read[Target][e.revision + 1])
  /\ LinksKept(e.plan.snapshot, read[Target][e.revision + 1])

(* The inductive invariant of publishing, beyond that of the store. *)
PublishInv ==
  /\ \A s \in {snapshot} \ {NoSnapshot} : SnapshotOK(s)
  /\ \A p \in {plan} \ {NoPlan} : PlanOK(p)
  /\ \A e \in published : PublicationOK(e)

(* SeqOf lists each member of a set of ids once. *)
UpTo(K, k) == {j \in K : j <= k}

LEMMA RankIsInjective ==
  ASSUME NEW K \in SUBSET ID
  PROVE  /\ IsFiniteSet(K) /\ Cardinality(K) \in Nat
         /\ \A k \in K : Cardinality(UpTo(K, k)) \in 1..Cardinality(K)
         /\ \A k, l \in K : Cardinality(UpTo(K, k)) = Cardinality(UpTo(K, l)) => k = l
<1>1. MaxID \in Nat /\ ID \subseteq Int
  BY BoundsAssumption DEF ID
<1>2. IsFiniteSet(ID)
  BY <1>1, FS_Interval DEF ID
<1>3. IsFiniteSet(K) /\ Cardinality(K) \in Nat
  BY <1>2, FS_Subset, FS_CardinalityType
<1>4. ASSUME NEW k \in K
      PROVE  /\ UpTo(K, k) \in SUBSET K /\ k \in UpTo(K, k) /\ IsFiniteSet(UpTo(K, k))
             /\ Cardinality(UpTo(K, k)) \in 1..Cardinality(K)
  <2>1. UpTo(K, k) \in SUBSET K /\ k \in UpTo(K, k)
    BY <1>1 DEF UpTo
  <2>2. IsFiniteSet(UpTo(K, k)) /\ Cardinality(UpTo(K, k)) <= Cardinality(K)
    BY <1>3, <2>1, FS_Subset
  <2>3. Cardinality(UpTo(K, k)) \in Nat /\ Cardinality(UpTo(K, k)) # 0
    BY <2>1, <2>2, FS_CardinalityType, FS_EmptySet
  <2> QED BY <1>3, <2>1, <2>2, <2>3
<1>5. ASSUME NEW k \in K, NEW l \in K, k < l
      PROVE  Cardinality(UpTo(K, k)) # Cardinality(UpTo(K, l))
  <2>1. k \in Int /\ l \in Int
    BY <1>1
  <2>2. ASSUME NEW j \in K, j <= k PROVE j <= l
    <3>1. j \in Int
      BY <1>1
    <3> QED BY <1>5, <2>1, <2>2, <3>1
  <2>3. ~(l <= k) /\ l <= l
    BY <1>5, <2>1
  <2>4. UpTo(K, k) \in SUBSET UpTo(K, l) /\ l \notin UpTo(K, k) /\ l \in UpTo(K, l)
    BY <2>2, <2>3 DEF UpTo
  <2>5. IsFiniteSet(UpTo(K, l))
    BY <1>4
  <2> QED BY <2>4, <2>5, FS_Subset
<1>6. ASSUME NEW k \in K, NEW l \in K, Cardinality(UpTo(K, k)) = Cardinality(UpTo(K, l))
      PROVE  k = l
  <2>1. k < l \/ l < k \/ k = l
    BY <1>1
  <2> QED BY <1>5, <1>6, <2>1
<1> QED BY <1>3, <1>4, <1>6

LEMMA SeqOfLists ==
  ASSUME NEW K \in SUBSET ID
  PROVE  /\ IsFiniteSet(K) /\ Cardinality(K) \in Nat
         /\ DOMAIN SeqOf(K) = 1..Cardinality(K)
         /\ \A n \in DOMAIN SeqOf(K) : SeqOf(K)[n] \in K
         /\ \A m, n \in DOMAIN SeqOf(K) : SeqOf(K)[m] = SeqOf(K)[n] => m = n
         /\ \A k \in K : \E n \in DOMAIN SeqOf(K) : SeqOf(K)[n] = k
<1> DEFINE rank == [k \in K |-> Cardinality(UpTo(K, k))]
           N == Cardinality(K)
<1>1. IsFiniteSet(K) /\ N \in Nat
  BY RankIsInjective
<1>2. rank \in Injection(K, 1..N)
  BY RankIsInjective DEF Injection, IsInjective
<1>3. IsFiniteSet(1..N) /\ Cardinality(1..N) = N
  BY <1>1, FS_Interval
<1>4. rank \in Surjection(K, 1..N)
  BY <1>2, <1>3, FS_Injection
<1>5. ASSUME NEW n \in 1..N
      PROVE  \E k \in K : Cardinality(UpTo(K, k)) = n
  BY <1>4 DEF Surjection
<1>6. ASSUME NEW n \in 1..N
      PROVE  SeqOf(K)[n] \in K /\ Cardinality(UpTo(K, SeqOf(K)[n])) = n
  <2>1. SeqOf(K)[n] = CHOOSE k \in K : Cardinality(UpTo(K, k)) = n
    BY DEF SeqOf, UpTo
  <2> QED BY <1>5, <2>1
<1>7. DOMAIN SeqOf(K) = 1..N
  BY DEF SeqOf
<1>8. ASSUME NEW k \in K
      PROVE  \E n \in 1..N : SeqOf(K)[n] = k
  <2>1. PICK n \in 1..N : n = Cardinality(UpTo(K, k))
    BY RankIsInjective
  <2>2. SeqOf(K)[n] = k
    BY <1>6, <2>1, RankIsInjective
  <2> QED BY <2>2
<1> QED BY <1>1, <1>6, <1>7, <1>8

(* What DryRun plans for one page of the target: a mapped page gets the     *)
(* content of its key, a selected deletion goes, any other page stays.      *)
MappedTo(s, mapping, i) == {k \in Keys(s) : mapping[k].target = i}
FreshKeys(s, mapping) == {k \in Keys(s) : mapping[k].target = 0}

LEMMA KeysHoldContents ==
  ASSUME NEW s, s.pages \in PageSets(State), NEW k \in Keys(s)
  PROVE  k \in ID /\ s.pages[k] \in State /\ ContentIn(s, k) \in Content /\ ContentIn(s, k) # Absent
<1>1. k \in ID /\ s.pages[k] \in State
  BY DEF Keys, IDsOf, PageSets
<1> QED BY <1>1, AbsentAssumption DEF State, ContentIn

LEMMA PlannedPage ==
  ASSUME NEW s, s.pages \in PageSets(State), NEW current \in PageSets(State),
         NEW mapping, NEW deletes, MappingOK(s, current, mapping, deletes),
         NEW i \in ID, NEW m, m = PlannedMutation(s, current, mapping, deletes, i)
  PROVE  /\ \A k \in MappedTo(s, mapping, i) :
              /\ current[i] # Absent
              /\ IF ContentIn(s, k) = current[i].content THEN m = Untouched
                 ELSE m = Mutation("update", current[i].version, ContentIn(s, k))
         /\ MappedTo(s, mapping, i) = {} /\ i \in deletes =>
              current[i] # Absent /\ m = Mutation("delete", current[i].version, Absent)
         /\ MappedTo(s, mapping, i) = {} /\ i \notin deletes => m = Untouched
<1> DEFINE sources == MappedTo(s, mapping, i)
           q == CHOOSE k \in sources : TRUE
           c == ContentIn(s, q)
<1>1. m = CASE sources # {} -> IF c = current[i].content THEN Untouched ELSE MutationTo(current[i], c)
            [] sources = {} /\ i \in deletes -> MutationTo(current[i], Absent)
            [] OTHER -> Untouched
  BY DEF PlannedMutation, MappedTo
<1>2. i # 0
  BY DEF ID
<1>3. deletes \subseteq IDsOf(current)
  BY DEF MappingOK
<1> HIDE DEF sources, q, c
<1>4. ASSUME NEW k \in sources
      PROVE  /\ current[i] # Absent
             /\ IF ContentIn(s, k) = current[i].content THEN m = Untouched
                ELSE m = Mutation("update", current[i].version, ContentIn(s, k))
  <2>1. q \in sources
    BY <1>4 DEF q
  <2>2. k \in Keys(s) /\ q \in Keys(s) /\ mapping[k].target = i /\ mapping[q].target = i
    BY <2>1 DEF sources, MappedTo
  <2>3. q = k
    BY <1>2, <2>2 DEF MappingOK, DistinctTargets
  <2>4. current[i] # Absent
    BY <1>2, <2>2 DEF MappingOK, IDsOf
  <2>5. m = IF c = current[i].content THEN Untouched ELSE MutationTo(current[i], c)
    BY <1>1, <1>4
  <2>6. c = ContentIn(s, k) /\ c # Absent
    BY <2>2, <2>3, KeysHoldContents DEF c
  <2> QED BY <2>4, <2>5, <2>6 DEF MutationTo
<1>5. ASSUME sources = {}, i \in deletes
      PROVE  current[i] # Absent /\ m = Mutation("delete", current[i].version, Absent)
  BY <1>1, <1>3, <1>5 DEF MutationTo, IDsOf
<1>6. ASSUME sources = {}, i \notin deletes
      PROVE  m = Untouched
  BY <1>1, <1>6
<1> QED BY <1>4, <1>5, <1>6 DEF sources

(* What the plan leaves of a page: its content in the outcome, and what     *)
(* the store asks of its mutation.                                          *)
LEMMA PlannedOutcome ==
  ASSUME NEW s, s.pages \in PageSets(State), NEW current \in PageSets(State),
         NEW mapping, NEW deletes, MappingOK(s, current, mapping, deletes),
         NEW i \in ID, NEW m, m = PlannedMutation(s, current, mapping, deletes, i)
  PROVE  /\ MutationType(m)
         /\ m.kind \in {"none", "delete", "update"}
         /\ m.kind # "none" => current[i] # Absent /\ current[i].version = m.version
         /\ \A k \in MappedTo(s, mapping, i) : OutcomeOf(current[i], m) = ContentIn(s, k)
         /\ MappedTo(s, mapping, i) = {} /\ i \in deletes => OutcomeOf(current[i], m) = Absent
         /\ MappedTo(s, mapping, i) = {} /\ i \notin deletes =>
              OutcomeOf(current[i], m) = (IF current[i] = Absent THEN Absent ELSE current[i].content)
<1>1. current[i] \in State \union {Absent}
  BY DEF PageSets
<1>2. CASE MappedTo(s, mapping, i) # {}
  <2>1. ASSUME NEW k \in MappedTo(s, mapping, i)
        PROVE  /\ MutationType(m)
               /\ m.kind \in {"none", "delete", "update"}
               /\ m.kind # "none" => current[i] # Absent /\ current[i].version = m.version
               /\ OutcomeOf(current[i], m) = ContentIn(s, k)
    <3>1. current[i] \in State /\ current[i] # Absent
      BY <1>1, PlannedPage
    <3>2. ContentIn(s, k) \in Content
      BY KeysHoldContents DEF MappedTo
    <3>3. CASE ContentIn(s, k) = current[i].content
      <4>1. m = Untouched
        BY <3>3, PlannedPage
      <4> QED BY <3>1, <3>3, <4>1 DEF Untouched, Mutation, MutationType, OutcomeOf
    <3>4. CASE ContentIn(s, k) # current[i].content
      <4>1. m = Mutation("update", current[i].version, ContentIn(s, k))
        BY <3>4, PlannedPage
      <4> QED BY <3>1, <3>2, <4>1 DEF Mutation, MutationType, OutcomeOf, State
    <3> QED BY <3>3, <3>4
  <2> QED BY <1>2, <2>1
<1>3. CASE MappedTo(s, mapping, i) = {} /\ i \in deletes
  <2>1. current[i] # Absent /\ m = Mutation("delete", current[i].version, Absent)
    BY <1>3, PlannedPage
  <2> QED BY <1>3, <2>1 DEF Mutation, MutationType, OutcomeOf
<1>4. CASE MappedTo(s, mapping, i) = {} /\ i \notin deletes
  <2>1. m = Untouched
    BY <1>4, PlannedPage
  <2> QED BY <1>4, <2>1 DEF Untouched, Mutation, MutationType, OutcomeOf
<1> QED BY <1>2, <1>3, <1>4

(* The new pages of a plan: one for each key mapped to none, none twice.    *)
LEMMA PlannedNewPages ==
  ASSUME NEW s, s.pages \in PageSets(State), ValidSnapshot(s), NEW mapping,
         NEW creates, creates = PlannedCreates(s, mapping)
  PROVE  /\ creates \in Seq(Content)
         /\ Len(creates) = Cardinality(FreshKeys(s, mapping))
         /\ Cardinality(FreshKeys(s, mapping)) \in Nat
         /\ \A n \in DOMAIN creates : \E k \in FreshKeys(s, mapping) : creates[n] = ContentIn(s, k)
         /\ \A k \in FreshKeys(s, mapping) : \E n \in DOMAIN creates : creates[n] = ContentIn(s, k)
         /\ \A m, n \in DOMAIN creates : creates[m].path = creates[n].path => m = n
<1> DEFINE F == FreshKeys(s, mapping)
           new == SeqOf(F)
<1>1. F \in SUBSET ID /\ F \subseteq Keys(s)
  BY DEF FreshKeys, Keys, IDsOf
<1>2. creates = [n \in DOMAIN new |-> ContentIn(s, new[n])]
  BY DEF PlannedCreates, FreshKeys
<1>3. /\ Cardinality(F) \in Nat
      /\ DOMAIN new = 1..Cardinality(F)
      /\ \A n \in DOMAIN new : new[n] \in F
      /\ \A m, n \in DOMAIN new : new[m] = new[n] => m = n
      /\ \A k \in F : \E n \in DOMAIN new : new[n] = k
  BY <1>1, SeqOfLists
<1> HIDE DEF F, new
<1>4. \A n \in DOMAIN new : new[n] \in Keys(s) /\ ContentIn(s, new[n]) \in Content
  BY <1>1, <1>3, KeysHoldContents
<1>5. creates \in [1..Cardinality(F) -> Content] /\ DOMAIN creates = 1..Cardinality(F)
  BY <1>2, <1>3, <1>4
<1>6. creates \in Seq(Content) /\ Len(creates) = Cardinality(F)
  BY <1>3, <1>5
<1>7. ASSUME NEW m \in DOMAIN creates, NEW n \in DOMAIN creates, creates[m].path = creates[n].path
      PROVE  m = n
  <2>1. new[m] = new[n]
    BY <1>2, <1>4, <1>7 DEF ValidSnapshot
  <2> QED BY <1>2, <1>3, <2>1
<1> QED BY <1>2, <1>3, <1>6, <1>7 DEF F

(* What a batch without restores makes of each id of its tenant.            *)
LEMMA AppliedPage ==
  ASSUME TypeOK, LedgerInv, NEW t \in Tenants, NEW b, BatchType(b), NEW i \in ID,
         NEW m, m = b.targets[i], m.kind \in {"none", "delete", "update"},
         NEW old, old = StatesOf(pages, t)[i],
         NEW new, new = StatesOf(PagesAfter(t, b), t)[i]
  PROVE  /\ i - nextID \in DOMAIN b.creates =>
              old = Absent /\ new # Absent /\ new.content = b.creates[i - nextID]
         /\ i - nextID \notin DOMAIN b.creates =>
              /\ m.kind = "none" => new = old
              /\ m.kind = "delete" => new = Absent
              /\ m.kind = "update" => new # Absent /\ new.content = m.content
<1> DEFINE page == PagesAfter(t, b)[i]
<1>1. new = IF page # Absent /\ page.tenant = t THEN PageState(page.version, page.content) ELSE Absent
  BY DEF StatesOf
<1>2. old = IF pages[i] # Absent /\ pages[i].tenant = t
            THEN PageState(pages[i].version, pages[i].content) ELSE Absent
  BY DEF StatesOf
<1>3. MutationType(m) /\ nextID \in Nat /\ i \in Int
  BY DEF BatchType, TypeOK, ID
<1>4. ASSUME i - nextID \in DOMAIN b.creates
      PROVE  old = Absent /\ new # Absent /\ new.content = b.creates[i - nextID]
  <2>1. b.creates[i - nextID] \in Content /\ i > nextID
    BY <1>3, <1>4 DEF BatchType
  <2>2. page = [tenant |-> t, version |-> FirstVersion, content |-> b.creates[i - nextID]]
    BY <1>4 DEF PagesAfter
  <2>3. page \in Page /\ PageState(page.version, page.content) \in State
    BY <2>1, <2>2 DEF Page, State, PageState, FirstVersion
  <2>4. pages[i] = Absent
    BY <2>1, NewIDIsFresh DEF LedgerInv
  <2> HIDE DEF page
  <2> QED BY <1>1, <1>2, <2>2, <2>3, <2>4, AbsentAssumption DEF PageState
<1>5. ASSUME i - nextID \notin DOMAIN b.creates
      PROVE  /\ m.kind = "none" => new = old
             /\ m.kind = "delete" => new = Absent
             /\ m.kind = "update" => new # Absent /\ new.content = m.content
  <2>1. page = Saved(t, pages[i], m)
    BY <1>5 DEF PagesAfter
  <2> HIDE DEF page
  <2>2. CASE m.kind = "none"
    BY <1>1, <1>2, <2>1, <2>2 DEF Saved
  <2>3. CASE m.kind = "delete"
    BY <1>1, <2>1, <2>3 DEF Saved
  <2>4. CASE m.kind = "update"
    <3>1. page = [tenant |-> t, version |-> NextVersion(m.version), content |-> m.content]
      BY <2>1, <2>4 DEF Saved
    <3>2. page \in Page /\ PageState(page.version, page.content) \in State
      BY <1>3, <2>4, <3>1 DEF MutationType, Page, State, PageState, NextVersion
    <3> QED BY <1>1, <2>4, <3>1, <3>2, AbsentAssumption DEF PageState
  <2> QED BY <2>2, <2>3, <2>4
<1> QED BY <1>4, <1>5

(* The batch of a plan. *)
LEMMA PlanBatchType ==
  ASSUME NEW p, p.snapshot.pages \in PageSets(State), ValidSnapshot(p.snapshot),
         NEW n, NEW current \in PageSets(State), MadeFrom(p, n, current)
  PROVE  /\ BatchType(p.batch)
         /\ \A i \in ID : p.batch.targets[i].kind \in {"none", "delete", "update"}
         /\ p.batch.scope = Target /\ p.batch.revision = n /\ p.batch.baseline = current
<1>1. PICK mapping \in MappingChoices(Keys(p.snapshot), current) :
        /\ Accepted(p.snapshot, current, mapping, p.deletes)
        /\ p.batch = [scope |-> Target, revision |-> n, baseline |-> current,
                      targets |-> PlannedTargets(p.snapshot, current, mapping, p.deletes),
                      creates |-> PlannedCreates(p.snapshot, mapping)]
  BY DEF MadeFrom
<1>2. MappingOK(p.snapshot, current, mapping, p.deletes)
  BY <1>1 DEF Accepted
<1>3. ASSUME NEW i \in ID
      PROVE  MutationType(p.batch.targets[i]) /\ p.batch.targets[i].kind \in {"none", "delete", "update"}
  <2>1. p.batch.targets[i] = PlannedMutation(p.snapshot, current, mapping, p.deletes, i)
    BY <1>1 DEF PlannedTargets
  <2> QED BY <1>2, <2>1, PlannedOutcome
<1>4. p.batch.creates \in Seq(Content)
  BY <1>1, PlannedNewPages
<1> QED BY <1>1, <1>3, <1>4 DEF BatchType

(* The target's pages after a publication are those that were approved.     *)
LEMMA PublicationIsApproved ==
  ASSUME TypeOK, LedgerInv, Target \in Tenants,
         NEW p, p.snapshot.pages \in PageSets(State), ValidSnapshot(p.snapshot),
         NEW n, NEW current \in PageSets(State), MadeFrom(p, n, current),
         ApplyBatch(Target, p.batch, "batch.apply")
  PROVE  Approved(p, StatesOf(pages, Target), StatesOf(PagesAfter(Target, p.batch), Target))
<1> DEFINE s == p.snapshot
           b == p.batch
           new == StatesOf(PagesAfter(Target, b), Target)
           N == Len(b.creates)
<1>1. PICK mapping \in MappingChoices(Keys(s), current) :
        /\ Accepted(s, current, mapping, p.deletes)
        /\ p.targets = [k \in ID |-> IF k \in Keys(s) THEN mapping[k].target ELSE Absent]
        /\ b = [scope |-> Target, revision |-> n, baseline |-> current,
                targets |-> PlannedTargets(s, current, mapping, p.deletes),
                creates |-> PlannedCreates(s, mapping)]
  BY DEF MadeFrom
<1> DEFINE F == FreshKeys(s, mapping)
           IsNew(i) == i - nextID \in DOMAIN b.creates
<1>2. BatchType(b) /\ \A i \in ID : b.targets[i].kind \in {"none", "delete", "update"}
  BY PlanBatchType
<1>3. StatesOf(pages, Target) = current /\ b.baseline = current
  BY <1>1 DEF ApplyBatch, CheckPageBatch, BaselineMatches
<1>4. MappingOK(s, current, mapping, p.deletes)
  BY <1>1 DEF Accepted
<1>5. /\ N = Cardinality(F) /\ N \in Nat /\ DOMAIN b.creates = 1..N
      /\ \A k \in F : \E j \in DOMAIN b.creates : b.creates[j] = ContentIn(s, k)
  <2>1. b.creates = PlannedCreates(s, mapping)
    BY <1>1
  <2> HIDE DEF b
  <2> QED BY <2>1, PlannedNewPages
<1>6. nextID \in Nat /\ nextID + N <= MaxID /\ MaxID \in Nat
  BY BoundsAssumption DEF TypeOK, ApplyBatch
<1>7. \A i \in ID : b.targets[i] = PlannedMutation(s, current, mapping, p.deletes, i)
  BY <1>1 DEF PlannedTargets
<1>8. \A k \in Keys(s) : k \in ID /\ p.targets[k] = mapping[k].target
  BY <1>1 DEF Keys, IDsOf
<1> HIDE DEF s, b, new, N, F
<1>9. ASSUME NEW i \in ID
      PROVE  /\ IsNew(i) => current[i] = Absent /\ new[i] # Absent /\ new[i].content = b.creates[i - nextID]
             /\ ~IsNew(i) =>
                  /\ b.targets[i].kind = "none" => new[i] = current[i]
                  /\ b.targets[i].kind = "delete" => new[i] = Absent
                  /\ b.targets[i].kind = "update" => new[i] # Absent /\ new[i].content = b.targets[i].content
  BY <1>2, <1>3, AppliedPage DEF new
<1>10. ASSUME NEW k \in Keys(s), mapping[k].target # 0
       PROVE  /\ new[mapping[k].target] # Absent
              /\ new[mapping[k].target].content = ContentIn(s, k)
  <2> DEFINE i == mapping[k].target
  <2>1. i \in ID /\ current[i] # Absent
    BY <1>4, <1>10 DEF MappingOK, IDsOf
  <2>2. ~IsNew(i)
    BY <1>9, <2>1
  <2>3. k \in MappedTo(s, mapping, i)
    BY DEF MappedTo
  <2>4. IF ContentIn(s, k) = current[i].content THEN b.targets[i] = Untouched
        ELSE b.targets[i] = Mutation("update", current[i].version, ContentIn(s, k))
    BY <1>4, <1>7, <2>1, <2>3, PlannedPage DEF s
  <2> HIDE DEF i
  <2>5. CASE ContentIn(s, k) = current[i].content
    <3>1. new[i] = current[i]
      BY <1>9, <2>1, <2>2, <2>4, <2>5 DEF Untouched, Mutation
    <3> QED BY <2>1, <2>5, <3>1 DEF i
  <2>6. CASE ContentIn(s, k) # current[i].content
    <3>1. b.targets[i].kind = "update" /\ b.targets[i].content = ContentIn(s, k)
      BY <2>4, <2>6 DEF Mutation
    <3> QED BY <1>9, <2>1, <2>2, <3>1 DEF i
  <2> QED BY <2>5, <2>6
<1>11. ASSUME NEW i \in p.deletes
       PROVE  new[i] = Absent
  <2>1. i \in ID /\ current[i] # Absent
    BY <1>4 DEF MappingOK, IDsOf
  <2>2. ~IsNew(i)
    BY <1>9, <2>1
  <2>3. MappedTo(s, mapping, i) = {}
    BY <1>4 DEF MappingOK, DeletesApart, MappedTo
  <2>4. b.targets[i] = Mutation("delete", current[i].version, Absent)
    BY <1>4, <1>7, <2>1, <2>3, PlannedPage DEF s
  <2>5. b.targets[i].kind = "delete"
    BY <2>4 DEF Mutation
  <2> QED BY <1>9, <2>1, <2>2, <2>5
<1>12. ASSUME NEW i \in ID, current[i] # Absent, i \notin p.deletes,
              \A k \in Keys(s) : mapping[k].target # i
       PROVE  new[i] = current[i]
  <2>1. MappedTo(s, mapping, i) = {}
    BY <1>12 DEF MappedTo
  <2>2. b.targets[i] = Untouched
    BY <1>4, <1>7, <1>12, <2>1, PlannedPage DEF s
  <2>3. b.targets[i].kind = "none"
    BY <2>2 DEF Untouched, Mutation
  <2> QED BY <1>9, <1>12, <2>3
<1>13. ASSUME NEW i \in ID
       PROVE  i \in IDsOf(new) \ IDsOf(current) <=> IsNew(i)
  <2>1. CASE IsNew(i)
    BY <1>9, <2>1 DEF IDsOf
  <2>2. CASE ~IsNew(i)
    <3>1. b.targets[i].kind # "none" => current[i] # Absent
      BY <1>4, <1>7, PlannedOutcome DEF s
    <3> QED BY <1>2, <1>9, <2>2, <3>1 DEF IDsOf
  <2> QED BY <2>1, <2>2
<1>14. Cardinality(IDsOf(new) \ IDsOf(current)) = Cardinality(F)
  <2>1. ASSUME NEW i PROVE i \in (nextID + 1)..(nextID + N) <=> i \in ID /\ IsNew(i)
    <3>1. i \in (nextID + 1)..(nextID + N) => i \in ID /\ i - nextID \in 1..N
      BY <1>5, <1>6 DEF ID
    <3>2. i \in ID /\ i - nextID \in 1..N => i \in (nextID + 1)..(nextID + N)
      BY <1>5, <1>6 DEF ID
    <3> QED BY <1>5, <3>1, <3>2
  <2>2. IDsOf(new) \ IDsOf(current) = (nextID + 1)..(nextID + N)
    BY <1>13, <2>1 DEF IDsOf
  <2>3. Cardinality((nextID + 1)..(nextID + N)) = N
    BY <1>5, <1>6, FS_Interval
  <2> QED BY <1>5, <2>2, <2>3
<1>15. ASSUME NEW k \in F
       PROVE  \E i \in IDsOf(new) \ IDsOf(current) : new[i].content = ContentIn(s, k)
  <2>1. PICK j \in 1..N : b.creates[j] = ContentIn(s, k)
    BY <1>5
  <2>2. nextID + j \in ID /\ (nextID + j) - nextID = j
    BY <1>5, <1>6 DEF ID
  <2> QED BY <1>5, <1>9, <1>13, <2>1, <2>2
<1>16. {k \in Keys(s) : p.targets[k] = 0} = F
  BY <1>8 DEF F, FreshKeys
<1>17. /\ \A k \in Keys(s) \ F : new[p.targets[k]] # Absent /\ new[p.targets[k]].content = ContentIn(s, k)
       /\ \A i \in IDsOf(current) \ (({p.targets[k] : k \in Keys(s)} \ {0}) \union p.deletes) :
            new[i] = current[i]
  <2>1. ASSUME NEW k \in Keys(s) \ F
        PROVE  new[p.targets[k]] # Absent /\ new[p.targets[k]].content = ContentIn(s, k)
    <3>1. k \in Keys(s) /\ mapping[k].target # 0
      BY DEF F, FreshKeys
    <3> QED BY <1>8, <1>10, <3>1
  <2>2. ASSUME NEW i \in IDsOf(current) \ (({p.targets[k] : k \in Keys(s)} \ {0}) \union p.deletes)
        PROVE  new[i] = current[i]
    <3>1. i \in ID /\ i # 0 /\ current[i] # Absent
      BY DEF IDsOf, ID
    <3>2. i \notin p.deletes /\ \A k \in Keys(s) : mapping[k].target # i
      BY <1>8, <3>1
    <3> QED BY <1>12, <3>1, <3>2
  <2> QED BY <2>1, <2>2
<1>18. Approved(p, current, new)
  BY <1>3, <1>11, <1>14, <1>15, <1>16, <1>17 DEF Approved, s, b
<1> QED BY <1>3, <1>18 DEF new, b

(* Approval carries the links: every page a link was held by is live.       *)
LEMMA ApprovedPagesAreLive ==
  ASSUME NEW p, NEW old, NEW new, p.snapshot.pages \in PageSets(State), Approved(p, old, new),
         \A k \in Keys(p.snapshot) : p.targets[k] # 0 => p.targets[k] \in ID,
         NEW k \in Keys(p.snapshot)
  PROVE  \E i \in IDsOf(new) : new[i].content = ContentIn(p.snapshot, k)
<1>1. CASE p.targets[k] = 0
  <2>1. PICK i \in IDsOf(new) \ IDsOf(old) : new[i].content = ContentIn(p.snapshot, k)
    BY <1>1 DEF Approved
  <2> QED BY <2>1
<1>2. CASE p.targets[k] # 0
  BY <1>2 DEF Approved, IDsOf
<1> QED BY <1>1, <1>2

LEMMA LinksAreKept ==
  ASSUME NEW s, s.pages \in PageSets(State), VerifyBundle(s.bundle, ContentsIn(s)), NEW new,
         \A k \in Keys(s) : \E i \in IDsOf(new) : new[i].content = ContentIn(s, k)
  PROVE  LinksKept(s, new)
<1> DEFINE live == {new[i].content.path : i \in IDsOf(new)}
           files == Files[s.bundle]
           contents == ContentsIn(s)
<1>1. \A d \in contents : d.path \in live
  BY DEF ContentsIn
<1>2. ASSUME NEW x, NEW base, ReferencesHold(s.bundle, contents, x, base)
      PROVE  /\ Needs[x][base] \subseteq files
             /\ \A l \in Links[x][base] : l \intersect (live \union files) # {}
  <2>1. ASSUME NEW l \in Links[x][base] PROVE l \intersect (live \union files) # {}
    <3>1. LinkHolds(s.bundle, contents, l)
      BY <1>2 DEF ReferencesHold
    <3>2. l \intersect files # {} \/ \E d \in contents : d.path \in l
      BY <3>1 DEF LinkHolds, HasRoute
    <3> HIDE DEF live, files, contents
    <3> QED BY <1>1, <3>2
  <2> QED BY <1>2, <2>1 DEF ReferencesHold
<1> HIDE DEF live, files, contents
<1>3. ASSUME NEW k \in Keys(s), NEW c, c = ContentIn(s, k)
      PROVE  /\ \A x \in {c.body, ShellOf[c.body]} \ {Absent} :
                  /\ Needs[x][c.path] \subseteq files
                  /\ \A l \in Links[x][c.path] : l \intersect (live \union files) # {}
             /\ ShellOf[c.body] \in files \union {Absent}
             /\ c.path \in live \ files
  <2>1. c \in contents /\ c \in Content
    BY <1>3, KeysHoldContents DEF contents, ContentsIn
  <2>2. ~Shadowed(s.bundle, c) /\ TemplateHeld(s.bundle, c) /\ PageReferencesHold(s.bundle, contents, c)
    BY <2>1 DEF VerifyBundle, contents
  <2>3. c.path \in live \ files
    BY <1>1, <2>1, <2>2 DEF Shadowed, files
  <2>4. ShellOf[c.body] \in files \union {Absent}
    BY <2>2 DEF TemplateHeld, files
  <2>5. ReferencesHold(s.bundle, contents, c.body, c.path)
    BY <2>2 DEF PageReferencesHold
  <2>6. ASSUME NEW f, f = ShellOf[c.body], f # Absent
        PROVE  ReferencesHold(s.bundle, contents, f, c.path)
    <3>1. Kind[f] = "shell" /\ f \in files
      BY <2>1, <2>4, <2>6, BundleAssumption DEF Content
    <3>2. ShellReferencesHold(s.bundle, contents, f)
      BY <3>1 DEF VerifyBundle, FileReferencesHold, files, contents
    <3> DEFINE users == {d \in contents : ShellOf[d.body] = f}
    <3>3. c \in users
      BY <2>1, <2>6
    <3>4. \A base \in IF users = {} THEN {NoBase} ELSE {d.path : d \in users} :
            ReferencesHold(s.bundle, contents, f, base)
      BY <3>2 DEF ShellReferencesHold
    <3> HIDE DEF users
    <3> QED BY <3>3, <3>4
  <2> QED BY <1>2, <2>3, <2>4, <2>5, <2>6
<1> QED BY <1>3 DEF LinksKept, live, files

(* While the target stands as it was read, the store takes the plan.        *)
LEMMA PlanApplies ==
  ASSUME NEW p, p.snapshot.pages \in PageSets(State), ValidSnapshot(p.snapshot),
         NEW n, NEW current \in PageSets(State), MadeFrom(p, n, current),
         n = revisions[Target], current = StatesOf(pages, Target), Changes(p.batch)
  PROVE  CheckPageBatch(Target, p.batch, FALSE)
<1> DEFINE s == p.snapshot
           b == p.batch
<1>1. PICK mapping \in MappingChoices(Keys(s), current) :
        /\ Accepted(s, current, mapping, p.deletes)
        /\ b = [scope |-> Target, revision |-> n, baseline |-> current,
                targets |-> PlannedTargets(s, current, mapping, p.deletes),
                creates |-> PlannedCreates(s, mapping)]
  BY DEF MadeFrom
<1>2. BaselineMatches(Target, b)
  BY <1>1 DEF BaselineMatches
<1>3. MappingOK(s, current, mapping, p.deletes)
  BY <1>1 DEF Accepted
<1>4. b.targets = PlannedTargets(s, current, mapping, p.deletes) /\ b.creates = PlannedCreates(s, mapping)
  BY <1>1
<1>5. OutcomeOK(current, b)
  <2> DEFINE d == [targets |-> PlannedTargets(s, current, mapping, p.deletes),
                   creates |-> PlannedCreates(s, mapping)]
  <2>1. d.targets = b.targets /\ d.creates = b.creates
    BY <1>4
  <2>2. PlanChecked(current, d)
    BY <1>1 DEF Accepted
  <2> HIDE DEF d, b
  <2>3. OutcomeOK(current, d)
    BY <2>1, <2>2 DEF PlanChecked, Changes, b
  <2> QED BY <2>1, <2>3 DEF OutcomeOK
<1>6. ASSUME NEW i \in ID
      PROVE  /\ b.targets[i].kind \in {"none", "delete", "update"}
             /\ b.targets[i].kind # "none" => current[i] # Absent /\ current[i].version = b.targets[i].version
  <2>1. b.targets[i] = PlannedMutation(s, current, mapping, p.deletes, i)
    BY <1>4 DEF PlannedTargets
  <2> HIDE DEF b
  <2> QED BY <1>3, <2>1, PlannedOutcome
<1> HIDE DEF b
<1>7. CheckPageBatch(Target, b, FALSE)
  BY <1>2, <1>5, <1>6 DEF CheckPageBatch, Changes, b
<1> QED BY <1>7 DEF b

(* The suggested mapping sends a key to the page at its path, if any.       *)
AtPath(current, c) == {i \in IDsOf(current) : current[i].content.path = c.path}

LEMMA SuggestedTarget ==
  ASSUME NEW s, s.pages \in PageSets(State), NEW current,
         NEW mapping, mapping = SuggestedMapping(s, current), NEW k \in Keys(s)
  PROVE  /\ mapping[k].move = FALSE
         /\ mapping[k] # Absent
         /\ AtPath(current, ContentIn(s, k)) = {} => mapping[k].target = 0
         /\ AtPath(current, ContentIn(s, k)) # {} =>
              mapping[k].target \in AtPath(current, ContentIn(s, k))
<1> DEFINE same == AtPath(current, ContentIn(s, k))
           target == IF same = {} THEN 0 ELSE CHOOSE i \in same : TRUE
<1>1. mapping[k] = [target |-> target, move |-> FALSE]
  BY DEF SuggestedMapping, AtPath, Keys, IDsOf
<1>2. same \subseteq ID
  BY DEF AtPath, IDsOf
<1> HIDE DEF same
<1>3. /\ same = {} => target = 0
      /\ same # {} => target \in same
  OBVIOUS
<1>4. target \in {0} \union ID
  BY <1>2, <1>3
<1> HIDE DEF target
<1>5. mapping[k] # Absent
  <2>1. [target |-> target, move |-> FALSE] \in [target : {0} \union ID, move : BOOLEAN]
    BY <1>4
  <2> QED BY <1>1, <2>1, MappingAssumption
<1> QED BY <1>1, <1>3, <1>5 DEF same

LEMMA SuggestionFits ==
  ASSUME NEW s, s.pages \in PageSets(State), ValidSnapshot(s), NEW current,
         NEW mapping, mapping = SuggestedMapping(s, current)
  PROVE  MappingOK(s, current, mapping, {})
<1>1. IDsOf(mapping) = Keys(s)
  <2>1. ASSUME NEW i \in ID, i \notin Keys(s) PROVE mapping[i] = Absent
    BY <2>1 DEF SuggestedMapping
  <2>2. ASSUME NEW k \in Keys(s) PROVE k \in ID /\ mapping[k] # Absent
    <3>1. mapping[k] # Absent
      BY SuggestedTarget
    <3> QED BY <3>1 DEF Keys, IDsOf
  <2> QED BY <2>1, <2>2 DEF IDsOf
<1>2. ASSUME NEW k \in Keys(s)
      PROVE  /\ mapping[k].target # 0 => mapping[k].target \in IDsOf(current)
             /\ MoveAllowed(current, s, k, mapping[k])
  <2>1. mapping[k].target # 0 => mapping[k].target \in AtPath(current, ContentIn(s, k))
    BY SuggestedTarget
  <2> QED BY <2>1 DEF AtPath, MoveAllowed
<1>3. DistinctTargets(s, mapping)
  <2> SUFFICES ASSUME NEW j \in Keys(s), NEW k \in Keys(s),
                      mapping[j].target = mapping[k].target, mapping[j].target # 0
               PROVE  j = k
    BY DEF DistinctTargets
  <2>1. /\ mapping[j].target \in AtPath(current, ContentIn(s, j))
        /\ mapping[k].target \in AtPath(current, ContentIn(s, k))
    BY SuggestedTarget
  <2>2. ContentIn(s, j).path = ContentIn(s, k).path
    BY <2>1 DEF AtPath
  <2> QED BY <2>2 DEF ValidSnapshot
<1> QED BY <1>1, <1>2, <1>3 DEF MappingOK, DeletesApart

LEMMA SuggestionSucceeds ==
  ASSUME NEW s, s.pages \in PageSets(State), ValidSnapshot(s),
         NEW current \in PageSets(State), PathsDiffer(current),
         NEW mapping, mapping = SuggestedMapping(s, current),
         \A i \in IDsOf(current) \ {mapping[k].target : k \in Keys(s)} : Valid(current[i].content)
  PROVE  Accepted(s, current, mapping, {})
<1> DEFINE b == [targets |-> PlannedTargets(s, current, mapping, {}), creates |-> PlannedCreates(s, mapping)]
           kept == [i \in ID |-> OutcomeOf(current[i], b.targets[i])]
<1>1. MappingOK(s, current, mapping, {})
  BY SuggestionFits
<1>2. b.targets = PlannedTargets(s, current, mapping, {}) /\ b.creates = PlannedCreates(s, mapping)
  OBVIOUS
<1>3. ASSUME NEW i \in ID
      PROVE  /\ \A k \in MappedTo(s, mapping, i) : kept[i] = ContentIn(s, k)
             /\ MappedTo(s, mapping, i) = {} =>
                  kept[i] = (IF current[i] = Absent THEN Absent ELSE current[i].content)
  <2>1. b.targets[i] = PlannedMutation(s, current, mapping, {}, i)
    BY <1>2 DEF PlannedTargets
  <2>2. kept[i] = OutcomeOf(current[i], b.targets[i])
    OBVIOUS
  <2> HIDE DEF kept, b
  <2> QED BY <1>1, <2>1, <2>2, PlannedOutcome
<1>4. /\ \A n \in DOMAIN b.creates : \E k \in FreshKeys(s, mapping) : b.creates[n] = ContentIn(s, k)
      /\ \A m, n \in DOMAIN b.creates : b.creates[m].path = b.creates[n].path => m = n
  <2> HIDE DEF b
  <2> QED BY <1>2, PlannedNewPages
<1>5. \A k \in Keys(s) : Valid(ContentIn(s, k))
  BY DEF ValidSnapshot, Public
<1>6. \A k \in FreshKeys(s, mapping) : k \in Keys(s) /\ AtPath(current, ContentIn(s, k)) = {}
  <2> SUFFICES ASSUME NEW k \in FreshKeys(s, mapping)
               PROVE  k \in Keys(s) /\ AtPath(current, ContentIn(s, k)) = {}
    OBVIOUS
  <2>1. k \in Keys(s) /\ mapping[k].target = 0
    BY DEF FreshKeys
  <2>2. 0 \notin AtPath(current, ContentIn(s, k))
    BY DEF AtPath, IDsOf, ID
  <2> QED BY <2>1, <2>2, SuggestedTarget
<1> HIDE DEF kept, b
(* A kept page is a key's, or one that no key replaces. *)
<1>7. ASSUME NEW i \in ID, kept[i] # Absent
      PROVE  \/ \E k \in Keys(s) : mapping[k].target = i /\ kept[i] = ContentIn(s, k)
             \/ /\ MappedTo(s, mapping, i) = {}
                /\ current[i] # Absent /\ kept[i] = current[i].content
  <2>1. CASE MappedTo(s, mapping, i) = {}
    BY <1>3, <1>7, <2>1
  <2>2. CASE MappedTo(s, mapping, i) # {}
    BY <1>3, <2>2 DEF MappedTo
  <2> QED BY <2>1, <2>2
<1>8. ASSUME NEW i \in ID, kept[i] # Absent PROVE Valid(kept[i])
  <2>1. CASE \E k \in Keys(s) : mapping[k].target = i /\ kept[i] = ContentIn(s, k)
    BY <1>5, <2>1
  <2>2. CASE MappedTo(s, mapping, i) = {} /\ current[i] # Absent /\ kept[i] = current[i].content
    <3>1. i \in IDsOf(current) \ {mapping[k].target : k \in Keys(s)}
      BY <2>2 DEF MappedTo, IDsOf
    <3> QED BY <2>2, <3>1
  <2> QED BY <1>7, <1>8, <2>1, <2>2
(* A kept page at the path of a key is the target of that key. *)
<1>9. ASSUME NEW i \in ID, kept[i] # Absent, NEW k \in Keys(s), kept[i].path = ContentIn(s, k).path
      PROVE  mapping[k].target = i
  <2>1. CASE \E j \in Keys(s) : mapping[j].target = i /\ kept[i] = ContentIn(s, j)
    <3>1. PICK j \in Keys(s) : mapping[j].target = i /\ kept[i] = ContentIn(s, j)
      BY <2>1
    <3>2. j = k
      BY <1>9, <3>1 DEF ValidSnapshot
    <3> QED BY <3>1, <3>2
  <2>2. CASE MappedTo(s, mapping, i) = {} /\ current[i] # Absent /\ kept[i] = current[i].content
    <3>1. i \in AtPath(current, ContentIn(s, k))
      BY <1>9, <2>2 DEF AtPath, IDsOf
    <3>2. mapping[k].target \in AtPath(current, ContentIn(s, k))
      BY <3>1, SuggestedTarget
    <3> QED BY <3>1, <3>2 DEF AtPath, IDsOf, PathsDiffer
  <2> QED BY <1>7, <1>9, <2>1, <2>2
<1>10. ASSUME NEW i \in ID, NEW j \in ID, kept[i] # Absent, kept[j] # Absent, kept[i].path = kept[j].path
       PROVE  i = j
  <2>1. CASE \E k \in Keys(s) : mapping[k].target = i /\ kept[i] = ContentIn(s, k)
    <3>1. PICK k \in Keys(s) : mapping[k].target = i /\ kept[i] = ContentIn(s, k)
      BY <2>1
    <3>2. mapping[k].target = j
      BY <1>9, <1>10, <3>1
    <3> QED BY <3>1, <3>2
  <2>2. CASE \E k \in Keys(s) : mapping[k].target = j /\ kept[j] = ContentIn(s, k)
    <3>1. PICK k \in Keys(s) : mapping[k].target = j /\ kept[j] = ContentIn(s, k)
      BY <2>2
    <3>2. mapping[k].target = i
      BY <1>9, <1>10, <3>1
    <3> QED BY <3>1, <3>2
  <2>3. CASE /\ current[i] # Absent /\ kept[i] = current[i].content
             /\ current[j] # Absent /\ kept[j] = current[j].content
    BY <1>10, <2>3 DEF PathsDiffer
  <2> QED BY <1>7, <1>10, <2>1, <2>2, <2>3
<1>11. ASSUME NEW n \in DOMAIN b.creates
       PROVE  /\ Valid(b.creates[n])
              /\ \A i \in ID : kept[i] # Absent => kept[i].path # b.creates[n].path
  <2>1. PICK k \in FreshKeys(s, mapping) : b.creates[n] = ContentIn(s, k)
    BY <1>4
  <2>2. k \in Keys(s) /\ mapping[k].target = 0
    BY DEF FreshKeys
  <2>3. ASSUME NEW i \in ID, kept[i] # Absent, kept[i].path = b.creates[n].path PROVE FALSE
    <3>1. mapping[k].target = i
      BY <1>9, <2>1, <2>2, <2>3
    <3> QED BY <2>2, <3>1 DEF ID
  <2> QED BY <1>5, <2>1, <2>2, <2>3
<1>12. OutcomeOK(current, b)
  <2>1. \A i \in IDsOf(kept) : i \in ID /\ kept[i] # Absent
    BY DEF IDsOf
  <2>2. /\ \A i \in IDsOf(kept) : Valid(kept[i])
        /\ \A i, j \in IDsOf(kept) : kept[i].path = kept[j].path => i = j
        /\ \A k \in DOMAIN b.creates :
             /\ Valid(b.creates[k])
             /\ \A i \in IDsOf(kept) : kept[i].path # b.creates[k].path
             /\ \A l \in DOMAIN b.creates : b.creates[l].path = b.creates[k].path => k = l
    BY <1>4, <1>8, <1>10, <1>11, <2>1
  <2> QED BY <2>2 DEF OutcomeOK, kept
<1> QED BY <1>1, <1>12 DEF Accepted, PlanChecked, b

--------------------------------------------------------------------------------
(* What publishing relies on stays true while the tenants are edited: the   *)
(* ledger only grows.                                                       *)

ReadsStay ==
  \A t \in Tenants : \A n \in DOMAIN read[t] :
    n \in DOMAIN read'[t] /\ read'[t][n] = read[t][n]

LEMMA LedgerKeepsReads ==
  ASSUME TypeOK, [Ledger!Next]_read
  PROVE  ReadsStay
<1>1. ASSUME NEW u \in Tenants, Ledger!Write(u) PROVE ReadsStay
  <2> DEFINE s == read'[u][Len(read[u]) + 1]
  <2>1. read' = [read EXCEPT ![u] = Append(read[u], s)]
    BY <1>1 DEF Ledger!Write
  <2>2. read[u] \in Seq(PageSets(State)) /\ read \in [Tenants -> Seq(PageSets(State))]
    BY DEF TypeOK
  <2> HIDE DEF s
  <2>3. read'[u] = Append(read[u], s) /\ \A t \in Tenants \ {u} : read'[t] = read[t]
    BY <2>1, <2>2
  <2>4. \A n \in DOMAIN read[u] :
          n \in DOMAIN Append(read[u], s) /\ Append(read[u], s)[n] = read[u][n]
    BY <2>2
  <2>5. ASSUME NEW t \in Tenants, NEW n \in DOMAIN read[t]
        PROVE  n \in DOMAIN read'[t] /\ read'[t][n] = read[t][n]
    <3>1. CASE t = u
      BY <2>3, <2>4, <3>1
    <3>2. CASE t # u
      BY <2>3, <3>2
    <3> QED BY <3>1, <3>2
  <2> QED BY <2>5 DEF ReadsStay
<1>2. CASE read' = read
  BY <1>2 DEF ReadsStay
<1> QED BY <1>1, <1>2 DEF Ledger!Next

LEMMA SnapshotStaysOK ==
  ASSUME ReadsStay, NEW s, SnapshotOK(s)
  PROVE  SnapshotOK(s)'
<1>1. Review \in Tenants
  BY PromotionAssumption
<1>2. OneMoment(s)'
  BY <1>1 DEF SnapshotOK, OneMoment, ReadsStay
<1> QED BY <1>2 DEF SnapshotOK

LEMMA PlanStaysOK ==
  ASSUME ReadsStay, NEW p, PlanOK(p)
  PROVE  PlanOK(p)'
<1>1. Target \in Tenants
  BY PromotionAssumption
<1>2. PICK n \in 0..MaxRevision : n + 1 \in DOMAIN read[Target] /\ MadeFrom(p, n, read[Target][n + 1])
  BY DEF PlanOK
<1>3. n + 1 \in DOMAIN read'[Target] /\ read'[Target][n + 1] = read[Target][n + 1]
  BY <1>1, <1>2 DEF ReadsStay
<1>4. MadeFrom(p, n, read'[Target][n + 1])
  BY <1>2, <1>3
<1>5. SnapshotOK(p.snapshot)'
  BY SnapshotStaysOK DEF PlanOK
<1> QED BY <1>3, <1>4, <1>5 DEF PlanOK

LEMMA PublicationStaysOK ==
  ASSUME TypeOK, ReadsStay, NEW e, PublicationOK(e)
  PROVE  PublicationOK(e)'
<1>1. Target \in Tenants
  BY PromotionAssumption
<1>2. read[Target] \in Seq(PageSets(State))
  BY <1>1 DEF TypeOK
<1>3. e.revision \in DOMAIN read[Target] /\ e.revision + 1 \in DOMAIN read[Target]
  BY <1>2, BoundsAssumption DEF PublicationOK
<1>4. /\ e.revision + 1 \in DOMAIN read'[Target]
      /\ read'[Target][e.revision] = read[Target][e.revision]
      /\ read'[Target][e.revision + 1] = read[Target][e.revision + 1]
  BY <1>1, <1>3 DEF ReadsStay
<1>5. /\ e.revision \in 1..MaxRevision
      /\ Approved(e.plan, read[Target][e.revision], read[Target][e.revision + 1])
      /\ LinksKept(e.plan.snapshot, read[Target][e.revision + 1])
  BY DEF PublicationOK
<1>6. /\ Approved(e.plan, read'[Target][e.revision], read'[Target][e.revision + 1])
      /\ LinksKept(e.plan.snapshot, read'[Target][e.revision + 1])
  BY <1>4, <1>5
<1> QED BY <1>4, <1>5, <1>6 DEF PublicationOK

(* An export freezes what one List of the review tenant returned.           *)
LEMMA ExportIsOK ==
  ASSUME TypeOK, ReadIsCurrent, NEW ids, NEW b, Export(ids, b), NEW s, s = snapshot'
  PROVE  SnapshotOK(s)
<1> DEFINE all == StatesOf(pages, Review)
           R == revisions[Review] + 1
<1>1. /\ s = [pages |-> Frozen(all, ids), bundle |-> b]
      /\ VerifyBundle(b, {ContentIn(s, k) : k \in Keys(s)})
      /\ ValidSnapshot(s)
  BY DEF Export
<1>2. s.pages = Frozen(all, ids) /\ s.bundle = b
  BY <1>1
<1>3. all \in PageSets(State)
  BY StatesOfType DEF TypeOK
<1>4. R \in DOMAIN read[Review] /\ read[Review][R] = all
  BY CurrentInRead, PromotionAssumption
<1> HIDE DEF all, R
<1>5. s.pages \in PageSets(State)
  BY <1>2, <1>3 DEF Frozen, PageSets
<1>6. \A k \in Keys(s) : s.pages[k] = all[k]
  BY <1>2 DEF Keys, IDsOf, Frozen
<1>7. OneMoment(s)
  BY <1>4, <1>6 DEF OneMoment
<1> QED BY <1>1, <1>2, <1>5, <1>7 DEF SnapshotOK, ContentsIn

LEMMA DryRunIsOK ==
  ASSUME TypeOK, ReadIsCurrent, SnapshotOK(snapshot), NEW n \in 0..revisions[Target],
         NEW mapping \in MappingChoices(Keys(snapshot), read[Target][n + 1]), NEW deletes,
         DryRun(n, mapping, deletes), NEW p, p = plan'
  PROVE  PlanOK(p)
<1>1. /\ Accepted(snapshot, read[Target][n + 1], mapping, deletes)
      /\ p = PlanFor(snapshot, n, mapping, deletes)
  BY DEF DryRun
<1>2. /\ p.snapshot = snapshot /\ p.deletes = deletes
      /\ p.targets = [k \in ID |-> IF k \in Keys(snapshot) THEN mapping[k].target ELSE Absent]
      /\ p.batch = [scope |-> Target, revision |-> n, baseline |-> read[Target][n + 1],
                    targets |-> PlannedTargets(snapshot, read[Target][n + 1], mapping, deletes),
                    creates |-> PlannedCreates(snapshot, mapping)]
  BY <1>1 DEF PlanFor, BatchFor
<1>3. MadeFrom(p, n, read[Target][n + 1])
  BY <1>1, <1>2 DEF MadeFrom
<1>4. Target \in Tenants
  BY PromotionAssumption
<1>5. revisions[Target] \in 0..MaxRevision /\ MaxRevision \in Nat
  BY <1>4, BoundsAssumption DEF TypeOK
<1>6. n \in 0..MaxRevision /\ n + 1 \in DOMAIN read[Target]
  BY <1>4, <1>5, CurrentInRead
<1> QED BY <1>2, <1>3, <1>6 DEF PlanOK

(* A plan that the store applied did what was approved, and its links hold. *)
LEMMA PublishIsOK ==
  ASSUME TypeOK, LedgerInv, NEW p, PlanOK(p), ApplyBatch(Target, p.batch, "batch.apply"),
         NEW e, e = [plan |-> p, revision |-> revisions[Target] + 1]
  PROVE  PublicationOK(e)'
<1> DEFINE old == StatesOf(pages, Target)
           newPages == PagesAfter(Target, p.batch)
           new == StatesOf(newPages, Target)
           R == revisions[Target]
<1>1. Target \in Tenants
  BY PromotionAssumption
<1>2. PICK n \in 0..MaxRevision : n + 1 \in DOMAIN read[Target] /\ MadeFrom(p, n, read[Target][n + 1])
  BY DEF PlanOK
<1>3. read[Target][n + 1] \in PageSets(State)
  BY <1>1, <1>2, ReadType
<1>4. /\ p.snapshot.pages \in PageSets(State) /\ ValidSnapshot(p.snapshot)
      /\ VerifyBundle(p.snapshot.bundle, ContentsIn(p.snapshot))
  BY DEF PlanOK, SnapshotOK
<1>5. BatchType(p.batch)
  BY <1>2, <1>3, <1>4, PlanBatchType
<1>6. Approved(p, old, new)
  BY <1>1, <1>2, <1>3, <1>4, PublicationIsApproved
<1>7. \A k \in Keys(p.snapshot) : p.targets[k] # 0 => p.targets[k] \in ID
  <2> DEFINE current == read[Target][n + 1]
  <2>1. PICK mapping \in MappingChoices(Keys(p.snapshot), current) :
          /\ Accepted(p.snapshot, current, mapping, p.deletes)
          /\ p.targets = [k \in ID |-> IF k \in Keys(p.snapshot) THEN mapping[k].target ELSE Absent]
    BY <1>2 DEF MadeFrom
  <2> HIDE DEF current
  <2>2. \A k \in Keys(p.snapshot) : mapping[k].target # 0 => mapping[k].target \in ID
    BY <2>1 DEF Accepted, MappingOK, IDsOf
  <2>3. \A k \in Keys(p.snapshot) : k \in ID
    BY DEF Keys, IDsOf
  <2> QED BY <2>1, <2>2, <2>3
<1>8. LinksKept(p.snapshot, new)
  <2> HIDE DEF old, new
  <2>1. \A k \in Keys(p.snapshot) : \E i \in IDsOf(new) : new[i].content = ContentIn(p.snapshot, k)
    BY <1>4, <1>6, <1>7, ApprovedPagesAreLive
  <2> QED BY <1>4, <2>1, LinksAreKept
<1>9. /\ read'[Target][R + 1] = old /\ read'[Target][R + 2] = new
      /\ R + 2 \in DOMAIN read'[Target] /\ R \in Nat /\ R < MaxRevision
  <2>1. newPages \in PageSets(Page)
    BY <1>1, <1>5, PagesAfterType
  <2>2. PICK before, after : Commit(Target, newPages, "batch.apply", before, after)
    BY DEF ApplyBatch
  <2>3. R < MaxRevision
    BY <2>2 DEF Commit
  <2> HIDE DEF newPages
  <2> QED BY <1>1, <2>1, <2>2, <2>3, CommitReads, CurrentInRead DEF LedgerInv
<1>10. e.revision = R + 1 /\ e.plan = p
  OBVIOUS
<1>11. e.revision \in 1..MaxRevision /\ e.revision + 1 = R + 2
  BY <1>9, <1>10, BoundsAssumption
<1> HIDE DEF old, new, R
<1>12. /\ Approved(e.plan, read'[Target][e.revision], read'[Target][e.revision + 1])
       /\ LinksKept(e.plan.snapshot, read'[Target][e.revision + 1])
       /\ e.revision + 1 \in DOMAIN read'[Target]
  BY <1>6, <1>8, <1>9, <1>10, <1>11
<1> QED BY <1>11, <1>12 DEF PublicationOK

(* The invariants of the store together with those of publishing. *)
PublishingInv == TypeOK /\ IInv /\ PathsAlwaysDiffered /\ PublishInv

(* Publishing changes the store only by operations of the store; a batch    *)
(* with more creates than a caller of Next would make is one all the same.  *)
LEMMA EditsAreStoreSteps ==
  ASSUME Edit
  PROVE  Next
<1>1. Review \in Tenants /\ Target \in Tenants /\ Editable \subseteq Tenants
  BY PromotionAssumption DEF Editable
<1> QED BY <1>1 DEF Edit, Next

LEMMA PublishingStoreStep ==
  ASSUME TypeOK, IInv, PublishInv, [PromotionNext]_promotionVars
  PROVE  TypeOK' /\ IInv' /\ [Ledger!Next]_read
<1>1. ReadOfEveryRevision
  BY DEF IInv, LedgerInv, ReadIsCurrent, ReadOfEveryRevision
<1>2. CASE Edit \/ UNCHANGED vars
  <2>1. [Next]_vars
    BY <1>2, EditsAreStoreSteps
  <2> QED BY <1>1, <2>1, NextKeepsType, NextStep
<1>3. CASE Publish
  <2>1. plan # NoPlan /\ ApplyBatch(Target, plan.batch, "batch.apply")
    BY <1>3 DEF Publish
  <2>2. PICK p : p = plan
    OBVIOUS
  <2>3. PlanOK(p)
    BY <2>1, <2>2 DEF PublishInv
  <2>4. Target \in Tenants
    BY PromotionAssumption
  <2>5. PICK n \in 0..MaxRevision : n + 1 \in DOMAIN read[Target] /\ MadeFrom(p, n, read[Target][n + 1])
    BY <2>3 DEF PlanOK
  <2>6. read[Target][n + 1] \in PageSets(State) /\ p.snapshot.pages \in PageSets(State) /\ ValidSnapshot(p.snapshot)
    BY <2>3, <2>4, <2>5, ReadType DEF PlanOK, SnapshotOK
  <2>7. BatchType(p.batch) /\ \A i \in ID : p.batch.targets[i].kind # "restore"
    BY <2>5, <2>6, PlanBatchType
  <2>8. ApplyBatch(Target, p.batch, "batch.apply")
    BY <2>1, <2>2
  <2>9. TypeOK'
    BY <2>4, <2>7, <2>8, ApplyBatchType DEF Events
  <2>10. IInv' /\ Ledger!Write(Target)
    BY <2>4, <2>7, <2>8, BatchStep
  <2> QED BY <2>4, <2>9, <2>10 DEF Ledger!Next
<1>4. Edit \/ Publish \/ UNCHANGED vars
  BY DEF PromotionNext, promotionVars, Export, Plans, DryRun
<1> QED BY <1>2, <1>3, <1>4

LEMMA PublishingStep ==
  ASSUME TypeOK, IInv, PublishInv, [PromotionNext]_promotionVars
  PROVE  PublishInv'
<1>1. ReadsStay
  BY PublishingStoreStep, LedgerKeepsReads
<1>2. ASSUME NEW s \in {snapshot} \ {NoSnapshot} PROVE SnapshotOK(s)'
  BY <1>1, SnapshotStaysOK DEF PublishInv
<1>3. ASSUME NEW p \in {plan} \ {NoPlan} PROVE PlanOK(p)'
  BY <1>1, PlanStaysOK DEF PublishInv
<1>4. ASSUME NEW e \in published PROVE PublicationOK(e)'
  BY <1>1, PublicationStaysOK DEF PublishInv
<1>5. ASSUME NEW ids, NEW b, Export(ids, b) PROVE PublishInv'
  <2>1. plan' = NoPlan /\ published' = published /\ UNCHANGED vars
    BY <1>5 DEF Export
  <2>2. PICK s : s = snapshot'
    OBVIOUS
  <2>3. SnapshotOK(s)
    BY <1>5, <2>2, ExportIsOK DEF IInv, LedgerInv
  <2>4. SnapshotOK(s)'
    BY <1>1, <2>3, SnapshotStaysOK
  <2> QED BY <1>4, <2>1, <2>2, <2>4 DEF PublishInv
<1>6. ASSUME NEW n \in 0..revisions[Target],
             NEW mapping \in MappingChoices(Keys(snapshot), read[Target][n + 1]), NEW deletes,
             DryRun(n, mapping, deletes)
      PROVE  PublishInv'
  <2>1. snapshot # NoSnapshot /\ snapshot' = snapshot /\ published' = published
    BY <1>6 DEF DryRun
  <2>2. SnapshotOK(snapshot)
    BY <2>1 DEF PublishInv
  <2>3. PICK p : p = plan'
    OBVIOUS
  <2>4. PlanOK(p)
    BY <1>6, <2>2, <2>3, DryRunIsOK DEF IInv, LedgerInv
  <2>5. PlanOK(p)'
    BY <1>1, <2>4, PlanStaysOK
  <2> QED BY <1>2, <1>4, <2>1, <2>3, <2>5 DEF PublishInv
<1>7. ASSUME Publish PROVE PublishInv'
  <2>1. /\ plan # NoPlan /\ ApplyBatch(Target, plan.batch, "batch.apply")
        /\ published' = published \union {[plan |-> plan, revision |-> revisions[Target] + 1]}
        /\ snapshot' = snapshot /\ plan' = plan
    BY <1>7 DEF Publish
  <2>2. PICK p : p = plan
    OBVIOUS
  <2>3. PICK e : e = [plan |-> p, revision |-> revisions[Target] + 1]
    OBVIOUS
  <2>4. PlanOK(p) /\ ApplyBatch(Target, p.batch, "batch.apply")
    BY <2>1, <2>2 DEF PublishInv
  <2>5. PublicationOK(e)'
    BY <2>3, <2>4, PublishIsOK DEF IInv
  <2>6. published' = published \union {e}
    BY <2>1, <2>2, <2>3
  <2> QED BY <1>2, <1>3, <1>4, <2>1, <2>5, <2>6 DEF PublishInv
<1>8. CASE Edit \/ UNCHANGED promotionVars
  <2>1. snapshot' = snapshot /\ plan' = plan /\ published' = published
    BY <1>8 DEF Edit, promotionVars
  <2> QED BY <1>2, <1>3, <1>4, <2>1 DEF PublishInv
<1> QED BY <1>5, <1>6, <1>7, <1>8 DEF PromotionNext, Plans

LEMMA PublishingInitHolds == PromotionInit => PublishingInv
<1> SUFFICES ASSUME PromotionInit PROVE PublishingInv
  OBVIOUS
<1>1. Init /\ snapshot = NoSnapshot /\ plan = NoPlan /\ published = {}
  BY DEF PromotionInit
<1>2. IInv /\ PathsAlwaysDiffered
  BY <1>1, InitHolds, InitPathsDiffer
<1>3. TypeOK
  BY <1>1, InitType
<1>4. PublishInv
  BY <1>1 DEF PublishInv
<1> QED BY <1>2, <1>3, <1>4 DEF PublishingInv

LEMMA PublishingIsInvariant == PromotionSpec => []PublishingInv
<1>1. PublishingInv /\ [PromotionNext]_promotionVars => PublishingInv'
  BY PublishingStoreStep, PublishingStep, LedgerKeepsPathsDiffering DEF PublishingInv
<1> QED BY <1>1, PublishingInitHolds, PTL DEF PromotionSpec

(* Whatever editors do in either tenant since the export and since the      *)
(* plan, a publication does what was approved and nothing else: mapped      *)
(* pages get the snapshot's contents under their ids, selected deletions    *)
(* go, each new key is one new page, and all other pages stay               *)
(* (promotion/plan.go DryRun with store.ApplyPageBatch).                    *)
THEOREM PublicationsAreApproved == PromotionSpec => []PublishedIsApproved
<1>1. PublishingInv => PublishedIsApproved
  <2> SUFFICES ASSUME PublishInv PROVE PublishedIsApproved
    BY DEF PublishingInv
  <2>1. snapshot # NoSnapshot => OneMoment(snapshot)
    BY DEF PublishInv, SnapshotOK
  <2>2. \A e \in published : Approved(e.plan, read[Target][e.revision], read[Target][e.revision + 1])
    BY DEF PublishInv, PublicationOK
  <2> QED BY <2>1, <2>2 DEF PublishedIsApproved, Approved
<1> QED BY <1>1, PublishingIsInvariant, PTL

(* The links that VerifyBundle checked at the export hold in the target     *)
(* once the pages are published, whatever was edited in between.            *)
THEOREM PublishedLinksStayWhole == PromotionSpec => []PublishedLinksHold
<1>1. PublishingInv => PublishedLinksHold
  <2> SUFFICES ASSUME PublishInv PROVE PublishedLinksHold
    BY DEF PublishingInv
  <2>1. \A e \in published : LinksKept(e.plan.snapshot, read[Target][e.revision + 1])
    BY DEF PublishInv, PublicationOK
  <2> QED BY <2>1 DEF PublishedLinksHold, LinksKept
<1> QED BY <1>1, PublishingIsInvariant, PTL

(* DryRun takes the mapping SuggestedMapping makes, and the store takes     *)
(* the plan's batch for as long as the target stands as it was read.        *)
THEOREM PlansApply == PromotionSpec => []PlanIsApplicable
<1>1. PublishingInv => PlanIsApplicable
  <2> SUFFICES ASSUME TypeOK, LedgerInv, PathsAlwaysDiffered, PublishInv PROVE PlanIsApplicable
    BY DEF PublishingInv, IInv
  <2>1. Target \in Tenants
    BY PromotionAssumption
  <2>2. /\ revisions[Target] + 1 \in DOMAIN read[Target]
        /\ read[Target][revisions[Target] + 1] = StatesOf(pages, Target)
    BY <2>1, CurrentInRead DEF LedgerInv
  <2>3. StatesOf(pages, Target) \in PageSets(State) /\ PathsDiffer(StatesOf(pages, Target))
    BY <2>1, <2>2, ReadType DEF PathsAlwaysDiffered
  <2>4. SuggestionIsAccepted
    <3> DEFINE current == StatesOf(pages, Target)
               m == SuggestedMapping(snapshot, current)
    <3> SUFFICES ASSUME snapshot # NoSnapshot,
                        \A i \in IDsOf(current) \ {m[k].target : k \in Keys(snapshot)} : Valid(current[i].content)
                 PROVE  Accepted(snapshot, current, m, {})
      BY DEF SuggestionIsAccepted
    <3>1. snapshot.pages \in PageSets(State) /\ ValidSnapshot(snapshot)
      BY DEF PublishInv, SnapshotOK
    <3> HIDE DEF current
    <3> QED BY <2>3, <3>1, SuggestionSucceeds DEF current
  <2>5. ASSUME plan # NoPlan, plan.batch.revision = revisions[Target], Changes(plan.batch)
        PROVE  CheckPageBatch(Target, plan.batch, FALSE)
    <3>1. PlanOK(plan)
      BY <2>5 DEF PublishInv
    <3>2. PICK n \in 0..MaxRevision :
            n + 1 \in DOMAIN read[Target] /\ MadeFrom(plan, n, read[Target][n + 1])
      BY <3>1 DEF PlanOK
    <3>3. plan.snapshot.pages \in PageSets(State) /\ ValidSnapshot(plan.snapshot)
      BY <3>1 DEF PlanOK, SnapshotOK
    <3>4. plan.batch.revision = n
      BY <3>2 DEF MadeFrom
    <3>5. read[Target][n + 1] = StatesOf(pages, Target) /\ n = revisions[Target]
      BY <2>2, <2>5, <3>4
    <3> QED BY <2>3, <2>5, <3>2, <3>3, <3>5, PlanApplies
  <2> QED BY <2>4, <2>5 DEF PlanIsApplicable
<1> QED BY <1>1, PublishingIsInvariant, PTL

(* Publishing is built of store operations only: the store keeps every      *)
(* promise of its own while exports, plans and publications go on.          *)
THEOREM PublishingKeepsTheStoreSafe ==
  PromotionSpec =>
    [](UniquePaths /\ VersionsNeverRepeat /\ OneTenantPerID /\ HistoryIsLossless /\ RollbackRestores
       /\ RollbackAvailable)
<1>1. PublishingInv => UniquePaths /\ VersionsNeverRepeat /\ OneTenantPerID /\ HistoryIsLossless /\ RollbackRestores
                       /\ RollbackAvailable
  BY RollbackIsAvailable DEF PublishingInv, IInv, LedgerInv, RollbackAvailable
<1> QED BY <1>1, PublishingIsInvariant, PTL

(* Seen through the ledger, publishing is a behaviour of the store.         *)
THEOREM PublishingImplementsLedger == PromotionSpec => LedgerSpec
<1>1. PromotionInit => Ledger!Init
  BY InitHolds DEF PromotionInit
<1>2. PublishingInv /\ [PromotionNext]_promotionVars => [Ledger!Next]_read
  BY PublishingStoreStep DEF PublishingInv
<1> QED BY <1>1, <1>2, PublishingIsInvariant, PTL DEF PromotionSpec, LedgerSpec, Ledger!Spec

================================================================================
