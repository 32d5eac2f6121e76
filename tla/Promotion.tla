------------------------------- MODULE Promotion -------------------------------
(***************************************************************************)
(* Publishing from a review tenant to a production tenant of one page      *)
(* store (promotion/snapshot.go, plan.go, bundle.go): Export freezes       *)
(* selected pages with the bundle they need, DryRun makes a plan of them   *)
(* for a state of the target somebody read, and the store applies the      *)
(* plan's batch later.  Editors go on saving in both tenants all the time. *)
(***************************************************************************)
EXTENDS PageStore, FiniteSets

CONSTANTS
  Review,      \* the tenant the pages are reviewed in
  Target,      \* the tenant they are published to
  Reserved,    \* paths the host keeps for itself: /api, /admin, /cms, /healthz
  Assets,      \* files at no page's path: images, styles, shells (page templates)
  Kind,        \* the kind of a file, see Kinds
  Bundles,     \* immutable version directories
  Files,       \* Files[b]: the assets of b and the paths at which it has a file
  ShellOf,     \* ShellOf[body]: the shell of the body's template, or Absent
  NoBase,      \* no page: the base of what is read where it lies
  Nowhere,     \* what a relative reference without a base refers to: no file
  Links,       \* Links[x][base]: the links of body or file x read at base, each as
               \* the paths that serve it (in the page's own subsite or the root)
  Needs,       \* Needs[x][base]: the assets it refers to
  NoSnapshot,
  NoPlan,
  MaxPublished,\* bound: plans applied
  MaxReviewed, \* bound: saves in the review tenant
  MaxEdits     \* bound: saves, deletes and rollbacks in both

ASSUME PromotionAssumption ==
  /\ Review \in Tenants /\ Target \in Tenants /\ Review # Target
  /\ Reserved \subseteq Paths
  /\ {MaxPublished, MaxReviewed, MaxEdits} \subseteq Nat

(* irregular: a symbolic link, a device; unclean: a hidden or odd name;    *)
(* refused: an XML document, a shell without its body marker; a document   *)
(* is a style sheet or an HTML page.                                       *)
Kinds == {"irregular", "unclean", "refused", "shell", "document", "plain"}
Sources == Bodies \union Assets \union Paths
Bases == Paths \union {NoBase}

ASSUME BundleAssumption ==
  /\ Kind \in [Assets \union Paths -> Kinds]
  /\ Files \in [Bundles -> SUBSET (Assets \union Paths)]
  /\ ShellOf \in [Bodies -> {f \in Assets : Kind[f] = "shell"} \union {Absent}]
  /\ Links \in [Sources -> [Bases -> SUBSET SUBSET Paths]]
  /\ Needs \in [Sources -> [Bases -> SUBSET (Assets \union {Nowhere})]]
  /\ NoBase \notin Paths /\ Nowhere \notin Assets \union Paths

\* A key that a mapping names is told from one it does not.
ASSUME MappingAssumption == Absent \notin [target : {0} \union ID, move : BOOLEAN]

VARIABLES
  snapshot,   \* the snapshot under approval, or NoSnapshot
  plan,       \* the plan made of it, or NoPlan
  published   \* the plans applied, with the revision each one gave the target

promotionVars == <<vars, snapshot, plan, published>>

(* A snapshot holds pages, by their ids in the review tenant and Absent    *)
(* where it has none, and a bundle.  A page's key is the source site and   *)
(* its id; the id is enough here.                                          *)
Keys(s) == IDsOf(s.pages)
ContentIn(s, k) == s.pages[k].content

(* mapping[k] names the target page of key k, 0 for a new one, and whether *)
(* it may move; it is Absent for a key the mapping does not name.  A plan  *)
(* holds the snapshot, the target of each key, the pages to delete and the *)
(* batch made of them.                                                     *)

--------------------------------------------------------------------------------
(* Bundles. *)

(* cleanFile *)
CleanFile(f) == Kind[f] # "unclean"

(* BundleManifest.Validate *)
ValidManifest(files) == files # {} /\ \A f \in files : CleanFile(f)

(* InventoryBundle *)
Inventoried(b) == (\A f \in Files[b] : Kind[f] # "irregular") /\ ValidManifest(Files[b])

(* publicPageContent *)
Public(c) == Valid(c) /\ c.path \notin Reserved

HasRoute(l, contents) == \E d \in contents : d.path \in l

(* checkRef: a resource is a file of the bundle, a link may also lead to a *)
(* selected page.                                                          *)
LinkHolds(b, contents, l) ==
  l \intersect Reserved = {} /\ (l \intersect Files[b] # {} \/ HasRoute(l, contents))

ReferencesHold(b, contents, x, base) ==
  Needs[x][base] \subseteq Files[b] /\ \A l \in Links[x][base] : LinkHolds(b, contents, l)

(* No file of the bundle may stand at the path of a selected page. *)
Shadowed(b, c) == c.path \in Files[b]

TemplateHeld(b, c) == ShellOf[c.body] \in Files[b] \union {Absent}

PageReferencesHold(b, contents, c) == ReferencesHold(b, contents, c.body, c.path)

ShellReadInPlace(b, contents, f) == ReferencesHold(b, contents, f, NoBase)

(* A shell is read at every selected page that uses it. *)
ShellReferencesHold(b, contents, f) ==
  LET users == {c \in contents : ShellOf[c.body] = f}
  IN \A base \in IF users = {} THEN {NoBase} ELSE {c.path : c \in users} :
       ReferencesHold(b, contents, f, base)

FileReferencesHold(b, contents, f) ==
  /\ Kind[f] # "refused"
  /\ Kind[f] = "shell" => ShellReferencesHold(b, contents, f)
  /\ Kind[f] = "document" => ReferencesHold(b, contents, f, NoBase)

VerifyBundle(b, contents) ==
  /\ Inventoried(b)
  /\ \A c \in contents : Public(c) /\ ~Shadowed(b, c) /\ TemplateHeld(b, c)
  /\ \A c \in contents : PageReferencesHold(b, contents, c)
  /\ \A f \in Files[b] : FileReferencesHold(b, contents, f)

(* Snapshot.Validate: at least one page, all public, no two at one path. *)
ValidSnapshot(s) ==
  /\ Keys(s) # {}
  /\ \A k \in Keys(s) : Public(ContentIn(s, k))
  /\ \A j, k \in Keys(s) : ContentIn(s, j).path = ContentIn(s, k).path => j = k
  /\ ValidManifest(Files[s.bundle])

Frozen(all, ids) == [i \in ID |-> IF i \in ids THEN all[i] ELSE Absent]

(* Export: ids are pages of the review tenant, read with one List. *)
Export(ids, b) ==
  LET all == StatesOf(pages, Review)
      s == [pages |-> Frozen(all, ids), bundle |-> b]
  IN /\ VerifyBundle(b, {ContentIn(s, k) : k \in Keys(s)})
     /\ ValidSnapshot(s)
     /\ snapshot' = s
     /\ plan' = NoPlan
     /\ UNCHANGED <<vars, published>>

--------------------------------------------------------------------------------
(* DryRun. *)

(* Moves need a mapping that allows them. *)
MoveAllowed(current, s, k, m) ==
  m.target # 0 /\ current[m.target].content.path # ContentIn(s, k).path => m.move

TargetsReused(s, mapping) == TRUE
DistinctTargets(s, mapping) ==
  \A j, k \in Keys(s) : mapping[j].target = mapping[k].target => mapping[j].target = 0 \/ j = k

DeletesApart(s, mapping, deletes) == \A k \in Keys(s) : mapping[k].target \notin deletes

(* The mapping names each key of the snapshot once. *)
MappingOK(s, current, mapping, deletes) ==
  /\ IDsOf(mapping) = Keys(s)
  /\ \A k \in Keys(s) :
       /\ mapping[k].target # 0 => mapping[k].target \in IDsOf(current)
       /\ MoveAllowed(current, s, k, mapping[k])
  /\ DistinctTargets(s, mapping)
  /\ deletes \subseteq IDsOf(current)
  /\ DeletesApart(s, mapping, deletes)

(* A page that is the same already gets no mutation. *)
PlannedMutation(s, current, mapping, deletes, i) ==
  LET sources == {k \in Keys(s) : mapping[k].target = i}
  IN CASE sources # {} ->
            LET c == ContentIn(s, CHOOSE k \in sources : TRUE)
            IN IF c = current[i].content THEN Untouched ELSE MutationTo(current[i], c)
       [] sources = {} /\ i \in deletes -> MutationTo(current[i], Absent)
       [] OTHER -> Untouched

\* The keys in the order of the source ids.
SeqOf(K) == [n \in 1..Cardinality(K) |->
  CHOOSE k \in K : Cardinality({j \in K : j <= k}) = n]

PlannedCreates(s, mapping) ==
  LET new == SeqOf({k \in Keys(s) : mapping[k].target = 0})
  IN [n \in DOMAIN new |-> ContentIn(s, new[n])]

PlannedTargets(s, current, mapping, deletes) ==
  [i \in ID |-> PlannedMutation(s, current, mapping, deletes, i)]

PlanFor(s, n, mapping, deletes) ==
  LET current == read[Target][n + 1]
  IN [snapshot |-> s, deletes |-> deletes,
      targets |-> [k \in ID |-> IF k \in Keys(s) THEN mapping[k].target ELSE Absent],
      batch |-> BatchFor(Target, n, PlannedTargets(s, current, mapping, deletes),
                         PlannedCreates(s, mapping))]

Changes(b) == b.creates # << >> \/ \E i \in ID : b.targets[i].kind # "none"

PlanUnchecked(current, b) == TRUE

(* CheckPageBatch against the very state the batch was made for; a plan    *)
(* that changes nothing is not checked.                                    *)
PlanChecked(current, b) == Changes(b) => OutcomeOK(current, b)

Accepted(s, current, mapping, deletes) ==
  /\ MappingOK(s, current, mapping, deletes)
  /\ PlanChecked(current, [targets |-> PlannedTargets(s, current, mapping, deletes),
                           creates |-> PlannedCreates(s, mapping)])

(* The caller may have read the target at any earlier revision. *)
DryRun(n, mapping, deletes) ==
  /\ snapshot # NoSnapshot
  /\ Accepted(snapshot, read[Target][n + 1], mapping, deletes)
  /\ plan' = PlanFor(snapshot, n, mapping, deletes)
  /\ UNCHANGED <<vars, snapshot, published>>

(* SuggestedMapping: the target page at the path of each selected one. *)
SuggestedMapping(s, current) ==
  [k \in ID |->
     IF k \notin Keys(s) THEN Absent
     ELSE LET same == {i \in IDsOf(current) : current[i].content.path = ContentIn(s, k).path}
          IN [target |-> IF same = {} THEN 0 ELSE CHOOSE i \in same : TRUE, move |-> FALSE]]

(* store.ApplyPageBatch with the plan's batch. *)
Publish ==
  /\ plan # NoPlan
  /\ Cardinality(published) < MaxPublished
  /\ ApplyBatch(Target, plan.batch, "batch.apply")
  /\ published' = published \union {[plan |-> plan, revision |-> revisions[Target] + 1]}
  /\ UNCHANGED <<snapshot, plan>>

--------------------------------------------------------------------------------
PromotionInit ==
  /\ Init
  /\ snapshot = NoSnapshot
  /\ plan = NoPlan
  /\ published = {}

Editable == {Target} \union (IF revisions[Review] < MaxReviewed THEN {Review} ELSE {})

(* Ordinary saves and deletes in either tenant, and rollbacks in the target. *)
Edit ==
  /\ revisions[Review] + revisions[Target] - Cardinality(published) < MaxEdits
  /\ \/ \E t \in Editable, c \in Content : Create(t, c)
     \/ \E t \in Editable, h \in Held, c \in Content : Update(t, h[1], h[2], c)
     \/ \E h \in Held : Delete(Target, h[1], h[2])
     \/ \E r \in receipts : RollbackPageBatch(Target, r)
  /\ UNCHANGED <<snapshot, plan, published>>

(* Mappings to pages the caller has read, moves allowed or not. *)
MappingChoices(K, current) ==
  {[i \in ID |-> IF i \in K THEN [target |-> f[i], move |-> m] ELSE Absent] :
     f \in [K -> {0} \union IDsOf(current)], m \in BOOLEAN}

Plans ==
  /\ snapshot # NoSnapshot
  /\ \E n \in 0..revisions[Target] :
       LET current == read[Target][n + 1]
       IN \E mapping \in MappingChoices(Keys(snapshot), current) :
            \E deletes \in SUBSET IDsOf(current) : DryRun(n, mapping, deletes)

PromotionNext ==
  \/ Edit
  \/ \E ids \in SUBSET IDsOf(StatesOf(pages, Review)) \ {{}}, b \in Bundles : Export(ids, b)
  \/ Plans
  \/ Publish

PromotionSpec == PromotionInit /\ [][PromotionNext]_promotionVars

--------------------------------------------------------------------------------
(* Properties. *)

(* The pages of a snapshot were all on the review tenant at one moment, in *)
(* the versions it names: saves that follow the export are not mixed in.   *)
OneMoment(s) == \E n \in DOMAIN read[Review] : \A k \in Keys(s) : s.pages[k] = read[Review][n][k]

(* What a publication did is what was approved, for whatever happened in   *)
(* either tenant since the export and since the plan: each mapped page     *)
(* holds the snapshot's content and keeps its id, each selected deletion   *)
(* is gone, each new key is one new page, and every other page is exactly  *)
(* as it was, in its version too.                                          *)
PublishedIsApproved ==
  /\ snapshot # NoSnapshot => OneMoment(snapshot)
  /\ \A e \in published :
       LET s == e.plan.snapshot
           m == e.plan.targets
           old == read[Target][e.revision]
           new == read[Target][e.revision + 1]
           targets == {m[k] : k \in Keys(s)} \ {0}
           added == IDsOf(new) \ IDsOf(old)
           fresh == {k \in Keys(s) : m[k] = 0}
       IN /\ old = e.plan.batch.baseline
          /\ \A k \in Keys(s) \ fresh : new[m[k]] # Absent /\ new[m[k]].content = ContentIn(s, k)
          /\ \A i \in e.plan.deletes : new[i] = Absent
          /\ Cardinality(added) = Cardinality(fresh)
          /\ \A k \in fresh : \E i \in added : new[i].content = ContentIn(s, k)
          /\ \A i \in IDsOf(old) \ (targets \union e.plan.deletes) : new[i] = old[i]

(* Once published, each page finds what it and its shell refer to: the     *)
(* files in the bundle it was exported with, its shell among them, and a   *)
(* page at every path they link to that is no file; and no file of the     *)
(* bundle stands at its own path.                                          *)
PublishedLinksHold ==
  \A e \in published :
    LET s == e.plan.snapshot
        new == read[Target][e.revision + 1]
        live == {new[i].content.path : i \in IDsOf(new)}
        files == Files[s.bundle]
    IN \A k \in Keys(s) :
         LET c == ContentIn(s, k)
             sources == {c.body, ShellOf[c.body]} \ {Absent}
         IN /\ \A x \in sources :
                 /\ Needs[x][c.path] \subseteq files
                 /\ \A l \in Links[x][c.path] : l \intersect (live \union files) # {}
            /\ ShellOf[c.body] \in files \union {Absent}
            /\ c.path \in live \ files

(* The suggested mapping is one DryRun takes, without moving or deleting   *)
(* anything, unless the target holds a page, not among those replaced,     *)
(* that a batch may not leave (a batch checks the whole outcome).          *)
SuggestionIsAccepted ==
  snapshot # NoSnapshot =>
    LET current == StatesOf(pages, Target)
        m == SuggestedMapping(snapshot, current)
        kept == IDsOf(current) \ {m[k].target : k \in Keys(snapshot)}
    IN (\A i \in kept : Valid(current[i].content)) => Accepted(snapshot, current, m, {})

(* DryRun refuses no more than it must and promises no more than the store *)
(* keeps: it takes the suggested mapping, and as long as the target has    *)
(* not moved since it was read, the store applies the plan.                *)
PlanIsApplicable ==
  /\ SuggestionIsAccepted
  /\ plan # NoPlan /\ plan.batch.revision = revisions[Target] /\ Changes(plan.batch) =>
       CheckPageBatch(Target, plan.batch, FALSE)

================================================================================
