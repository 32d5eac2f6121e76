# TLA+ models of workflow-plugin-cms

The CMS plugin keeps the pages of many tenants, lets editors change them
concurrently, moves content between environments in batches that can be rolled
back, serves static bundles that release webhooks activate, guards private sites
with a password, stores uploaded media, and records admin changes in a signed
chain. This directory holds TLA+ models of these parts, the TLC configurations
that check them on small instances, and TLAPS proofs of the main results for every
value of the constants. Paths below are relative to `src/`.

## 1. The system's parts

| Part | State it keeps | Operations | What makes it hard | Here |
|---|---|---|---|---|
| Page store, memory (`store/`) | pages by id, one id counter, per tenant a scope, a revision and a history | Create, Update, Delete, ReadPageState, ApplyPageBatch, RollbackPageBatch, ReadPageHistory | callers act on states they read long ago; receipts are kept for ever | `PageStore`, `PageLedger` |
| Page store, Postgres (`store/postgres/`) | tables pages, cms_page_revisions, cms_page_history | the same, each in a transaction under an advisory lock | immediate unique constraint, lost commit answers, old writers | `PgPageStore`, `PageLedger` |
| Promotion (`promotion/`) | none; snapshots and plans travel with the caller | Export, VerifyBundle, DryRun, SuggestedMapping; the store applies the plan | a plan is approved for a state of the target and applied later | `Promotion` |
| Admin page API (`internal/admin_http.go`) | none of its own; page store and audit log | create, get, update, delete, audit | read, check and write are three calls; audit fails after the write | `AdminPages` |
| Page editor (`adminui/static/admin.js`) | route, draft, baseline, version, pending save, history restoring | navigate, load, edit, save, delete, Back | loads and replies out of order or lost, two tabs, Back during a save | `AdminPages` |
| Tenant directory (`store/tenant.go`, tables of `store/postgres/`) | tenants, domains, one id counter | create, update, delete, list, by slug | readers use several calls; creating a tenant is two of them | `TenantDirectory` |
| Host server (`host/`), tenant resolver and static serve (`internal/`) | none of its own; directory, page store, bundle directory | resolve the tenant, serve page, file, application, template list | three lookups of several reads; the link `current` moves under a request | `HostGate`, `HostContent` |
| Host policy gate (`hostpolicy/`) | credential cache, failure counts, bcrypt slots | decide public, redirected or private; check the password | state read under a mutex and used after it; limits | `HostGate`, `PolicyGate`, `GatedHost` |
| Bundle activation (`bundle/`) | version directories, links `current` and `current.new` | Activate per release webhook | concurrent and repeated webhooks, failing calls, crashes between two calls | `BundleActivation` |
| Media (`media/`) | files named by their digest | Put, Get | uploads of the same bytes meet in one file; interrupted writes | `MediaUploads` |
| Audit chain (`audit/log.go`) | counter and last signature in memory, rows in a sink | Record, Verify, restart | sinks that refuse or lose the answer, restarts, tampering | `AuditChain` |
| Rendering, overlay, theme, analytics, metrics, plugin shell | none, or counters | pure functions and wiring | | not modelled |

How they interact: the editor calls the admin API over HTTP; the API calls the
page store (or its Postgres form) and then the audit log. A visitor's request passes
the policy gate, which finds the tenant of its host in the directory, and the tenant of
that tenant's primary host; then the server finds the tenant once more and serves a
file of the bundle `current` links to, a page of the page store with a template from that bundle, or
the bundle's application. Release webhooks move `current` meanwhile. Promotion
reads pages of one tenant and the state of another and submits a batch to the latter. Media
files are uploaded and served by their own handlers.

What makes each part correct, in a sentence: a page store never lets two writers
overwrite each other unknowingly, and its history and receipts are exact; a
publication does what was approved, and nothing else; the editor never loses or misplaces what was
typed, nor claims it is saved when it is not; a lookup answers what was true while it
ran, and a request nobody interferes with is routed as if the directory were read in
one moment; a password is guessed no more often than the limits say, and nobody gets in
without it; a tenant's `current` always leads to a whole bundle, an activation
under a request takes nothing away from it, and no release is activated twice; a
media URL once given out keeps its file; the audit chain breaks where something was
changed or lost and nowhere else.

## 2. The modules

### PageStore, PageLedger

Every operation of `MemoryPageStore` runs under one mutex, so each is one action.
A call the store refuses changes no state and is no action. `pages` holds the live
pages of all tenants, `nextID` the shared id counter, `revisions` and `history` the
per-tenant counters and events, `receipts` what ApplyPageBatch returned. The
variable `read` is the environment: all states of a tenant a caller may still
hold. Update and Delete take any (id, version) of any state of any tenant, a batch is
computed from any old state (`ApplyPageBatch(t, n, ...)`, n its revision), and a
receipt may be rolled back at any time, also at a wrong tenant. A path stands for the
pair (subsite, path), a body for all other content; `ValidBodies` are those that
`PageContent.Validate` accepts, while `Page.Validate`, the check of the ordinary
API, accepts more.

`CheckPageBatch` and `RollbackBatch` are translated clause by clause; keys,
digests and JSON normalisation are left out. A receipt is immutable here: its
digest exists to detect that it is not. `ensureScope` is the set `scoped`.
`Create` would keep a version its caller names (`store/page.go:158`); no caller does (the admin API leaves
it 0, a batch gives 1), so pages begin at `FirstVersion`. Version wrap-around (32-bit `int` versions in Postgres) is out of scope: versions
are unbounded naturals.

`PageLedger` is the abstract specification of any managed page store: per tenant a
list of states that only grows, where a write leaves distinct paths, saves pages only
under versions above all they ever had, and under ids no other tenant had.
`LedgerSpec` is that specification with `ledger <- read`. Both page stores implement it.

### PgPageStore

The Postgres store: `Begin` takes the tenant's advisory lock and reads its rows,
`Execute` runs one statement of the transaction on the rows it sees, `Commit` is
the revision, the history event and the commit together (nothing outside sees them
apart), `Abort` is any failure before. What a batch may contain is decided by the
code the in-memory store uses too, so `CheckPageBatch`, `RollbackBatch` and the data
come from an instance of `PageStore`; what the Postgres store does with an accepted
batch is its own. Staging, deletes and the rest run in this order, and within the rest
in any order, because the order of a batch is the caller's. A statement that finds no
row or meets the unique constraint cannot be executed, only aborted. `nextID` is a sequence:
an aborted insert may consume an id. A commit may succeed without its answer: then the
receipt never exists for the caller.

`Adopt` is migration 0002 under its write fence. A writer from before it takes the
same lock (`history.go:41` calls it cooperative) and appends no event: `Commit` with `logged` FALSE,
possible at any time. `ReadPageHistory` reads one repeatable-read snapshot and is
therefore no action but the operators `Available` and `Answer`, whose properties quantify
over every cursor in every state. The unique constraint, the default version 1 and the
sequence are the host's schema, as the store's statements and `batch_integration_test.go:56` use it.

Left out: SQL writers without the lock (`batch.go:19` excludes them), the tables of tenants and
domains, a tenant without a revision row.

### BundleActivation

`Fetcher.Activate` for one tenant, one action per system call that changes or reads
the tenant's directory: Start (the request and MkdirTemp), Extract, Stat, the rename
of the version directory, then Remove, Symlink and Rename of `atomicSymlink`. Any
number of workers run it concurrently, because `IngestHandler` calls it from HTTP
handlers. Each call may fail; two failures are ignored by the code (a Stat that fails
otherwise than with "not found", a Remove) and `IgnoredFailure` ignores them as well.
`Crash` stops all workers and keeps the disk. A temporary directory belongs to its
worker; after a crash nobody looks at it again, so it is forgotten.
`activated` and `quiet` are history variables: the versions `current` linked to,
and the workers whose attempt met no failure and no other attempt.

### HostContent

`BundleActivation` with the requests that read its directory; its next step is a step of
`BundleActivation` or of a request, and `HostImplementsActivation` says that requests
disturb nothing. A request follows `current` up to three times: for the file at its path,
for the template of the page at its path, for `index.html`. Each time it first resolves the
link (`Resolve`) and then looks into the directory it got; an activation may come in
between. Listing templates resolves the link once for the names and once more for each
of them. The plugin's own static-serve middleware opens the file through `current` in one call.
`seen[r]` is a history variable: the versions `current` linked to since request r began.
What is at a request's path in the page store is an input (`Pages`). Version
directories are never removed by the code, so what a resolved link leads to stays there.

A template name has three cases in a version directory (`host/templates.go:40-57`). The file is
there and good, with one slot for the body and not too long (`TemplatesIn`): the page is rendered
with it. The file is there and `Malformed`: the page is unavailable (503), also where the host configures
the name. The file is not there: the host's own template stands in, if it has one. `Offered(v)` are the names
a page can be rendered with while v is current. The list of templates leaves out malformed files but
always adds every configured name, so it may name a template whose pages then answer 503;
ListIsOfSeenVersions says what a name on it does mean. A bundle comes by webhook without a look at its
templates (only a promotion checks them, `promotion/bundle.go:359`), so a malformed one can be current.

Left out: a host configured with one tenant only, preview assets, analytics, conditional
and range requests, and failing calls of the stores: with one the host's template stands in for a
bundle's (`host/templates.go:33-37`), or the request ends in an error.

### TenantDirectory, HostGate

`TenantDirectory` is the store of tenants and domains with the admin handlers that change it.
Each store operation is one critical section in memory and one statement in Postgres, so each
is one action; `createTenant` is two (`CreateTenant`, then `ProvisionPreview`, whose failure the
handler ignores: `SkipPreview`). The host's `Lookup` is not atomic: it lists the tenants, then the
domains of one after the other in any order, and after a miss on a preview host looks for the slug.
`Resolve(h)` is what these reads would answer if they were one. `owners[r]` are the
owners the host had while the lookup ran.

`HostGate` sends a request through three lookups: of its host, of the primary host of its
tenant's policy, and, in the server, of its host again. Requests to the plugin's own
resolver middleware take one (path kind `plugin`). `AtomicOutcomes` is the reference: what
gate and server come to if the directory is read in one moment. `steady` are the requests
under which the directory did not change what they ask; other tenants' changes do not end that. What
the password decides is left open here: `Password` goes either way, and `GatedHost` lets `PolicyGate` decide.

Left out: the reserved admin and platform hosts, preview assets, the query targets of the PreviewAccess
callback, response headers, labels and themes of tenants, length checks of names. Slugs are
compared without case, as in memory; Postgres compares them with case. Ids come from one counter, as
in memory; Postgres has one sequence per table.

### PolicyGate

The password check. A request takes the time once (`Begin`), reads cache and failure
count in one critical section (`Look`), takes a slot or is turned away (`Acquire`), compares without the
mutex (`Compare`), and writes the count or the cache in a second critical section (`RecordFailure`,
`RecordSuccess`), against the time it took first. Times are
ticks. A full cache drops its expired entries and then an arbitrary one. `verified` and `wrong` are
history variables: the comparisons that succeeded, and when each tenant's wrong passwords were recorded.

### GatedHost

`HostGate` with `PolicyGate` in the place of `Password`, so that a request is followed from its host to its
password and to its content. `attempt` is PolicyGate's `requests`: the last attempt of each reader. A
request in phase `password` is challenged without a look at the password (`Challenge`), let in by the host's own
callback (`PreviewAccess`; its answer is a choice, and only content of preview tenants asks it), or gives a password
for the slug its first lookup found (`GivePassword`). `Attempt` is a step of PolicyGate; the
step that ends the attempt sends the request into the server or refuses it. `gave` are the requests that have given a
password since they arrived, so that no attempt is credited to a later request of the same reader. The cache, the
counts and the slots are shared by all requests, and hosts change hands meanwhile.

### MediaUploads

`LocalFS.Put` and `Get`, one action per system call: MkdirAll, Stat, and `os.WriteFile` as open
with truncation and two writes; a download reads the two pieces one after the other. Every
call may fail, and `Crash` stops everything and keeps the disk. A file's name is its digest, so
all uploads of one name write the same pieces. History variables name the causes of an
incomplete file: `spoiled` (an upload died or failed while writing it), the uploads that are writing it, and
`fresh`, the uploads that began before the file existed or whose Stat failed.

### Promotion

`PageStore` with two tenants that are edited all the time, and the three calls of a
publication. `Export` freezes selected pages of the review tenant with the bundle they need
(`VerifyBundle`), `DryRun` makes a batch from the snapshot, any state of the target somebody
read, any mapping and any deletions, and `Publish` is the store's ApplyPageBatch with that batch at any
later time. A page is named by its id in the source, its key by the id alone. What a body, a shell
(the page template of the bundle) or a bundled document links to and needs is given with it, for each base
it may be read at, since relative references resolve there; a link is the set of paths that
serve it, in its own subsite or the root. HTML and CSS parsing, digests and the
decoding of snapshots are abstracted. Directories are immutable, so the second hash of `VerifyBundle`
agrees with the first. `VerifyBundle` looks at the selected pages only; a page of the target that
stays is not compared with the bundle's files.

### AuditChain

One `Logger` on one sink. A signature is the sequence of all bodies below it, which
makes it injective, as an HMAC is taken to be. A sink accepts, refuses, or stores and
loses the answer (`RecordUnacknowledged`: the Logger sees an error, rolls the id
back and keeps the old signature). A restart gives an empty Logger on the old sink
(a database) or on an empty one (`MemorySink`). `ChangeRow` is the tampering the chain is made
to detect. `breaks`, `unlinked`, `changed` and `skipped` are history variables.

### AdminPages

The editor and the handlers, for one tenant. A tab has a route, a form with its
`key`, draft, baseline and version, the navigation `generation`, the save it awaits and
whether it is restoring the browser history. `loads` are the GETs whose answer it has not
handled, in any order. `requests` are the saves and deletes with the stage their handler has
reached: `updatePage` checks the version it read in one step and writes in a later
one, and the audit row is a step of its own. The reply is handled later or never
(`NoReply`: the handler may still run), and `Crash` kills every handler that is
running. The store's compare-and-set is one action, `Accepts` and `Duplicate`; the
inside of the store is `PageStore`'s subject. `Shown` is what the form can hold of
a stored body: the sanitiser and the minute resolution of its dates
change some bodies, so the form is not the stored content. `Deny` is the access check that comes
before every handler: it may refuse a request of a page that was opened with access.

Left out: reload and close of a tab, the permissions the UI shows, the preview pane, the rich text commands, the
screens for tenants and domains, a missing audit log, several tenants.

### The MC modules and the proof modules

`MCPageStore`, `MCPgPageStore`, `MCHostContent`, `MCAuditChain`, `MCAdminPages`,
`MCHostGate`, `MCPolicyGate`, `MCGatedHost`, `MCMediaUploads` and `MCPromotion` give the constants
values for TLC. The theorems are in `PageStoreProofs` (with those of `Promotion`), `PgPageStoreProofs`,
`HostContentProofs` (with those of `BundleActivation`), `HostGateProofs` (with those of `GatedHost`), `PolicyGateProofs`,
`MediaUploadsProofs`, `AuditChainProofs` and `AdminPagesProofs`.

## 3. What is checked

| Run | Bounds | Shows |
|---|---|---|
| `page_store` | 2 tenants, 2 paths, 1 body, 4 revisions, 2 ids, 1 create per batch | UniquePaths, HistoryIsLossless, RollbackAvailable, OneTenantPerID, VersionsNeverRepeat, RollbackRestores, LedgerSpec |
| `pg_page_store` | 1 tenant, 2 writers, 2 paths, 1 body, 3 revisions, 2 ids, 1 create per batch, 1 event per answer | BatchesGoThrough, RollbackRestores, HistoryEndsAtFirstGap, ReceiptsAreReal, AnswersAreExact, LedgerSpec |
| `promotion` | 2 tenants, 2 paths, 2 bodies (1 valid, with a shell), 3 bundles, 3 ids, 3 revisions, 2 publications, 3 edits | PublishedIsApproved, PlanIsApplicable, PublishedLinksHold |
| `host_content` | 2 workers, 2 contents, 2 versions, 3 attempts, 1 request at a time, 3 templates (1 configured, 1 malformed in each content) | LinksAreWhole, OkMeansStored, QuietSucceeds, ReplayNeverActivates, SteadyReadsAreExact, SwapHidesNothing, ListIsOfSeenVersions |
| `host_gate` | 3 slugs, 3 hosts (1 a preview host), 1 request at a time, 4 changes, 6 ids | DirectoryIsSound, LookupIsTrue, SteadyRequestsAreExact |
| `policy_gate` | 2 tenants, 2 passwords, 2 requests at a time out of 4, cache of 1, 2 failures, 1 slot, window of 2 ticks, time 3 | LimitsHold, ServedWasVerified, GuessesBounded, LockoutIsEarned |
| `gated_host` | 3 slugs (2 protected), 3 hosts (1 a preview host), 1 request at a time, 2 changes, 2 passwords, 2 attempts in all, cache of 1, 1 failure, 1 slot, window of 1 tick, time 1 | PrivateNeedsPassword |
| `media_uploads` | 2 uploads at a time out of 4, 2 names, 1 download at a time out of 2 | PromisedStaysThere, DownloadsAreWhole |
| `audit_chain` | 1 tenant and tenant 0, 4 rows, 1 lost id | BreaksHaveCauses, IDsAreAccountedFor |
| `audit_tenant` | 2 tenants, 3 rows | violation of TenantChainVerifies |
| `admin_pages` | 2 tabs, 2 paths, 2 bodies, 2 requests, 2 views opened | NoLostUpdate, SavesLandOnTheirPage, CleanMeansSaved, AuditMatchesReplies, SaveEnds |
| `admin_back` | 1 tab, 3 paths, 1 request, 1 view | violation of UnsavedIsDirty |

The type invariants are proved and not run; that of `GatedHost` is part of `GatedInv`.

Why the bounds are enough. A path conflict or a swap needs two pages and two
paths, and a batch that does both needs two creates. The shortest reuse of a
version is create, delete by batch, rollback: three revisions; the fourth
is the write of a receipt that is used twice, or of the other tenant in between. The Postgres store takes three writes to swap two
pages or to create, delete and restore one, with the adoption of the history before any of them;
tenants share nothing there but the sequence, so one tenant does, and two writers compete for its
lock. In `page_store` every body is one a batch accepts; the `promotion` run has one that only the
ordinary API accepts too, and the theorems hold of any bodies.

A publication goes wrong, if at all, by an edit between export and plan, one between plan and
publication, and one before both; the second publication meets what the first one left. One body
links to the other's path and needs a file, one bundle has a file at a page's path.

Two activations race over `current.new` and the version directory, a third meets
what they left; two versions with different files under one request show a mix. Each content has a malformed template that is
good in the other, one of them configured by the host, so every case of a name occurs. Requests do
not influence each other, so one at a time (any number in a row) is enough; the proofs take any number.
Three slugs and two seeded tenants leave room for a tenant to be created, renamed and given a
host another one lost: these are four changes, which may come between any two reads of the three lookups.
With the password, two changes move a tenant's host to another tenant, and two attempts are the one whose
comparison fills the cache and the one that finds its entry there, still good or expired by the tick.
In the gate, two requests at once race for the last slot, the last free place of the cache, and the last
failure before the limit; two ticks are enough for an entry to expire between two looks at it.
Uploads of one name meet in pairs; a third comes after both, and a second name shows
that they stay apart.

In the audit log a lost acknowledgement and a restart each take two rows to show, with two more to
show that the chain recovers. In the editor a lost update takes two
writers, an overtaken load two views; two requests allow a retry in
one tab or one save in each.

`CHECK_DEADLOCK FALSE`: every model stops at its bounds (revisions, attempts, changes, requests
begun, time).

### What the violations say

- `audit_tenant`: `Verify(t)` of one tenant fails on an intact chain as soon as two tenants have
  rows.
- `admin_back`: Back during the save of a new page leaves an open form that counts as
  clean whatever is typed into it.

Other places where code and documentation differ, which the models contain and whose runs state what
the code does hold:

- A page that `Page.Validate` accepts but `PageContent.Validate` does not (scheduled without a time,
  a path without a leading slash) can be deleted or repaired by a batch, and the receipt can then never
  be rolled back (`store/batch.go:267`), against `docs/promotion.md:36-38`. `RollbackAvailable` is
  the promise for receipts without such pages (`Reversible`).
- An older release delivered late is activated (`bundle/fetcher.go:123` compares with the
  version directories, not with `current`), though `bundle/ingest.go:7` says versions are monotonic per tenant.
  `ReplayNeverActivates` is what does hold: no version is activated twice.
- After a crash between making the version directory and swapping the link, each retry
  gets the 409 of a replay (`bundle/fetcher.go:127`, `bundle/ingest.go:152-153`), and the version can never
  be activated. `QuietSucceeds` says when an attempt succeeds.
- Two activations share `current.new` (`bundle/fetcher.go:208`): one may swap in the other's link and
  report success. `OkMeansStored` says what success does mean.
- The server looks the tenant up again after the gate did (`hostpolicy/policy.go:202-203`): a domain moved
  in between is served under the decision made for its former tenant. `SteadyRequestsAreExact` is
  about requests under which that does not happen.

### Fairness

Only `AdminPages` has a liveness property, SaveEnds. It assumes weak fairness of each
handler (Go schedules every request's goroutine and no step of a handler waits for
another) and of each reply (an answer, or the broken connection of a dead
server, reaches its tab: `fetch` settles). Users, navigation, loads and
crashes have no fairness. SaveEnds then says that no way a request can end leaves the tab
refusing to save and to navigate.

## 4. What is proved

| Theorem | Module | Statement |
|---|---|---|
| TypeCorrect | PageStoreProofs | `Spec => []TypeOK` |
| StoreIsSafe | PageStoreProofs | UniquePaths, VersionsNeverRepeat, OneTenantPerID, HistoryIsLossless, RollbackRestores always hold |
| PathsStayUnique, HistoryReplaysTheWrites, IDsStayWithTheirTenant, RollbacksRestore | PageStoreProofs | its parts, one by one |
| StoreImplementsLedger | PageStoreProofs | `Spec => LedgerSpec` |
| RollbacksStayAvailable | PageStoreProofs | RollbackAvailable always holds |
| PublicationsAreApproved | PageStoreProofs | `PromotionSpec => []PublishedIsApproved` |
| PublishedLinksStayWhole, PlansApply | PageStoreProofs | PublishedLinksHold and PlanIsApplicable always hold |
| PublishingKeepsTheStoreSafe | PageStoreProofs | the store's invariants, RollbackAvailable too, hold of `PromotionSpec` |
| PublishingImplementsLedger | PageStoreProofs | `PromotionSpec => LedgerSpec` |
| TypeCorrect | PgPageStoreProofs | `Spec => []TypeOK` |
| ReceiptsStayReal | PgPageStoreProofs | ReceiptsAreReal always holds |
| HistoryNeverHidesAGap, AnswersStayExact | PgPageStoreProofs | HistoryEndsAtFirstGap and AnswersAreExact always hold |
| ImplementsLedger | PgPageStoreProofs | `Spec => LedgerSpec` |
| BatchesAlwaysGoThrough | PgPageStoreProofs | BatchesGoThrough always holds |
| RollbacksRestore | PgPageStoreProofs | RollbackRestores always holds |
| RollbacksStayAvailable | PgPageStoreProofs | RollbackAvailable always holds of the Postgres store |
| VersionsStaySound | PgPageStoreProofs | VersionsNeverRepeat, OneTenantPerID and UniquePaths always hold of the Postgres store |
| TypeCorrect | HostContentProofs | `Spec => []TypeOK` |
| ActivationIsSafe, SuccessesAreStored | HostContentProofs | LinksAreWhole and OkMeansStored always hold |
| QuietAttemptsSucceed | HostContentProofs | QuietSucceeds always holds |
| HostImplementsActivation | HostContentProofs | `HostSpec => Spec` |
| HostKeepsLinksWhole | HostContentProofs | LinksAreWhole, OkMeansStored, QuietSucceeds hold with requests in progress |
| ReplaysNeverActivate | HostContentProofs | `HostSpec => ReplayNeverActivates` |
| HostTypeCorrect | HostContentProofs | `HostSpec => []HostTypeOK` |
| ActivationHidesNothing, ListsAreOfSeenVersions, OneVersionOneAnswer | HostContentProofs | SwapHidesNothing, ListIsOfSeenVersions, SteadyReadsAreExact always hold |
| TypeCorrect | HostGateProofs | `Spec => []TypeOK` |
| DirectoryStaysSound, LookupsAnswerTruly | HostGateProofs | DirectoryIsSound and LookupIsTrue always hold |
| SteadyRequestsGoRight | HostGateProofs | SteadyRequestsAreExact always holds |
| TypeCorrect | PolicyGateProofs | `Spec => []TypeOK` |
| LimitsAreKept, OnlyVerifiedAreServed, GuessesAreBounded | PolicyGateProofs | LimitsHold, ServedWasVerified, GuessesBounded always hold |
| LockoutsAreEarned | PolicyGateProofs | LockoutIsEarned always holds |
| GatedHostImplementsHost | HostGateProofs | `GatedSpec => Spec` |
| GatedHostImplementsGate | HostGateProofs | `GatedSpec => Gate!Spec` |
| PrivateSitesNeedPasswords | HostGateProofs | PrivateNeedsPassword always holds |
| GatedHostKeepsPromises | HostGateProofs | with both together: DirectoryIsSound, LookupIsTrue, SteadyRequestsAreExact, LimitsHold, ServedWasVerified, GuessesBounded, LockoutIsEarned always hold |
| TypeCorrect | MediaUploadsProofs | `Spec => []TypeOK` |
| PromisesAreKept, DownloadsGetWholeFiles | MediaUploadsProofs | PromisedStaysThere and DownloadsAreWhole always hold |
| TypeCorrect | AuditChainProofs | `Spec => []TypeOK` |
| BreaksAreExplained | AuditChainProofs | BreaksHaveCauses always holds |
| IDsAccounted | AuditChainProofs | IDsAreAccountedFor always holds |
| TypeCorrect | AdminPagesProofs | `Spec => []TypeOK` |
| NoUpdateIsLost, NoSaveGoesAstray | AdminPagesProofs | NoLostUpdate and SavesLandOnTheirPage always hold |
| CleanFormsAreSaved, AuditAndRepliesAgree | AdminPagesProofs | CleanMeansSaved and AuditMatchesReplies always hold |

They rest on the ASSUMEs of the modules only: bounds are naturals, limits of the gate are positive, a
sentinel such as `Absent` or `NoHost` is no member of the sets it stands beside (`Absent` is also no entry of a
promotion's mapping), `Workers` and `Requests` are
finite, valid bodies are bodies, a staged path is the path of no page, an answer of the history has room for
an event, tenant ids are above 0, the directory the host starts with
is one its store could have made (`SeedAssumption`), malformed templates are among a content's files, and policies name known slugs and hosts
(`PolicyAssumption`); each protected slug has a password (`AttemptAssumption`). TLC evaluates each of them in the runs.

**Page store.** The invariants are not inductive alone. `LedgerInv` adds that
`read` ends with the current state (ReadIsCurrent), that no id above the counter was
used (IDsBounded) and that a receipt holds two consecutive states (ReceiptsAreRead).
The argument goes through one notion, `Legal`: the pages an operation commits leave
other tenants alone, have distinct paths, and every page they change is `Fresh` (its
version is above all earlier ones, its id no other tenant's). Each operation is shown to commit legal
pages (CreateIsLegal, ReplaceIsLegal, BatchIsLegal, and for rollbacks RollbackIsFresh:
the restored version is one above that in the state before, which ReceiptsAreRead puts next to the current one).
Then legal commits keep each invariant, and are a `Write` of the ledger
(LegalIsLedgerWrite).

RollbackAvailable needs one fact more, `PathsAlwaysDiffered`: not only the current state but each state a tenant
ever had has distinct paths. A rollback leads to the contents of the state before, under the paths of that state, so
the check of its outcome passes; that each mutation of it passes follows from the two consecutive states of the
receipt (RollbackMutationFits).

**Promotion.** `PublishInv` adds to the store's invariant what was checked when each thing was made: the snapshot
is one state of the source with its bundle verified (`SnapshotOK`), the plan was made by DryRun from that snapshot and a
state the ledger holds at its revision (`PlanOK`), and each publication stands as two consecutive states
of the ledger that its plan describes (`PublicationOK`). The ledger only grows, so edits take nothing of this away
(LedgerKeepsReads). At the publication the store's check says that the target stands at the plan's
revision, hence in the very state the plan was made for, and the outcome of the batch is computed from that
(PlannedOutcome). `SeqOf`, the order of a batch's creates, lists each key once (SeqOfLists, by its rank), so
new pages and new keys are in bijection. PlansApply follows the checks of `CheckPageBatch` one by one for
a plan that `DryRun` accepted. A plan may create more pages than `MaxCreates`, the bound of
the callers of `PageStore`, so `PromotionSpec` does not imply `Spec`; what is proved of the store is therefore proved
again for its steps (PublishingStoreStep), from the same lemmas about `ApplyPageBatch`.

**Postgres page store.** The lock makes a transaction private (`Exclusive`): until it ends, its
tenant's committed rows are those it began from. `TransactionOK` follows it from statement to statement: what
each statement still to run may rely on (`StatementOK`), and what each row is worth against all states
its tenant ever had (`RowOK`: unchanged, new, or with its update to come). `Owners` gives every id one tenant, rows of
open transactions included. A commit, with nothing left to run, then makes a state that a receipt
and an event describe exactly and that is a `Write` of the ledger (CommitIsWrite). HistoryEndsAtFirstGap and AnswersAreExact add the
arithmetic of events that `Follow` each other: how many there are, which are the first n, where
the next cursor is. BatchesGoThrough needs an invariant of its own, `BatchOK`: each
page has one change at most to come, its row is there, it is staged, about to be, or at the path it
will have, and no two pages end at one path, which is what `CheckPageBatch` saw. RollbackRestores has another,
`RollbackOK`: while a rollback is open, each page comes to the content it had before the last write, by
the statement still to run for it or by its row (`ComesTo`). VersionsStaySound follows from the
refinement, since any write of the ledger keeps what it says (`Adds`). RollbacksStayAvailable needs
that all states a tenant ever had, not only the present one, keep pages at different paths
(`PathsAlwaysDiffered`); with BatchesAlwaysGoThrough it says that such a rollback is never refused by
the database either.

**Bundle activation.** `DiskInv` ties each worker's next call to the disk: what it is about
to rename is complete, what it links to is stored, and every version directory is whole.
For QuietSucceeds, `QuietKnows` says what a worker that is alone knows from its
earlier calls: its version is not on disk at the rename, `current.new` is gone at the
symlink and its own at the swap.

**Host content.** `HostInv` follows a request from read to read (`ReadersInv`): what it
resolved is a version it has seen, what it found missing was missing in a version it has
seen (`Missing`), and a template it was refused is one such a version does not offer (`Refused`). Since whole
version directories never change, and with them their good templates (`Stays`), each answer is then an answer
about seen versions, and if there is only one, about that. ReplayNeverActivates rests on
`LinkedOnce`: of two attempts of one version only one passes the rename of the version directory, so only one
ever holds a link to swap in.

**Directory and gate.** `StoreInv` makes the directory sound: ids above the counter are unused, so a
new id is new, and a retired id stays unused. `LookupInv` says of each lookup that the owner of its
host is among the tenants still to be read, unless nobody had the host at some moment while it ran. For SteadyRequestsAreExact, `SteadyAt(l, a)` is what a
lookup knows while its true answer is a and stays so (the tenants still to be read include
a's, in a's slug), and `KnownOf` ties each phase of a request to what one moment would decide; a
change of the directory that leaves the asked hosts alone keeps both (StaysUndisturbed), for
`AtomicOutcomes` depends on nothing else (OutcomesAre).

**Policy gate.** GuessesBounded is not inductive: the count grows by requests admitted
earlier. `GuessesCounted` bounds the count together with `Guessing`, the tenant's requests that are past
`Look` and have not yet recorded; each of them looked at a count below the limit. LockoutIsEarned rests on
`FailuresWereWrong`: a tenant's count is at most the number of its wrong passwords recorded no more than a window before
the count ends, although requests record against old times.

**The host behind its gate.** Each step of `GatedHost` is a step of `HostGate` or leaves it alone (StepOfHost: `Challenge`,
`PreviewAccess` and the last step of an attempt are its `Password`), and likewise for `PolicyGate` (StepOfGate), whose invariant
`GateInv` is taken over from `PolicyGateProofs` through an INSTANCE. What neither side knows alone is
`RequestsWait`: an attempt that is under way belongs to a request that waits for it in phase `password`, and
was begun for the slug which that request's first lookup found. `VerifiedAreRight` says that what a comparison or the cache found right is the
tenant's password. `AdmittedWell` then follows a steady request into the server: once it is past `password`, its
host is public, or a preview let it in, or it gave its tenant's password; `KnownOf` says that the slug it asked for is
that of the tenant that has the host.

**Media.** `FreshInv`: an upload that began after its file existed will find it, unless its Stat
fails. `WholeInv`: a file lacks a piece only while somebody writes it or after somebody
failed. `DownloadInv` says what a download under way has got and what its file still holds.

**Audit chain.** `IInv` says that the Logger, while linked, signs on top of the
sink's last row, and while unlinked on top of something else (so that the next row must break),
and that an unchanged row has the body its signature covers. Injectivity of `Sign` does the rest.

**Admin pages.** The invariant is about what is `Known`: that page i was seen in version v as d
means that i was handed out, has not fallen behind v, shows d if it still is in version v, and had
it under that version once (`Had`, over the commits). Every form, load and request that names a page
and a version knows what it holds (`TabOK`, `LoadOK`, `RequestOK`), and what is known stays known
(a commit only raises versions; `Ids` ties the counter to the creates that were committed, so the
ids last and a new id is new). NoLostUpdate follows at the compare-and-set: version and knowledge
agree there. SavesLandOnTheirPage and CleanMeansSaved need that a load whose view is still
open finds a hidden form (`LoadOK`), and that a form stays what it was while its save is out
(`FormOK`). AuditMatchesReplies needs that a handler past its write is among the committed.

## 5. Only model-checked

- SaveEnds of `AdminPages`, because the prover does not reason about fairness. Every invariant that a
  passing run checks is proved.
- The violations are counterexamples and need no proof.

## 6. Not modelled, and why

- Rendering, widgets, navigation menus, sanitising, theme, analytics, media policy: functions from
  one text to another, without state or order; unit tests suit them better.
- The overlay: its state travels with each request, so no interleaving exists.
- Webhook signatures, payload validation, archive path rules, upload types: stateless checks.
- In the gate the query targets of the PreviewAccess callback, the reserved admin and platform
  hosts, and the response headers; in the server preview assets and metrics.
- In promotion the parsing of HTML and CSS, the digests of files and snapshots, and their decoding.
- Page timestamps, listing pages, and the connection pool of the Postgres store.
- The wiring of the plugin and generated messages.
- A relative `BundleRoot` (`bundle/fetcher.go:133` links to the path as given): the text of
  paths is not modelled.

## 7. What is left to do

The reserved admin and platform hosts and the preview assets of the host server, and the editor's screens for
tenants and domains, which call the handlers `TenantDirectory` models.
