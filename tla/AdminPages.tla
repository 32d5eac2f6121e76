------------------------------- MODULE AdminPages -------------------------------
(***************************************************************************)
(* The page editor of the admin UI (adminui/static/admin.js) and the       *)
(* handlers it talks to (internal/admin_http.go), for one tenant.  Browser *)
(* tabs load, edit, save and delete pages; a handler runs concurrently     *)
(* with the others and stops between its read, its write and its audit     *)
(* row; replies are late or lost, and the server may crash.  The store's   *)
(* compare-and-set is one action here: PageStore models the inside of it.  *)
(***************************************************************************)
EXTENDS Integers, Sequences, FiniteSetsExt

CONSTANTS
  Tabs,            \* browser tabs with the editor open
  Paths,           \* page paths
  Bodies,          \* the rest of a page's content
  Shown(_),        \* what the form holds of a stored body: sanitised, to the minute
  First,           \* the content of the page that exists at first
  Absent,          \* no page
  Unread,          \* a GET the server has not served
  MaxRequests,     \* bound: saves and deletes submitted
  MaxNavigations   \* bound: views the tabs open

ASSUME ShownAssumption == \A b \in Bodies : Shown(b) \in Bodies /\ Shown(Shown(b)) = Shown(b)
ASSUME FirstAssumption == First \in [path : Paths, body : Bodies]
ASSUME BoundsAssumption == {MaxRequests, MaxNavigations} \subseteq Nat

VARIABLES
  pages,     \* the tenant's pages in the store, by id
  nextID,    \* the last id handed out
  requests,  \* the saves and deletes submitted so far, and how far each got
  audited,   \* the requests with a row in the audit log
  tab,       \* each tab's editor
  loads,     \* GETs of pages whose answer a tab has not handled
  commits    \* what the requests changed in the store, oldest first

server == <<pages, nextID, audited, commits>>
vars == <<server, requests, tab, loads>>

--------------------------------------------------------------------------------
(* Data. *)

ID == 1..MaxRequests + 1  \* at most one new page per request
New == 0      \* the view pages/new
NoPage == -1  \* a view of no page, and the key of a discarded draft
Route == ID \union {New, NoPage}

Content == [path : Paths, body : Bodies]
Blank == CHOOSE c \in Content : Shown(c.body) = c.body
AsShown(c) == [c EXCEPT !.body = Shown(@)]
Drafts == {AsShown(c) : c \in Content}

Page == [version : Nat \ {0}, content : Content]
Seen == [key : Route, version : Nat, content : Drafts]
Stages == {"sent", "checked", "committed", "ok", "refused", "failed", "dead"}
Request == [tab : Tabs, op : {"create", "update", "delete"}, page : Route, draft : Drafts,
            version : Nat, seen : Seen, stage : Stages, saved : ID \union {NoPage}]
Load == [tab : Tabs, page : Route, generation : Nat, got : Page \union {Unread, Absent}]
Editor == [route : Route, form : BOOLEAN, key : Route, draft : Drafts, baseline : Drafts,
           version : Nat, generation : Nat, saving : 0..MaxRequests, restoring : BOOLEAN]

ASSUME AbsentAssumption == Absent \notin Page /\ Unread \notin Page \union {Absent}

Live == {i \in ID : pages[i] # Absent}
Duplicate(p, except) == \E i \in Live \ {except} : pages[i].content.path = p

--------------------------------------------------------------------------------
(* The handlers.  Request n is at a stage; a refusal is a 4xx.             *)

At(n, op, stage) == requests[n].op = op /\ requests[n].stage = stage

Stage(n, s) == requests' = [requests EXCEPT ![n].stage = s]

Commit(n, i, page) ==
  /\ pages' = [pages EXCEPT ![i] = page]
  /\ commits' = Append(commits, [request |-> n, page |-> i, before |-> pages[i], after |-> page])
  /\ requests' = [requests EXCEPT ![n].stage = "committed", ![n].saved = i]
  /\ UNCHANGED <<audited, tab, loads>>

Refuse(n) == Stage(n, "refused") /\ UNCHANGED <<server, tab, loads>>

AcceptsAnyVersion(i, v) == i \in Live

(* The store's precondition of an update and a delete. *)
Accepts(i, v) == i \in Live /\ pages[i].version = v

FirstVersion == 1

CreatePage(n) ==
  LET r == requests[n]
  IN /\ At(n, "create", "sent")
     /\ IF Duplicate(r.draft.path, NoPage) THEN Refuse(n) /\ UNCHANGED nextID
        ELSE /\ nextID' = nextID + 1
             /\ Commit(n, nextID + 1, [version |-> FirstVersion, content |-> r.draft])

(* updatePage reads the page and compares the version it was sent with; a  *)
(* request without one is refused too.                                     *)
CheckVersion(n) ==
  LET r == requests[n]
  IN /\ At(n, "update", "sent")
     /\ IF r.version > 0 /\ r.page \in Live /\ pages[r.page].version = r.version
        THEN Stage(n, "checked") ELSE Stage(n, "refused")
     /\ UNCHANGED <<server, tab, loads>>

(* ... and writes later, under the version it read. *)
UpdatePage(n) ==
  LET r == requests[n]
  IN /\ At(n, "update", "checked")
     /\ IF Accepts(r.page, r.version) /\ ~Duplicate(r.draft.path, r.page)
        THEN Commit(n, r.page, [version |-> pages[r.page].version + 1, content |-> r.draft])
        ELSE Refuse(n)
     /\ UNCHANGED nextID

DeletePage(n) ==
  LET r == requests[n]
  IN /\ At(n, "delete", "sent")
     /\ IF r.version > 0 /\ Accepts(r.page, r.version) THEN Commit(n, r.page, Absent) ELSE Refuse(n)
     /\ UNCHANGED nextID

Audit(n) ==
  /\ requests[n].stage = "committed"
  /\ audited' = audited \union {n}
  /\ Stage(n, "ok")
  /\ UNCHANGED <<pages, nextID, commits, tab, loads>>

AuditFailureIgnored == "ok"
AuditFailure == "failed"

(* recordAudit fails: the write stays and the reply is a 500. *)
AuditFails(n) ==
  /\ requests[n].stage = "committed"
  /\ Stage(n, AuditFailure)
  /\ UNCHANGED <<server, tab, loads>>

(* The host's access checks come before any handler, and what they allow   *)
(* may have changed since the page was loaded.                             *)
Deny(n) == requests[n].stage = "sent" /\ Refuse(n)

Handle(n) ==
  \/ Deny(n) \/ CreatePage(n) \/ CheckVersion(n) \/ UpdatePage(n) \/ DeletePage(n)
  \/ Audit(n) \/ AuditFails(n)

(* The server dies with the handlers it runs; the store is a database. *)
Crash ==
  /\ requests' = [n \in DOMAIN requests |->
       IF requests[n].stage \in {"sent", "checked", "committed"}
       THEN [requests[n] EXCEPT !.stage = "dead"] ELSE requests[n]]
  /\ requests' # requests
  /\ UNCHANGED <<server, tab, loads>>

--------------------------------------------------------------------------------
(* Navigation.  A tab that saves or restores its history refuses to leave. *)

Dirty(e) == e.key # NoPage /\ e.draft # e.baseline
MayNavigate(e) ==
  /\ e.saving = 0 /\ ~e.restoring
  /\ MapThenSumSet(LAMBDA t : tab[t].generation, Tabs) < MaxNavigations

Discarded(e) == [e EXCEPT !.key = NoPage, !.version = 0]

(* applyView(p) discards a draft (a dirty one only when the user agreed to *)
(* leave it), hides the form, which is filled anew before it is shown      *)
(* again, and asks for the page.                                           *)
Opened(e, p) ==
  [Discarded(e) EXCEPT !.route = p, !.generation = @ + 1, !.form = FALSE,
                       !.draft = Blank, !.baseline = Blank]

AskFor(t, e, p) ==
  loads' = loads \union
    (IF p = NoPage THEN {}
     ELSE {[tab |-> t, page |-> p, generation |-> e.generation + 1, got |-> Unread]})

Navigate(t, p) ==
  /\ MayNavigate(tab[t])
  /\ p = NoPage \/ p # tab[t].key
  /\ tab' = [tab EXCEPT ![t] = Opened(@, p)]
  /\ AskFor(t, tab[t], p)
  /\ UNCHANGED <<server, requests>>

(* Another pane of the same page keeps the draft; a pane that does not     *)
(* exist hides the form.                                                   *)
SwitchPane(t, shown) ==
  /\ MayNavigate(tab[t])
  /\ tab[t].key # NoPage
  /\ tab' = [tab EXCEPT ![t].route = tab[t].key, ![t].generation = @ + 1, ![t].form = shown]
  /\ UNCHANGED <<server, requests, loads>>

(* The user goes Back during a save, or declines to leave a dirty page:    *)
(* the history is moved forward again, which takes until BackRestored.     *)
BackRefused(t) ==
  /\ ~tab[t].restoring
  /\ tab[t].saving # 0 \/ Dirty(tab[t])
  /\ tab' = [tab EXCEPT ![t].restoring = TRUE]
  /\ UNCHANGED <<server, requests, loads>>

BackRestored(t) ==
  /\ tab[t].restoring
  /\ tab' = [tab EXCEPT ![t].restoring = FALSE]
  /\ UNCHANGED <<server, requests, loads>>

(* getPage answers. *)
ServeLoad(l) ==
  /\ l.got = Unread
  /\ loads' = (loads \ {l}) \union
       {[l EXCEPT !.got = IF l.page = New THEN [version |-> 1, content |-> Blank] ELSE pages[l.page]]}
  /\ UNCHANGED <<server, requests, tab>>

AnyLoadValid(l) == TRUE

(* No other view has been opened since. *)
LoadValid(l) == l.generation = tab[l.tab].generation

Filled(e, l) ==
  LET c == AsShown(l.got.content)
  IN [e EXCEPT !.key = l.page, !.draft = c, !.baseline = c, !.form = TRUE,
               !.version = IF l.page = New THEN 0 ELSE l.got.version]

(* The tab handles the answer: it fills the form, unless it moved on or    *)
(* the page is gone.                                                       *)
ApplyLoad(l) ==
  /\ l.got # Unread
  /\ loads' = loads \ {l}
  /\ tab' = IF LoadValid(l) /\ l.got # Absent THEN [tab EXCEPT ![l.tab] = Filled(@, l)] ELSE tab
  /\ UNCHANGED <<server, requests>>

LoseLoad(l) ==
  /\ loads' = loads \ {l}
  /\ UNCHANGED <<server, requests, tab>>

--------------------------------------------------------------------------------
(* Editing and saving. *)

(* A save freezes the form, a delete does not. *)
Frozen(e) == e.saving # 0 /\ requests[e.saving].op # "delete"

Edit(t, c) ==
  /\ tab[t].form /\ ~Frozen(tab[t])
  /\ c # tab[t].draft
  /\ tab' = [tab EXCEPT ![t].draft = c]
  /\ UNCHANGED <<server, requests, loads>>

Submit(t, op) ==
  LET e == tab[t]
      n == Len(requests) + 1
      r == [tab |-> t, op |-> op, page |-> e.route, draft |-> e.draft, version |-> e.version,
            seen |-> [key |-> e.key, version |-> e.version, content |-> e.baseline],
            stage |-> "sent", saved |-> NoPage]
  IN /\ e.form /\ e.saving = 0
     /\ n <= MaxRequests
     /\ requests' = Append(requests, r)
     /\ tab' = [tab EXCEPT ![t].saving = n]
     /\ UNCHANGED <<server, loads>>

Save(t) == Submit(t, IF tab[t].route = New THEN "create" ELSE "update")
Delete(t) == tab[t].route # New /\ Submit(t, "delete")

Awaits(n) == tab[requests[n].tab].saving = n

KeepsVersion(e, r) == [e EXCEPT !.baseline = r.draft, !.saving = 0]

(* What was submitted becomes the baseline, with the version it got. *)
Saved(e, r) ==
  [e EXCEPT !.baseline = r.draft, !.version = r.version + 1, !.saving = 0]

(* The draft of a page created or deleted is discarded, and the tab opens  *)
(* the page or the list: unless its history is being restored.  No view    *)
(* was opened since the save: navigation was refused.                      *)
ReplyOk(n) ==
  LET r == requests[n]
      t == r.tab
      e == tab[t]
      next == IF r.op = "create" THEN r.saved ELSE NoPage
  IN /\ Awaits(n) /\ r.stage = "ok"
     /\ IF r.op = "update"
        THEN tab' = [tab EXCEPT ![t] = Saved(e, r)] /\ UNCHANGED loads
        ELSE IF e.restoring
        THEN tab' = [tab EXCEPT ![t] = [Discarded(e) EXCEPT !.saving = 0]] /\ UNCHANGED loads
        ELSE /\ tab' = [tab EXCEPT ![t] = [Opened(e, next) EXCEPT !.saving = 0]]
             /\ AskFor(t, e, next)
     /\ UNCHANGED <<server, requests>>

StillSaving(e) == e
Released(e) == [e EXCEPT !.saving = 0]

(* A refusal or a 500: the draft stays. *)
ReplyError(n) ==
  /\ Awaits(n) /\ requests[n].stage \in {"refused", "failed"}
  /\ tab' = [tab EXCEPT ![requests[n].tab] = Released(@)]
  /\ UNCHANGED <<server, requests, loads>>

(* The connection breaks; the handler may go on, and the user may retry. *)
NoReply(n) ==
  /\ Awaits(n)
  /\ tab' = [tab EXCEPT ![requests[n].tab] = Released(@)]
  /\ UNCHANGED <<server, requests, loads>>

Reply(n) == ReplyOk(n) \/ ReplyError(n) \/ (requests[n].stage = "dead" /\ NoReply(n))

--------------------------------------------------------------------------------
Init ==
  /\ pages = [i \in ID |-> IF i = 1 THEN [version |-> 1, content |-> First] ELSE Absent]
  /\ nextID = 1
  /\ requests = << >>
  /\ audited = {}
  /\ tab = [t \in Tabs |->
       [route |-> NoPage, form |-> FALSE, key |-> NoPage, draft |-> Blank, baseline |-> Blank,
        version |-> 0, generation |-> 0, saving |-> 0, restoring |-> FALSE]]
  /\ loads = {}
  /\ commits = << >>

TabStep(t) ==
  \/ \E p \in Route : Navigate(t, p)
  \/ \E shown \in BOOLEAN : SwitchPane(t, shown)
  \/ BackRefused(t) \/ BackRestored(t)
  \/ \E c \in Drafts : Edit(t, c)
  \/ Save(t) \/ Delete(t)

Next ==
  \/ \E t \in Tabs : TabStep(t)
  \/ \E l \in loads : ServeLoad(l) \/ ApplyLoad(l) \/ LoseLoad(l)
  \/ \E n \in DOMAIN requests : Handle(n) \/ Reply(n) \/ NoReply(n)
  \/ Crash

(* The server runs every handler to its end, and every answer or broken    *)
(* connection reaches its tab; users and the network owe nothing more.     *)
Fairness ==
  \A n \in 1..MaxRequests :
    /\ WF_vars(n \in DOMAIN requests /\ Handle(n))
    /\ WF_vars(n \in DOMAIN requests /\ Reply(n))

Spec == Init /\ [][Next]_vars /\ Fairness

--------------------------------------------------------------------------------
(* Properties. *)

(* Type invariant of the editors, the handlers and the store between them. *)
TypeOK ==
  /\ pages \in [ID -> Page \union {Absent}]
  /\ nextID \in ID
  /\ requests \in Seq(Request)
  /\ audited \subseteq DOMAIN requests
  /\ tab \in [Tabs -> Editor]
  /\ loads \subseteq Load
  /\ \A k \in DOMAIN commits : commits[k].request \in DOMAIN requests /\ commits[k].page \in ID

Overwrites == {k \in DOMAIN commits : requests[commits[k].request].op # "create"}

(* No lost update (docs/promotion.md:26-30): what a save or delete replaces *)
(* is what its user was shown, however late, repeated or interleaved with  *)
(* others it was handled; so a retried save is never applied twice.        *)
NoLostUpdate ==
  \A k \in Overwrites :
    LET seen == requests[commits[k].request].seen
        before == commits[k].before
    IN before # Absent /\ before.version = seen.version /\ AsShown(before.content) = seen.content

(* A form is saved only to the page it was filled from, or as a new page   *)
(* if it was opened as one, whichever loads were slow or overtaken.        *)
SavesLandOnTheirPage ==
  \A k \in DOMAIN commits :
    requests[commits[k].request].seen.key \in
      IF k \in Overwrites THEN {commits[k].page} ELSE {New, NoPage}

(* The contents page i has had under version v. *)
Had(i, v) ==
  {c \in Content :
     \/ pages[i] # Absent /\ pages[i].version = v /\ pages[i].content = c
     \/ \E k \in DOMAIN commits :
          /\ commits[k].page = i
          /\ \E p \in {commits[k].before, commits[k].after} \ {Absent} :
               p.version = v /\ p.content = c}

(* A form that reads "Saved" shows what the store held under the version   *)
(* it will save with: a reply that came late never marks edits as saved.   *)
CleanMeansSaved ==
  \A t \in Tabs :
    LET e == tab[t]
    IN e.key \in ID /\ e.saving = 0 /\ ~Dirty(e) =>
         \E c \in Had(e.key, e.version) : AsShown(c) = e.draft

(* A write answered with success has its audit row, and no row stands for  *)
(* a write that did not happen.                                            *)
AuditMatchesReplies ==
  LET committed == {commits[k].request : k \in DOMAIN commits}
  IN /\ audited \subseteq committed
     /\ \A n \in DOMAIN requests : requests[n].stage = "ok" => n \in audited

(* A save always ends: crash, refusal or broken connection, the form is    *)
(* released and the user can go on.                                        *)
SaveEnds == \A t \in Tabs : tab[t].saving # 0 ~> tab[t].saving = 0

(* "The editor warns before leaving an unsaved page" (README.md:109-110):  *)
(* the form of a new or existing page is dirty while its text is neither   *)
(* blank nor stored.                                                       *)
UnsavedIsDirty ==
  \A t \in Tabs :
    LET e == tab[t]
        stored == UNION {Had(i, v) : i \in ID, v \in 1..MaxRequests + 1}
    IN e.form /\ e.route \in Live \union {New} =>
         Dirty(e) \/ e.draft \in {Blank} \union {AsShown(c) : c \in stored}

================================================================================
