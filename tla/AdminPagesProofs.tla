---------------------------- MODULE AdminPagesProofs ----------------------------
(***************************************************************************)
(* Theorems of AdminPages for any number of tabs, paths, bodies, saves and *)
(* navigations.                                                            *)
(*                                                                         *)
(* All of them rest on what is "known" of a page: a tab, a load or a       *)
(* request that names version v of page i holds what that version shows,   *)
(* and the page can only have moved on from there.                         *)
(***************************************************************************)
EXTENDS AdminPages, FiniteSetTheorems, TLAPS

--------------------------------------------------------------------------------
(* What the form shows. *)

(* A draft is some content as shown, and shows as itself. *)
LEMMA Showing ==
  /\ Drafts \subseteq Content
  /\ \A c \in Content : AsShown(c) \in Drafts
  /\ \A d \in Drafts : AsShown(d) = d
<1>1. \A c \in Content : AsShown(c) \in Content
  BY ShownAssumption DEF AsShown, Content
<1>2. \A c \in Content : AsShown(AsShown(c)) = AsShown(c)
  BY ShownAssumption DEF AsShown, Content
<1> QED
  BY <1>1, <1>2 DEF Drafts

(* The blank page is one the form can hold. *)
LEMMA BlankIsDraft == Blank \in Drafts
<1>1. AsShown(First) \in Content /\ Shown(AsShown(First).body) = AsShown(First).body
  BY ShownAssumption, FirstAssumption DEF AsShown, Content
<1>2. Blank \in Content /\ Shown(Blank.body) = Blank.body
  BY <1>1 DEF Blank
<1>3. AsShown(Blank) = Blank
  BY <1>2 DEF AsShown, Content
<1> QED
  BY <1>2, <1>3 DEF Drafts

--------------------------------------------------------------------------------
(* The inductive invariant. *)

(* Page i was seen in version v as d: it exists or did, has not fallen     *)
(* behind v, and still shows d if it is still there in that version.       *)
Holds(i, v, d) ==
  /\ i \in 1..nextID
  /\ pages[i] # Absent =>
       /\ v <= pages[i].version
       /\ v = pages[i].version => AsShown(pages[i].content) = d

Known(i, v, d) == Holds(i, v, d) /\ \E c \in Had(i, v) : AsShown(c) = d

CommitRecord ==
  [request : 1..MaxRequests, page : ID, before : Page \union {Absent}, after : Page \union {Absent}]

(* The type invariant, with what it does not say of the commits. *)
Types ==
  /\ TypeOK
  /\ Len(requests) <= MaxRequests
  /\ commits \in Seq(CommitRecord)

(* The creates that were committed. *)
Created == {n \in DOMAIN requests : requests[n].op = "create" /\ requests[n].saved # NoPage}

(* Each new id belongs to one create, so the ids last for all requests. *)
Ids ==
  /\ nextID = 1 + Cardinality(Created)
  /\ \A n \in DOMAIN requests :
       requests[n].op = "create" /\ requests[n].stage = "sent" => requests[n].saved = NoPage
  /\ \A i \in ID : pages[i] # Absent => i <= nextID

Committed == {commits[k].request : k \in DOMAIN commits}

(* The stages of a handler whose write is in the store. *)
Reached == {"committed", "ok", "failed"}

(* A request with a version is for the page its form was filled from, and  *)
(* carries what is known of it; one whose write is in the store knows what *)
(* it wrote.                                                               *)
RequestOK(n) ==
  LET r == requests[n]
  IN /\ r.version = r.seen.version
     /\ r.op = "create" => r.seen.key \in {New, NoPage}
     /\ r.op # "create" /\ r.version > 0 => r.seen.key \in ID /\ r.page = r.seen.key
     /\ r.seen.key \in ID => Known(r.seen.key, r.seen.version, r.seen.content)
     /\ r.stage = "checked" => r.op = "update" /\ r.version > 0
     /\ r.stage \in Reached =>
          /\ n \in Committed
          /\ r.op = "update" => r.version > 0 /\ Known(r.page, r.version + 1, r.draft)
          /\ r.op = "create" => r.saved \in ID
     /\ r.stage = "ok" => n \in audited

(* A form holds what is known of the page it was filled from, and stays as *)
(* it was submitted until the reply is handled.                            *)
FormOK(t, e) ==
  LET r == requests[e.saving]
  IN /\ e.key \in ID => Known(e.key, e.version, e.baseline)
     /\ e.key \in {NoPage, New} => e.version = 0
     /\ e.form => e.key \in {e.route, NoPage}
     /\ e.saving # 0 =>
          /\ e.saving \in DOMAIN requests
          /\ e.form
          /\ r.tab = t /\ r.version = e.version /\ r.seen.key = e.key

TabOK(t) == FormOK(t, tab[t])

(* Each load is the only one of its view, and while its view is open the   *)
(* form is hidden: no answer comes into a form that is filled.             *)
LoadOK(l) ==
  LET e == tab[l.tab]
  IN /\ l.generation <= e.generation
     /\ l.generation = e.generation => ~e.form /\ e.route = l.page
     /\ l.page # NoPage
     /\ l.page \in ID /\ l.got \in Page => Known(l.page, l.got.version, AsShown(l.got.content))
     /\ \A m \in loads : m.tab = l.tab /\ m.generation = l.generation => m = l

RequestsOK == \A n \in DOMAIN requests : RequestOK(n)
TabsOK == \A t \in Tabs : TabOK(t)
LoadsOK == \A l \in loads : LoadOK(l)

(* What the commits say of the requests they carried out. *)
History == NoLostUpdate /\ SavesLandOnTheirPage /\ audited \subseteq Committed

IInv == Types /\ Ids /\ RequestsOK /\ TabsOK /\ LoadsOK /\ History

--------------------------------------------------------------------------------
(* What is known stays known. *)

(* Known depends on the store and its commits only. *)
LEMMA KnownUnchanged ==
  ASSUME UNCHANGED <<pages, nextID, commits>>, NEW i, NEW v, NEW d
  PROVE  Known(i, v, d)' <=> Known(i, v, d)
  BY DEF Known, Holds, Had

(* A commit that creates a page under a fresh id, or raises the version of *)
(* a page or deletes it.                                                   *)
Advances(j, page) ==
  \/ j = nextID + 1 /\ nextID' = nextID + 1 /\ page \in Page
  \/ /\ nextID' = nextID /\ pages[j] # Absent
     /\ page = Absent \/ (page \in Page /\ page.version > pages[j].version)

LEMMA KnownAfterCommit ==
  ASSUME Types, NEW n, NEW j \in ID, NEW page, Commit(n, j, page), Advances(j, page),
         NEW i \in ID, NEW v \in Nat, NEW d, Known(i, v, d)
  PROVE  Known(i, v, d)'
<1> DEFINE entry == [request |-> n, page |-> j, before |-> pages[j], after |-> page]
<1>1. /\ pages \in [ID -> Page \union {Absent}] /\ nextID \in Nat
      /\ pages' = [pages EXCEPT ![j] = page]
      /\ commits \in Seq(CommitRecord)
      /\ commits' = Append(commits, entry)
      /\ nextID' \in {nextID, nextID + 1}
  BY DEF Types, TypeOK, Commit, Advances, ID
<1>2. Holds(i, v, d)'
  <2>1. i \in 1..nextID /\ i \in 1..nextID'
    BY <1>1 DEF Known, Holds
  <2>2. CASE i # j
    BY <1>1, <2>1, <2>2 DEF Known, Holds
  <2>3. CASE i = j
    <3>1. pages[j] # Absent /\ (page = Absent \/ (page \in Page /\ page.version > pages[j].version))
      BY <1>1, <2>1, <2>3 DEF Advances
    <3>2. pages'[j] = page
      BY <1>1
    <3>3. page # Absent => page.version > v
      <4>1. pages[j] \in Page /\ v <= pages[j].version
        BY <1>1, <3>1, <2>3 DEF Known, Holds
      <4> QED
        BY <4>1, <3>1 DEF Page
    <3>4. page # Absent => page.version \in Nat
      BY <3>1 DEF Page
    <3> QED
      BY <2>1, <2>3, <3>2, <3>3, <3>4 DEF Holds
  <2> QED
    BY <2>2, <2>3
<1>3. PICK c \in Had(i, v) : AsShown(c) = d
  BY DEF Known
<1>4. /\ DOMAIN commits' = DOMAIN commits \union {Len(commits) + 1}
      /\ \A k \in DOMAIN commits : commits'[k] = commits[k]
      /\ commits'[Len(commits) + 1] = entry
  BY <1>1
<1>5. c \in Had(i, v)'
  <2>1. CASE pages[i] # Absent /\ pages[i].version = v /\ pages[i].content = c
    <3>1. CASE i # j
      <4>1. pages'[i] = pages[i]
        BY <1>1, <3>1
      <4> QED
        BY <4>1, <2>1, <1>3 DEF Had
    <3>2. CASE i = j
      <4>1. entry.page = i /\ entry.before = pages[i]
        BY <3>2
      <4> QED
        BY <4>1, <2>1, <1>3, <1>4 DEF Had
    <3> QED
      BY <3>1, <3>2
  <2>2. CASE \E k \in DOMAIN commits :
               /\ commits[k].page = i
               /\ \E p \in {commits[k].before, commits[k].after} \ {Absent} :
                    p.version = v /\ p.content = c
    BY <2>2, <1>3, <1>4 DEF Had
  <2> QED
    BY <2>1, <2>2, <1>3 DEF Had
<1> QED
  BY <1>2, <1>3, <1>5 DEF Known

(* A page that is in the store is known as it is. *)
LEMMA StoredIsKnown ==
  ASSUME Types, Ids, NEW i \in ID, pages[i] # Absent
  PROVE  Known(i, pages[i].version, AsShown(pages[i].content))
<1>1. pages[i] \in Page /\ nextID \in Nat /\ i \in 1..nextID
  BY DEF Types, TypeOK, Ids, ID
<1>2. pages[i].content \in Had(i, pages[i].version)
  BY <1>1 DEF Had, Page
<1> QED
  BY <1>1, <1>2 DEF Known, Holds, Page

--------------------------------------------------------------------------------
(* Steps that only move handlers from stage to stage. *)

(* What a handler may become without touching the store. *)
MayBecome(r, stage) ==
  /\ stage \in (Stages \ {"sent"}) \union {r.stage}
  /\ stage \in Reached => r.stage \in Reached
  /\ stage = "checked" /\ stage # r.stage => r.op = "update" /\ r.version > 0

(* A request that is the same but for its stage. *)
Keeps(r, q) ==
  /\ q \in Request
  /\ q.tab = r.tab /\ q.op = r.op /\ q.page = r.page /\ q.draft = r.draft
  /\ q.version = r.version /\ q.seen = r.seen /\ q.saved = r.saved

HandlersMove ==
  /\ UNCHANGED <<pages, nextID, commits, tab, loads>>
  /\ audited \subseteq audited' /\ audited' \subseteq audited \union Committed
  /\ requests' \in Seq(Request) /\ Len(requests') = Len(requests)
  /\ \A n \in DOMAIN requests :
       /\ Keeps(requests[n], requests'[n])
       /\ MayBecome(requests[n], requests'[n].stage)
       /\ requests'[n].stage = "ok" => n \in audited'

LEMMA Restaged ==
  ASSUME NEW r \in Request, NEW stage \in Stages, NEW q, q = [r EXCEPT !.stage = stage]
  PROVE  Keeps(r, q) /\ q.stage = stage
  BY DEF Request, Keeps

LEMMA HandlersMoveSafely ==
  ASSUME IInv, HandlersMove
  PROVE  IInv'
<1>1. /\ requests \in Seq(Request) /\ requests' \in Seq(Request)
      /\ DOMAIN requests' = DOMAIN requests
      /\ Len(requests') = Len(requests)
  BY DEF IInv, Types, TypeOK, HandlersMove
<1>2. \A n \in DOMAIN requests :
        /\ requests[n] \in Request /\ requests'[n] \in Request
        /\ requests'[n].tab = requests[n].tab
        /\ requests'[n].op = requests[n].op
        /\ requests'[n].page = requests[n].page
        /\ requests'[n].draft = requests[n].draft
        /\ requests'[n].version = requests[n].version
        /\ requests'[n].seen = requests[n].seen
        /\ requests'[n].saved = requests[n].saved
        /\ MayBecome(requests[n], requests'[n].stage)
        /\ requests'[n].stage = "ok" => n \in audited'
  BY <1>1 DEF HandlersMove, Keeps
<1>3. UNCHANGED <<pages, nextID, commits>> /\ tab' = tab /\ loads' = loads /\ Committed' = Committed
  BY DEF HandlersMove, Committed
<1>4. \A i, v, d : Known(i, v, d)' <=> Known(i, v, d)
  BY <1>3, KnownUnchanged
<1>5. Types'
  <2>1. Committed \subseteq DOMAIN requests
    BY DEF IInv, Types, TypeOK, Committed
  <2>2. audited' \subseteq DOMAIN requests'
    BY <1>1, <2>1 DEF IInv, Types, TypeOK, HandlersMove
  <2> QED
    BY <1>1, <1>3, <2>2 DEF IInv, Types, TypeOK
<1>6. Ids'
  <2>1. Created' = Created
    BY <1>1, <1>2 DEF Created
  <2> QED
    BY <1>1, <1>2, <1>3, <2>1 DEF IInv, Ids, MayBecome
<1>7. RequestsOK'
  <2> SUFFICES ASSUME NEW n \in DOMAIN requests
               PROVE  RequestOK(n)'
    BY <1>1 DEF RequestsOK
  <2>1. RequestOK(n)
    BY DEF IInv, RequestsOK
  <2>2. audited \subseteq audited'
    BY DEF HandlersMove
  <2> QED
    BY <2>1, <2>2, <1>2, <1>3, <1>4 DEF RequestOK, MayBecome
<1>8. TabsOK'
  BY <1>1, <1>2, <1>3, <1>4 DEF IInv, TabsOK, TabOK, FormOK
<1>9. LoadsOK'
  BY <1>3, <1>4 DEF IInv, LoadsOK, LoadOK
<1>10. History'
  <2>1. commits' = commits /\ audited' \subseteq Committed'
    BY <1>3 DEF IInv, History, HandlersMove
  <2>2. \A k \in DOMAIN commits : commits[k].request \in DOMAIN requests
    BY DEF IInv, Types, TypeOK
  <2>3. Overwrites' = Overwrites
    BY <1>2, <2>1, <2>2 DEF Overwrites
  <2>4. NoLostUpdate'
    BY <1>2, <2>1, <2>2, <2>3 DEF IInv, History, NoLostUpdate, Overwrites
  <2>5. SavesLandOnTheirPage'
    BY <1>2, <2>1, <2>2, <2>3 DEF IInv, History, SavesLandOnTheirPage
  <2> QED
    BY <2>1, <2>4, <2>5 DEF History
<1> QED
  BY <1>5, <1>6, <1>7, <1>8, <1>9, <1>10 DEF IInv

(* A handler that moves alone. *)
LEMMA StageMoves ==
  ASSUME IInv, NEW n \in DOMAIN requests, NEW stage \in Stages, Stage(n, stage),
         MayBecome(requests[n], stage), stage = "ok" => n \in audited',
         UNCHANGED <<pages, nextID, commits, tab, loads>>,
         audited \subseteq audited', audited' \subseteq audited \union Committed
  PROVE  HandlersMove
<1>1. requests \in Seq(Request)
  BY DEF IInv, Types, TypeOK
<1>2. requests' = [requests EXCEPT ![n].stage = stage]
  BY DEF Stage
<1>3. requests'[n] = [requests[n] EXCEPT !.stage = stage]
  BY <1>1, <1>2
<1>4. Keeps(requests[n], requests'[n]) /\ requests'[n].stage = stage
  BY <1>1, <1>3, Restaged
<1>5. requests' \in Seq(Request) /\ Len(requests') = Len(requests)
  <2>1. [requests[n] EXCEPT !.stage = stage] \in Request
    BY <1>3, <1>4 DEF Keeps
  <2> QED
    BY <1>1, <1>2, <2>1
<1>6. ASSUME NEW m \in DOMAIN requests, m # n
      PROVE  /\ Keeps(requests[m], requests'[m])
             /\ MayBecome(requests[m], requests'[m].stage)
             /\ requests'[m].stage = "ok" => m \in audited'
  <2>1. requests'[m] = requests[m] /\ requests[m] \in Request
    BY <1>1, <1>2, <1>6
  <2>2. RequestOK(m)
    BY DEF IInv, RequestsOK
  <2> QED
    BY <2>1, <2>2 DEF Keeps, MayBecome, RequestOK
<1> QED
  BY <1>4, <1>5, <1>6 DEF HandlersMove

(* The handlers and the crash that leave the store alone. *)
LEMMA HandlersStep ==
  ASSUME IInv
  PROVE  /\ \A n \in DOMAIN requests :
              /\ Deny(n) => HandlersMove
              /\ CheckVersion(n) => HandlersMove
              /\ Audit(n) => HandlersMove
              /\ AuditFails(n) => HandlersMove
              /\ Refuse(n) /\ requests[n].stage \in {"sent", "checked"} => HandlersMove
         /\ Crash => HandlersMove
<1>1. ASSUME NEW n \in DOMAIN requests, Refuse(n), requests[n].stage \in {"sent", "checked"}
      PROVE  HandlersMove
  <2>1. "refused" \in Stages /\ MayBecome(requests[n], "refused")
    BY DEF Stages, MayBecome, Reached
  <2> QED
    BY <1>1, <2>1, StageMoves DEF Refuse, server
<1>2. ASSUME NEW n \in DOMAIN requests, CheckVersion(n)
      PROVE  HandlersMove
  <2>1. CASE Stage(n, "checked") /\ requests[n].version > 0
    <3>1. "checked" \in Stages /\ MayBecome(requests[n], "checked")
      BY <1>2, <2>1 DEF Stages, MayBecome, Reached, CheckVersion, At
    <3> QED
      BY <1>2, <2>1, <3>1, StageMoves DEF CheckVersion, server
  <2>2. CASE Stage(n, "refused")
    <3>1. "refused" \in Stages /\ MayBecome(requests[n], "refused")
      BY <1>2 DEF Stages, MayBecome, Reached
    <3> QED
      BY <1>2, <2>2, <3>1, StageMoves DEF CheckVersion, server
  <2> QED
    BY <1>2, <2>1, <2>2 DEF CheckVersion
<1>3. ASSUME NEW n \in DOMAIN requests, Audit(n)
      PROVE  HandlersMove
  <2>1. "ok" \in Stages /\ MayBecome(requests[n], "ok")
    BY <1>3 DEF Stages, MayBecome, Reached, Audit
  <2>2. n \in Committed
    BY <1>3 DEF IInv, RequestsOK, RequestOK, Audit, Reached
  <2>3. n \in audited' /\ audited \subseteq audited' /\ audited' \subseteq audited \union Committed
    BY <1>3, <2>2 DEF Audit
  <2> QED
    BY <1>3, <2>1, <2>3, StageMoves DEF Audit
<1>4. ASSUME NEW n \in DOMAIN requests, AuditFails(n)
      PROVE  HandlersMove
  <2>1. "failed" \in Stages /\ MayBecome(requests[n], "failed")
    BY <1>4 DEF Stages, MayBecome, Reached, AuditFails
  <2> QED
    BY <1>4, <2>1, StageMoves DEF AuditFails, AuditFailure, server
<1>5. ASSUME Crash
      PROVE  HandlersMove
  <2>1. requests \in Seq(Request) /\ UNCHANGED <<pages, nextID, audited, commits, tab, loads>>
    BY <1>5 DEF IInv, Types, TypeOK, Crash, server
  <2>2. DOMAIN requests = 1..Len(requests) /\ DOMAIN requests' = DOMAIN requests
    BY <1>5, <2>1 DEF Crash
  <2>3. ASSUME NEW n \in DOMAIN requests
        PROVE  /\ Keeps(requests[n], requests'[n])
               /\ MayBecome(requests[n], requests'[n].stage)
               /\ requests'[n].stage = "ok" => n \in audited'
    <3>1. requests[n] \in Request /\ RequestOK(n)
      BY <2>1 DEF IInv, RequestsOK
    <3>2. CASE requests[n].stage \in {"sent", "checked", "committed"}
      <4>1. requests'[n] = [requests[n] EXCEPT !.stage = "dead"]
        BY <1>5, <3>2 DEF Crash
      <4>2. "dead" \in Stages /\ MayBecome(requests[n], "dead")
        BY DEF Stages, MayBecome, Reached
      <4>3. Keeps(requests[n], requests'[n]) /\ requests'[n].stage = "dead"
        BY <3>1, <4>1, <4>2, Restaged
      <4> QED
        BY <4>2, <4>3
    <3>3. CASE requests[n].stage \notin {"sent", "checked", "committed"}
      <4>1. requests'[n] = requests[n]
        BY <1>5, <3>3 DEF Crash
      <4> QED
        BY <3>1, <4>1, <2>1 DEF Keeps, MayBecome, RequestOK
    <3> QED
      BY <3>2, <3>3
  <2>4. requests' = [n \in 1..Len(requests) |-> requests'[n]]
    BY <1>5, <2>2 DEF Crash
  <2>5. requests' \in Seq(Request) /\ Len(requests') = Len(requests)
    BY <2>1, <2>2, <2>3, <2>4 DEF Keeps
  <2> QED
    BY <2>1, <2>3, <2>5 DEF HandlersMove
<1>6. \A n \in DOMAIN requests : Deny(n) => HandlersMove
  BY <1>1 DEF Deny
<1> QED
  BY <1>1, <1>2, <1>3, <1>4, <1>5, <1>6

--------------------------------------------------------------------------------
(* Steps that write to the store. *)

(* What the write of request n owes: it is for the page the form was       *)
(* filled from, and replaces what the form was filled with.                *)
Entitled(n, j) ==
  LET r == requests[n]
  IN IF r.op = "create" THEN r.seen.key \in {New, NoPage}
     ELSE /\ r.seen.key = j
          /\ pages[j] # Absent
          /\ pages[j].version = r.seen.version
          /\ AsShown(pages[j].content) = r.seen.content

(* What a request is after its write. *)
Wrote(r, q, j) ==
  /\ q \in Request
  /\ q.tab = r.tab /\ q.op = r.op /\ q.page = r.page /\ q.draft = r.draft
  /\ q.version = r.version /\ q.seen = r.seen /\ q.saved = j /\ q.stage = "committed"

LEMMA Written ==
  ASSUME NEW r \in Request, NEW j \in ID, NEW q, q = [r EXCEPT !.stage = "committed", !.saved = j]
  PROVE  Wrote(r, q, j)
  BY DEF Request, Wrote, Stages

LEMMA CommitSafely ==
  ASSUME IInv, NEW n \in DOMAIN requests, NEW j \in ID, NEW page \in Page \union {Absent},
         Commit(n, j, page), Advances(j, page), nextID' \in ID, Entitled(n, j),
         requests[n].op = "create" =>
           requests[n].stage = "sent" /\ j = nextID + 1 /\ nextID' = nextID + 1,
         requests[n].op # "create" => nextID' = nextID,
         requests[n].op = "update" =>
           /\ requests[n].version > 0 /\ requests[n].page = j
           /\ page = [version |-> requests[n].version + 1, content |-> requests[n].draft]
  PROVE  IInv'
<1> DEFINE entry == [request |-> n, page |-> j, before |-> pages[j], after |-> page]
<1>1. /\ pages \in [ID -> Page \union {Absent}] /\ nextID \in Nat /\ nextID \in ID
      /\ requests \in Seq(Request) /\ audited \subseteq DOMAIN requests
      /\ commits \in Seq(CommitRecord)
      /\ Len(requests) <= MaxRequests
      /\ audited' = audited /\ tab' = tab /\ loads' = loads
  BY DEF IInv, Types, TypeOK, ID, Commit
<1>2. /\ pages' = [pages EXCEPT ![j] = page]
      /\ commits' = Append(commits, entry)
      /\ requests' = [requests EXCEPT ![n].stage = "committed", ![n].saved = j]
  BY DEF Commit
<1>3. /\ \A m \in DOMAIN requests : m # n => requests'[m] = requests[m]
      /\ Wrote(requests[n], requests'[n], j)
      /\ requests' \in Seq(Request) /\ DOMAIN requests' = DOMAIN requests
      /\ Len(requests') = Len(requests)
  <2>1. requests[n] \in Request
    BY <1>1
  <2>2. requests'[n] = [requests[n] EXCEPT !.stage = "committed", !.saved = j]
    BY <1>1, <1>2
  <2>3. Wrote(requests[n], requests'[n], j)
    BY <2>1, <2>2, Written
  <2>4. [requests[n] EXCEPT !.stage = "committed", !.saved = j] \in Request
    BY <2>2, <2>3 DEF Wrote
  <2>5. requests' = [requests EXCEPT ![n] = [requests[n] EXCEPT !.stage = "committed", !.saved = j]]
    BY <1>1, <1>2
  <2>6. requests' \in Seq(Request) /\ Len(requests') = Len(requests)
    BY <1>1, <2>4, <2>5
  <2>7. \A m \in DOMAIN requests : m # n => requests'[m] = requests[m]
    BY <1>1, <2>5
  <2> QED
    BY <1>1, <2>3, <2>6, <2>7
<1>4. \A m \in DOMAIN requests :
        /\ requests[m] \in Request /\ requests'[m] \in Request
        /\ requests'[m].tab = requests[m].tab
        /\ requests'[m].op = requests[m].op
        /\ requests'[m].page = requests[m].page
        /\ requests'[m].draft = requests[m].draft
        /\ requests'[m].version = requests[m].version
        /\ requests'[m].seen = requests[m].seen
        /\ m # n => requests'[m].saved = requests[m].saved
        /\ m # n => requests'[m].stage = requests[m].stage
  BY <1>1, <1>3 DEF Wrote
<1>5. requests'[n].saved = j /\ requests'[n].stage = "committed"
  BY <1>3 DEF Wrote
<1>6. /\ DOMAIN commits' = DOMAIN commits \union {Len(commits) + 1}
      /\ \A k \in DOMAIN commits : commits'[k] = commits[k]
      /\ commits'[Len(commits) + 1] = entry
  BY <1>1, <1>2
<1>7. \A i \in ID : \A v \in Nat : \A d : Known(i, v, d) => Known(i, v, d)'
  BY KnownAfterCommit DEF IInv
<1>8. Types'
  <2>1. pages' \in [ID -> Page \union {Absent}]
    BY <1>1, <1>2
  <2>2. n \in 1..MaxRequests
    BY <1>1, BoundsAssumption
  <2>3. entry \in CommitRecord
    BY <1>1, <2>2 DEF CommitRecord
  <2>4. commits' \in Seq(CommitRecord)
    BY <1>1, <1>2, <2>3
  <2>5. \A k \in DOMAIN commits' : commits'[k].request \in DOMAIN requests' /\ commits'[k].page \in ID
    BY <1>3, <1>6 DEF IInv, Types, TypeOK
  <2>6. tab' \in [Tabs -> Editor] /\ loads' \subseteq Load
    BY <1>1 DEF IInv, Types, TypeOK
  <2> QED
    BY <1>1, <1>3, <2>1, <2>4, <2>5, <2>6 DEF Types, TypeOK
<1>9. Ids'
  <2>1. \A m \in DOMAIN requests' :
          requests'[m].op = "create" /\ requests'[m].stage = "sent" => requests'[m].saved = NoPage
    <3> SUFFICES ASSUME NEW m \in DOMAIN requests, requests'[m].op = "create", requests'[m].stage = "sent"
                 PROVE  requests'[m].saved = NoPage
      BY <1>3
    <3>1. m # n
      BY <1>5
    <3> QED
      BY <3>1, <1>4 DEF IInv, Ids
  <2>2. \A i \in ID : pages'[i] # Absent => i <= nextID'
    <3> SUFFICES ASSUME NEW i \in ID, pages'[i] # Absent
                 PROVE  i <= nextID'
      OBVIOUS
    <3>1. CASE i # j
      <4>1. pages[i] # Absent
        BY <1>1, <1>2, <3>1
      <4>2. i <= nextID /\ i \in Int
        BY <4>1 DEF IInv, Ids, ID
      <4> QED
        BY <1>1, <4>2
    <3>2. CASE i = j
      <4>1. CASE nextID' = nextID /\ pages[j] # Absent
        BY <4>1, <3>2 DEF IInv, Ids
      <4>2. CASE j = nextID + 1 /\ nextID' = nextID + 1
        BY <4>2, <3>2, <1>1
      <4> QED
        BY <4>1, <4>2 DEF Advances
    <3> QED
      BY <3>1, <3>2
  <2>3. IsFiniteSet(Created)
    <3>1. DOMAIN requests = 1..Len(requests) /\ Len(requests) \in Nat
      BY <1>1
    <3>2. IsFiniteSet(DOMAIN requests)
      BY <3>1, FS_Interval
    <3>3. Created \subseteq DOMAIN requests
      BY DEF Created
    <3> QED
      BY <3>2, <3>3, FS_Subset
  <2>4. nextID' = 1 + Cardinality(Created')
    <3>1. CASE requests[n].op = "create"
      <4>1. n \notin Created
        BY <3>1 DEF IInv, Ids, Created
      <4>2. j # NoPage
        BY DEF ID, NoPage
      <4>3. Created' = Created \union {n}
        BY <1>3, <1>4, <1>5, <3>1, <4>2 DEF Created
      <4>4. Cardinality(Created \union {n}) = Cardinality(Created) + 1
        BY <2>3, <4>1, FS_AddElement
      <4>5. Cardinality(Created) \in Nat
        BY <2>3, FS_CardinalityType
      <4> QED
        BY <3>1, <4>3, <4>4, <4>5 DEF IInv, Ids
    <3>2. CASE requests[n].op # "create"
      <4>1. Created' = Created
        BY <1>3, <1>4, <3>2 DEF Created
      <4> QED
        BY <3>2, <4>1 DEF IInv, Ids
    <3> QED
      BY <3>1, <3>2
  <2> QED
    BY <2>1, <2>2, <2>4 DEF Ids
<1>10. Committed' = Committed \union {n}
  BY <1>6 DEF Committed
<1>11. \A m \in DOMAIN requests :
         /\ requests[m].seen.version \in Nat /\ requests[m].version \in Nat
         /\ requests[m].seen.key \in Int
  BY <1>4 DEF Request, Seen, Route, ID, New, NoPage
<1>12. RequestsOK'
  <2> SUFFICES ASSUME NEW m \in DOMAIN requests
               PROVE  RequestOK(m)'
    BY <1>3 DEF RequestsOK
  <2>1. RequestOK(m)
    BY DEF IInv, RequestsOK
  <2>2. CASE m # n
    <3>1. \A d : requests[m].seen.key \in ID /\ Known(requests[m].seen.key, requests[m].seen.version, d) =>
             Known(requests[m].seen.key, requests[m].seen.version, d)'
      BY <1>4, <1>7, <1>11
    <3>2. requests[m].stage \in Reached /\ requests[m].op = "update" =>
            Known(requests[m].page, requests[m].version + 1, requests[m].draft)'
      <4> SUFFICES ASSUME requests[m].stage \in Reached, requests[m].op = "update"
                   PROVE  Known(requests[m].page, requests[m].version + 1, requests[m].draft)'
        OBVIOUS
      <4>1. requests[m].page \in ID /\ Known(requests[m].page, requests[m].version + 1, requests[m].draft)
        BY <2>1 DEF RequestOK
      <4>2. requests[m].version + 1 \in Nat
        BY <1>11
      <4> QED
        BY <4>1, <4>2, <1>4, <1>7
    <3> QED
      BY <2>1, <2>2, <3>1, <3>2, <1>1, <1>3, <1>10 DEF RequestOK
  <2>3. CASE m = n
    <3>1. requests[n].seen.key \in ID =>
            Known(requests[n].seen.key, requests[n].seen.version, requests[n].seen.content)'
      BY <2>1, <2>3, <1>4, <1>7, <1>11 DEF RequestOK
    <3>2. requests[n].op = "update" =>
            requests[n].version > 0 /\ Known(requests[n].page, requests[n].version + 1, requests[n].draft)'
      <4> SUFFICES ASSUME requests[n].op = "update"
                   PROVE  requests[n].version > 0 /\ Known(requests[n].page, requests[n].version + 1, requests[n].draft)'
        OBVIOUS
      <4>1. PICK v, d : v = requests[n].version + 1 /\ d = requests[n].draft
        OBVIOUS
      <4>2. page = [version |-> v, content |-> d]
        BY <4>1
      <4>3. page.version = v /\ page.content = d
        BY <4>2
      <4>4. pages'[j] = page
        BY <1>1, <1>2
      <4>5. d \in Content /\ AsShown(d) = d
        BY <4>1, <1>4, Showing DEF Request
      <4>6. v \in Nat
        BY <4>1, <1>11
      <4>7. j \in 1..nextID'
        <5>1. pages[j] # Absent
          BY DEF Entitled
        <5>2. j <= nextID /\ j \in Int /\ j >= 1
          BY <5>1 DEF IInv, Ids, ID
        <5> QED
          BY <5>2, <1>1
      <4>8. page # Absent
        <5>1. page \in Page
          BY <4>2, <4>5, <4>6, <4>1, <1>11 DEF Page
        <5> QED
          BY <5>1, AbsentAssumption
      <4>9. Holds(j, v, d)'
        BY <4>3, <4>4, <4>5, <4>6, <4>7 DEF Holds
      <4>10. d \in Had(j, v)'
        BY <4>3, <4>4, <4>5, <4>8 DEF Had
      <4>11. Known(j, v, d)'
        BY <4>5, <4>9, <4>10 DEF Known
      <4>12. requests'[n].page = j /\ v = requests'[n].version + 1 /\ d = requests'[n].draft
        BY <4>1, <1>4
      <4> QED
        BY <4>11, <4>12
    <3> QED
      BY <2>1, <2>3, <3>1, <3>2, <1>1, <1>4, <1>5, <1>10 DEF RequestOK
  <2> QED
    BY <2>2, <2>3
<1>13. TabsOK'
  <2> SUFFICES ASSUME NEW t \in Tabs
               PROVE  TabOK(t)'
    BY <1>1 DEF TabsOK
  <2>1. FormOK(t, tab[t]) /\ tab[t] \in Editor
    BY DEF IInv, TabsOK, TabOK, Types, TypeOK
  <2>2. tab[t].key \in ID => Known(tab[t].key, tab[t].version, tab[t].baseline)'
    <3>1. tab[t].version \in Nat
      BY <2>1 DEF Editor
    <3> QED
      BY <2>1, <3>1, <1>1, <1>7 DEF FormOK
  <2> QED
    BY <2>1, <2>2, <1>1, <1>3, <1>4 DEF TabOK, FormOK
<1>14. LoadsOK'
  <2> SUFFICES ASSUME NEW l \in loads
               PROVE  LoadOK(l)'
    BY <1>1 DEF LoadsOK
  <2>1. LoadOK(l)
    BY DEF IInv, LoadsOK
  <2>2. l.page \in ID /\ l.got \in Page => Known(l.page, l.got.version, AsShown(l.got.content))'
    BY <2>1, <1>7 DEF LoadOK, Page
  <2> QED
    BY <2>1, <2>2, <1>1 DEF LoadOK
<1>15. History'
  <2>1. NoLostUpdate /\ SavesLandOnTheirPage /\ audited \subseteq Committed
    BY DEF IInv, History
  <2>2. \A k \in DOMAIN commits : commits[k].request \in DOMAIN requests
    BY DEF IInv, Types, TypeOK
  <2>3. entry.request = n /\ entry.page = j /\ entry.before = pages[j]
    OBVIOUS
  <2>4. \A k \in DOMAIN commits' : k # Len(commits) + 1 => k \in DOMAIN commits /\ commits'[k] = commits[k]
    BY <1>6
  <2>5. \A k \in DOMAIN commits : k \in Overwrites' <=> k \in Overwrites
    BY <1>4, <1>6, <2>2 DEF Overwrites
  <2>6. Len(commits) + 1 \in Overwrites' <=> requests[n].op # "create"
    BY <1>4, <1>6, <2>3 DEF Overwrites
  <2>7. NoLostUpdate'
    <3> SUFFICES ASSUME NEW k \in Overwrites'
                 PROVE  LET seen == requests'[commits'[k].request].seen
                            before == commits'[k].before
                        IN before # Absent /\ before.version = seen.version /\ AsShown(before.content) = seen.content
      BY DEF NoLostUpdate
    <3>1. CASE k = Len(commits) + 1
      BY <3>1, <2>3, <2>6, <1>4, <1>6 DEF Entitled
    <3>2. CASE k # Len(commits) + 1
      BY <3>2, <2>1, <2>2, <2>4, <2>5, <1>4 DEF NoLostUpdate, Overwrites
    <3> QED
      BY <3>1, <3>2
  <2>8. SavesLandOnTheirPage'
    <3> SUFFICES ASSUME NEW k \in DOMAIN commits'
                 PROVE  requests'[commits'[k].request].seen.key \in
                          IF k \in Overwrites' THEN {commits'[k].page} ELSE {New, NoPage}
      BY DEF SavesLandOnTheirPage
    <3>1. CASE k = Len(commits) + 1
      BY <3>1, <2>3, <2>6, <1>4, <1>6 DEF Entitled
    <3>2. CASE k # Len(commits) + 1
      <4>1. k \in DOMAIN commits /\ commits'[k] = commits[k] /\ (k \in Overwrites' <=> k \in Overwrites)
        BY <3>2, <2>4, <2>5
      <4>2. requests'[commits'[k].request].seen = requests[commits[k].request].seen
        BY <4>1, <2>2, <1>4
      <4> QED
        BY <4>1, <4>2, <2>1 DEF SavesLandOnTheirPage
    <3> QED
      BY <3>1, <3>2
  <2> QED
    BY <2>1, <2>7, <2>8, <1>1, <1>10 DEF History
<1> QED
  BY <1>8, <1>9, <1>12, <1>13, <1>14, <1>15 DEF IInv

(* The handlers that write, or refuse to. *)
LEMMA WritesStep ==
  ASSUME IInv, NEW n \in DOMAIN requests,
         CreatePage(n) \/ UpdatePage(n) \/ DeletePage(n)
  PROVE  IInv'
<1>1. /\ pages \in [ID -> Page \union {Absent}] /\ nextID \in ID
      /\ requests[n] \in Request /\ RequestOK(n)
  BY DEF IInv, Types, TypeOK, RequestsOK
<1>2. requests[n].version \in Nat /\ requests[n].draft \in Content
  BY <1>1, Showing DEF Request
<1>3. ASSUME Refuse(n), requests[n].stage \in {"sent", "checked"}
      PROVE  IInv'
  BY <1>3, HandlersStep, HandlersMoveSafely
(* The page a request with a version may write to, if it still has it. *)
<1>4. ASSUME requests[n].op # "create", requests[n].version > 0,
             Accepts(requests[n].page, requests[n].version)
      PROVE  /\ requests[n].page \in ID
             /\ Entitled(n, requests[n].page)
             /\ pages[requests[n].page] \in Page
             /\ pages[requests[n].page].version = requests[n].version
  <2>1. PICK i, v, d : i = requests[n].page /\ v = requests[n].version /\ d = requests[n].seen.content
    OBVIOUS
  <2>2. /\ i \in ID /\ pages[i] # Absent /\ pages[i].version = v
        /\ requests[n].seen.key = i /\ requests[n].seen.version = v
    BY <1>1, <1>4, <2>1 DEF Accepts, Live, RequestOK
  <2>3. Known(i, v, d)
    BY <1>1, <2>1, <2>2 DEF RequestOK
  <2>4. AsShown(pages[i].content) = d
    BY <2>2, <2>3 DEF Known, Holds
  <2> QED
    BY <1>1, <1>4, <2>1, <2>2, <2>4 DEF Entitled
<1>5. CASE CreatePage(n)
  <2>1. At(n, "create", "sent")
    BY <1>5 DEF CreatePage
  <2>2. CASE Refuse(n)
    BY <1>3, <2>1, <2>2 DEF At
  <2>3. CASE /\ nextID' = nextID + 1
             /\ Commit(n, nextID + 1, [version |-> FirstVersion, content |-> requests[n].draft])
    <3> DEFINE page == [version |-> FirstVersion, content |-> requests[n].draft]
    <3>1. page \in Page
      BY <1>2 DEF Page, FirstVersion
    <3>2. nextID + 1 \in ID
      <4>1. requests \in Seq(Request) /\ Len(requests) <= MaxRequests /\ Len(requests) \in Nat
        BY DEF IInv, Types, TypeOK
      <4>2. DOMAIN requests = 1..Len(requests)
        BY <4>1
      <4>3. Created \subseteq DOMAIN requests \ {n}
        BY <2>1 DEF Created, At, IInv, Ids
      <4>4. /\ IsFiniteSet(DOMAIN requests) /\ Cardinality(DOMAIN requests) = Len(requests)
        <5>1. IsFiniteSet(1..Len(requests)) /\ Cardinality(1..Len(requests)) = Len(requests)
          <6>1. Len(requests) \in Int /\ 1 \in Int /\ ~(1 > Len(requests))
            BY <4>1, <4>2
          <6>2. IsFiniteSet(1..Len(requests)) /\ Cardinality(1..Len(requests)) = Len(requests) - 1 + 1
            BY <6>1, FS_Interval
          <6> QED
            BY <6>2, <4>1
        <5> QED
          BY <5>1, <4>2
      <4>5. /\ IsFiniteSet(DOMAIN requests \ {n})
            /\ Cardinality(DOMAIN requests \ {n}) = Len(requests) - 1
        BY <4>4, FS_RemoveElement
      <4>6. Cardinality(Created) <= Len(requests) - 1 /\ Cardinality(Created) \in Nat
        <5>1. /\ Cardinality(Created) <= Cardinality(DOMAIN requests \ {n})
              /\ IsFiniteSet(Created)
          BY <4>3, <4>5, FS_Subset
        <5>2. Cardinality(Created) \in Nat
          BY <5>1, FS_CardinalityType
        <5> QED
          BY <5>1, <5>2, <4>5
      <4>7. nextID = 1 + Cardinality(Created)
        BY DEF IInv, Ids
      <4> QED
        BY <4>1, <4>6, <4>7, BoundsAssumption DEF ID
    <3>3. Advances(nextID + 1, page)
      BY <2>3, <3>1 DEF Advances
    <3>4. Entitled(n, nextID + 1)
      BY <1>1, <2>1 DEF Entitled, At, RequestOK
    <3>5. requests[n].op = "create" /\ requests[n].stage = "sent"
      BY <2>1 DEF At
    <3> HIDE DEF page
    <3>6. Commit(n, nextID + 1, page)
      BY <2>3 DEF page
    <3>7. page \in Page \union {Absent} /\ nextID' \in ID
      BY <3>1, <3>2, <2>3
    <3> QED
      BY <2>3, <3>2, <3>3, <3>4, <3>5, <3>6, <3>7, CommitSafely
  <2> QED
    BY <1>5, <2>2, <2>3 DEF CreatePage
<1>6. CASE UpdatePage(n)
  <2>1. At(n, "update", "checked") /\ nextID' = nextID
    BY <1>6 DEF UpdatePage
  <2>2. CASE Refuse(n)
    BY <1>3, <2>1, <2>2 DEF At
  <2>3. CASE /\ Accepts(requests[n].page, requests[n].version)
             /\ Commit(n, requests[n].page,
                  [version |-> pages[requests[n].page].version + 1, content |-> requests[n].draft])
    <3>1. PICK j : j = requests[n].page
      OBVIOUS
    <3>2. PICK page : page = [version |-> requests[n].version + 1, content |-> requests[n].draft]
      OBVIOUS
    <3>3. requests[n].op = "update" /\ requests[n].version > 0
      BY <1>1, <2>1 DEF At, RequestOK
    <3>4. /\ j \in ID /\ Entitled(n, j) /\ pages[j] \in Page
          /\ pages[j].version = requests[n].version
      BY <1>4, <2>3, <3>1, <3>3
    <3>5. Commit(n, j, page)
      BY <2>3, <3>1, <3>2, <3>4
    <3>6. page \in Page /\ page.version > pages[j].version
      BY <1>2, <3>2, <3>4 DEF Page
    <3>7. Advances(j, page)
      BY <2>1, <3>4, <3>6, AbsentAssumption DEF Advances
    <3>8. page \in Page \union {Absent} /\ nextID' \in ID
      BY <1>1, <2>1, <3>6
    <3>9. requests[n].op # "create"
      BY <3>3
    <3> QED
      BY <2>1, <3>1, <3>2, <3>3, <3>4, <3>5, <3>7, <3>8, <3>9, CommitSafely
  <2> QED
    BY <1>6, <2>2, <2>3 DEF UpdatePage
<1>7. CASE DeletePage(n)
  <2>1. At(n, "delete", "sent") /\ nextID' = nextID
    BY <1>7 DEF DeletePage
  <2>2. CASE Refuse(n)
    BY <1>3, <2>1, <2>2 DEF At
  <2>3. CASE /\ requests[n].version > 0
             /\ Accepts(requests[n].page, requests[n].version)
             /\ Commit(n, requests[n].page, Absent)
    <3>1. PICK j : j = requests[n].page
      OBVIOUS
    <3>2. requests[n].op = "delete"
      BY <2>1 DEF At
    <3>3. j \in ID /\ Entitled(n, j) /\ pages[j] \in Page
      BY <1>4, <2>3, <3>1, <3>2
    <3>4. Advances(j, Absent)
      BY <2>1, <3>3, AbsentAssumption DEF Advances
    <3>5. Commit(n, j, Absent)
      BY <2>3, <3>1
    <3>6. Absent \in Page \union {Absent} /\ nextID' \in ID
      BY <1>1, <2>1
    <3>7. requests[n].op # "create" /\ requests[n].op # "update"
      BY <3>2
    <3> QED
      BY <2>1, <3>3, <3>4, <3>5, <3>6, <3>7, CommitSafely
  <2> QED
    BY <1>7, <2>2, <2>3 DEF DeletePage
<1> QED
  BY <1>5, <1>6, <1>7

--------------------------------------------------------------------------------
(* The editors. *)

(* A form at another state, and the views it asks for. *)
TabMoves(t, e) ==
  /\ e \in Editor
  /\ tab' = [tab EXCEPT ![t] = e]
  /\ FormOK(t, e)
  /\ UNCHANGED server

(* The same view of the same form. *)
StaysInView(t, e) ==
  /\ e.route = tab[t].route /\ e.form = tab[t].form /\ e.generation = tab[t].generation
  /\ loads' = loads

(* A new view of what the form holds. *)
TurnsOver(t, e) == e.generation = tab[t].generation + 1 /\ loads' = loads

(* A new view of page p, which is asked for. *)
Asks(t, e, p) ==
  /\ p \in Route
  /\ e.generation = tab[t].generation + 1 /\ ~e.form /\ e.route = p
  /\ AskFor(t, tab[t], p)

(* At most one load is new, and it is for the new view. *)
AreAsked(t, e, new) ==
  /\ loads' = loads \union new
  /\ new \subseteq Load
  /\ \A l \in new :
       /\ l.tab = t /\ l.generation = e.generation /\ e.generation > tab[t].generation
       /\ ~e.form /\ e.route = l.page /\ l.page # NoPage /\ l.got = Unread
       /\ \A m \in new : m = l

(* A step of the editors leaves the store and the requests alone. *)
LEMMA StoreAtRest ==
  ASSUME IInv, UNCHANGED server, requests' = requests, tab' \in [Tabs -> Editor], loads' \subseteq Load
  PROVE  Types' /\ Ids' /\ RequestsOK' /\ History' /\ \A i, v, d : Known(i, v, d)' <=> Known(i, v, d)
<1>1. UNCHANGED <<pages, nextID, audited, commits, requests>>
  BY DEF server
<1>2. \A i, v, d : Known(i, v, d)' <=> Known(i, v, d)
  BY <1>1, KnownUnchanged
<1>3. Types'
  BY <1>1 DEF IInv, Types, TypeOK
<1>4. Ids'
  BY <1>1 DEF IInv, Ids, Created
<1>5. RequestsOK'
  BY <1>1, <1>2 DEF IInv, RequestsOK, RequestOK, Committed
<1>6. History'
  <2>1. Overwrites' = Overwrites
    BY <1>1 DEF Overwrites
  <2> QED
    BY <1>1, <2>1 DEF IInv, History, NoLostUpdate, SavesLandOnTheirPage, Committed
<1> QED
  BY <1>2, <1>3, <1>4, <1>5, <1>6

LEMMA TabMovesSafely ==
  ASSUME IInv, NEW t \in Tabs, NEW e, TabMoves(t, e), requests' = requests,
         StaysInView(t, e) \/ TurnsOver(t, e) \/ \E p : Asks(t, e, p)
  PROVE  IInv'
<1>1. /\ tab \in [Tabs -> Editor] /\ loads \subseteq Load
      /\ tab' = [tab EXCEPT ![t] = e] /\ e \in Editor
      /\ UNCHANGED <<pages, nextID, audited, commits, requests>>
  BY DEF IInv, Types, TypeOK, TabMoves, server
<1>2. /\ tab'[t] = e
      /\ \A u \in Tabs : u # t => tab'[u] = tab[u]
      /\ tab' \in [Tabs -> Editor]
  BY <1>1
<1>3. tab[t].generation \in Nat /\ e.generation \in Nat /\ tab[t].generation <= e.generation
  BY <1>1 DEF StaysInView, TurnsOver, Asks, Editor
<1>4. PICK new : AreAsked(t, e, new)
  <2>1. CASE loads' = loads
    <3>1. AreAsked(t, e, {})
      BY <2>1 DEF AreAsked
    <3> QED
      BY <3>1
  <2>2. ASSUME NEW p, Asks(t, e, p), p # NoPage
        PROVE  \E new : AreAsked(t, e, new)
    <3>1. PICK l : l = [tab |-> t, page |-> p, generation |-> e.generation, got |-> Unread]
      OBVIOUS
    <3>2. l \in Load
      BY <2>2, <3>1, <1>3 DEF Load, Asks
    <3>3. loads' = loads \union {l}
      BY <2>2, <3>1 DEF Asks, AskFor
    <3>4. e.generation > tab[t].generation /\ ~e.form /\ e.route = p
      BY <2>2, <1>3 DEF Asks
    <3>5. l.tab = t /\ l.generation = e.generation /\ l.page = p /\ l.got = Unread
      BY <3>1
    <3>6. AreAsked(t, e, {l})
      BY <2>2, <3>2, <3>3, <3>4, <3>5 DEF AreAsked
    <3> QED
      BY <3>6
  <2>3. ASSUME NEW p, Asks(t, e, p), p = NoPage
        PROVE  loads' = loads
    BY <2>3 DEF Asks, AskFor
  <2> QED
    BY <2>1, <2>2, <2>3 DEF StaysInView, TurnsOver
<1>5. Types' /\ Ids' /\ RequestsOK' /\ History' /\ \A i, v, d : Known(i, v, d)' <=> Known(i, v, d)
  <2>1. loads' \subseteq Load
    BY <1>1, <1>4 DEF AreAsked
  <2> QED
    BY <1>2, <2>1, StoreAtRest DEF TabMoves
<1>6. TabsOK'
  <2> SUFFICES ASSUME NEW u \in Tabs
               PROVE  TabOK(u)'
    BY DEF TabsOK
  <2>1. CASE u = t
    BY <2>1, <1>1, <1>2, <1>5 DEF TabMoves, TabOK, FormOK
  <2>2. CASE u # t
    BY <2>2, <1>1, <1>2, <1>5 DEF IInv, TabsOK, TabOK, FormOK
  <2> QED
    BY <2>1, <2>2
<1>7. LoadsOK'
  <2>1. \A l \in loads : LoadOK(l) /\ l.tab \in Tabs /\ l.generation \in Nat
    BY <1>1 DEF IInv, LoadsOK, Load
  <2>2. ASSUME NEW l \in loads
        PROVE  LoadOK(l)'
    <3>1. /\ l.generation <= tab'[l.tab].generation
          /\ l.generation = tab'[l.tab].generation => ~tab'[l.tab].form /\ tab'[l.tab].route = l.page
      <4>1. CASE l.tab # t
        BY <4>1, <2>1, <1>2 DEF LoadOK
      <4>2. CASE l.tab = t /\ StaysInView(t, e)
        BY <4>2, <2>1, <1>2 DEF LoadOK, StaysInView
      <4>3. CASE l.tab = t /\ ~StaysInView(t, e)
        <5>1. e.generation = tab[t].generation + 1
          BY <4>3 DEF TurnsOver, Asks
        <5> QED
          BY <4>3, <5>1, <2>1, <1>2, <1>3 DEF LoadOK
      <4> QED
        BY <4>1, <4>2, <4>3
    <3>2. \A m \in loads' : m.tab = l.tab /\ m.generation = l.generation => m = l
      <4> SUFFICES ASSUME NEW m \in loads', m.tab = l.tab, m.generation = l.generation
                   PROVE  m = l
        OBVIOUS
      <4>1. CASE m \in loads
        BY <4>1, <2>1 DEF LoadOK
      <4>2. CASE m \notin loads
        <5>1. l.tab = t /\ l.generation > tab[t].generation
          BY <4>2, <1>4 DEF AreAsked
        <5> QED
          BY <5>1, <2>1, <1>3 DEF LoadOK
      <4> QED
        BY <4>1, <4>2
    <3> QED
      BY <2>1, <3>1, <3>2, <1>5 DEF LoadOK
  <2>3. ASSUME NEW l \in loads', l \notin loads
        PROVE  LoadOK(l)'
    <3>1. /\ l.tab = t /\ l.generation = e.generation /\ e.generation > tab[t].generation
          /\ ~e.form /\ e.route = l.page /\ l.page # NoPage /\ l.got = Unread
      BY <2>3, <1>4 DEF AreAsked
    <3>2. l.got \notin Page
      BY <3>1, AbsentAssumption
    <3>3. \A m \in loads' : m.tab = l.tab /\ m.generation = l.generation => m = l
      <4> SUFFICES ASSUME NEW m \in loads', m.tab = l.tab, m.generation = l.generation
                   PROVE  m = l
        OBVIOUS
      <4>1. CASE m \in loads
        BY <4>1, <3>1, <2>1, <1>3 DEF LoadOK
      <4>2. CASE m \notin loads
        BY <4>2, <2>3, <1>4 DEF AreAsked
      <4> QED
        BY <4>1, <4>2
    <3>4. tab'[l.tab] = e
      BY <3>1, <1>2
    <3> QED
      BY <3>1, <3>2, <3>3, <3>4, <1>3 DEF LoadOK
  <2> QED
    BY <2>2, <2>3 DEF LoadsOK
<1> QED
  BY <1>5, <1>6, <1>7 DEF IInv

(* A tab opens another view, or goes on with its form. *)
LEMMA Opening ==
  ASSUME NEW f \in Editor, NEW p \in Route, NEW e,
         e \in {Opened(f, p), [Opened(f, p) EXCEPT !.saving = 0]}
  PROVE  /\ e \in Editor
         /\ e.route = p /\ ~e.form /\ e.key = NoPage /\ e.version = 0
         /\ e.generation = f.generation + 1 /\ e.saving \in {f.saving, 0}
<1>1. NoPage \in Route /\ 0 \in Nat /\ 0 \in 0..MaxRequests
  BY BoundsAssumption DEF Route
<1>2. PICK d : d = Discarded(f)
  OBVIOUS
<1>3. d \in Editor /\ d.generation = f.generation /\ d.saving = f.saving /\ d.key = NoPage /\ d.version = 0
  BY <1>1, <1>2 DEF Discarded, Editor
<1>4. PICK g \in Nat : g = f.generation + 1
  BY DEF Editor
<1>5. PICK o : o = [d EXCEPT !.route = p, !.generation = g, !.form = FALSE,
                             !.draft = Blank, !.baseline = Blank]
  OBVIOUS
<1>6. o = Opened(f, p)
  BY <1>2, <1>3, <1>4, <1>5 DEF Opened
<1>7. /\ o \in Editor
      /\ o.route = p /\ ~o.form /\ o.key = NoPage /\ o.version = 0
      /\ o.generation = g /\ o.saving = f.saving
  BY <1>3, <1>5, BlankIsDraft DEF Editor
<1>8. CASE e = o
  BY <1>4, <1>7, <1>8
<1>9. CASE e = [o EXCEPT !.saving = 0]
  <2>1. /\ e \in Editor
        /\ e.route = p /\ ~e.form /\ e.key = NoPage /\ e.version = 0
        /\ e.generation = g /\ e.saving = 0
    BY <1>1, <1>7, <1>9 DEF Editor
  <2> QED
    BY <1>4, <2>1
<1> QED
  BY <1>6, <1>8, <1>9

LEMMA NavigateSafely ==
  ASSUME IInv, NEW t \in Tabs, NEW p \in Route, Navigate(t, p)
  PROVE  IInv'
<1>1. tab[t] \in Editor /\ tab[t].saving = 0
  BY DEF IInv, Types, TypeOK, Navigate, MayNavigate
<1>2. PICK e : e = Opened(tab[t], p)
  OBVIOUS
<1>3. /\ e \in Editor
      /\ e.route = p /\ ~e.form /\ e.key = NoPage /\ e.version = 0
      /\ e.generation = tab[t].generation + 1 /\ e.saving = 0
  BY <1>1, <1>2, Opening
<1>4. FormOK(t, e)
  BY <1>3 DEF FormOK, NoPage, ID
<1>5. TabMoves(t, e) /\ requests' = requests
  BY <1>2, <1>3, <1>4 DEF TabMoves, Navigate
<1>6. Asks(t, e, p)
  BY <1>3 DEF Asks, Navigate
<1> QED
  BY <1>5, <1>6, TabMovesSafely

LEMMA SwitchPaneSafely ==
  ASSUME IInv, NEW t \in Tabs, NEW shown \in BOOLEAN, SwitchPane(t, shown)
  PROVE  IInv'
<1>1. PICK f : f = tab[t]
  OBVIOUS
<1>2. f \in Editor /\ f.saving = 0 /\ FormOK(t, f)
  BY <1>1 DEF IInv, Types, TypeOK, TabsOK, TabOK, SwitchPane, MayNavigate
<1>3. PICK g \in Nat : g = f.generation + 1
  BY <1>2 DEF Editor
<1>4. PICK e : e = [f EXCEPT !.route = f.key, !.generation = g, !.form = shown]
  OBVIOUS
<1>5. /\ e \in Editor
      /\ e.route = f.key /\ e.key = f.key /\ e.version = f.version /\ e.baseline = f.baseline
      /\ e.generation = g /\ e.saving = 0
  <2>1. f \in Editor /\ f.saving = 0
    BY <1>2
  <2> QED
    BY <2>1, <1>4 DEF Editor
<1>6. FormOK(t, e)
  BY <1>2, <1>5 DEF FormOK
<1>7. TabMoves(t, e) /\ requests' = requests /\ loads' = loads
  BY <1>1, <1>3, <1>4, <1>5, <1>6 DEF TabMoves, SwitchPane
<1>8. TurnsOver(t, e)
  BY <1>1, <1>3, <1>5, <1>7 DEF TurnsOver
<1> QED
  BY <1>7, <1>8, TabMovesSafely

(* The form as it was, but for what its user typed, the history, and a     *)
(* save that ended.                                                        *)
SameForm(f, e) ==
  /\ e \in Editor
  /\ e.route = f.route /\ e.form = f.form /\ e.key = f.key /\ e.version = f.version
  /\ e.baseline = f.baseline /\ e.generation = f.generation /\ e.saving \in {f.saving, 0}

LEMMA SameFormSafely ==
  ASSUME IInv, NEW t \in Tabs, NEW e, SameForm(tab[t], e),
         tab' = [tab EXCEPT ![t] = e], UNCHANGED <<server, requests, loads>>
  PROVE  IInv'
<1>1. FormOK(t, tab[t])
  BY DEF IInv, TabsOK, TabOK
<1>2. FormOK(t, e)
  BY <1>1 DEF FormOK, SameForm
<1>3. UNCHANGED server /\ requests' = requests /\ loads' = loads
  OBVIOUS
<1>4. TabMoves(t, e)
  BY <1>2, <1>3 DEF TabMoves, SameForm
<1>5. StaysInView(t, e)
  BY <1>3 DEF StaysInView, SameForm
<1> QED
  BY <1>3, <1>4, <1>5, TabMovesSafely

LEMMA EditingSafely ==
  ASSUME IInv, NEW t \in Tabs,
         BackRefused(t) \/ BackRestored(t) \/ \E c \in Drafts : Edit(t, c)
  PROVE  IInv'
<1>1. PICK f : f = tab[t]
  OBVIOUS
<1>2. f \in Editor
  BY <1>1 DEF IInv, Types, TypeOK
<1>3. PICK e : /\ e \in {[f EXCEPT !.restoring = TRUE], [f EXCEPT !.restoring = FALSE]}
                       \union {[f EXCEPT !.draft = c] : c \in Drafts}
              /\ tab' = [tab EXCEPT ![t] = e]
              /\ UNCHANGED <<server, requests, loads>>
  <2>1. CASE BackRefused(t)
    BY <1>1, <2>1 DEF BackRefused
  <2>2. CASE BackRestored(t)
    BY <1>1, <2>2 DEF BackRestored
  <2>3. CASE \E c \in Drafts : Edit(t, c)
    BY <1>1, <2>3 DEF Edit
  <2> QED
    BY <2>1, <2>2, <2>3
<1>4. SameForm(f, e)
  BY <1>2, <1>3 DEF SameForm, Editor
<1> QED
  BY <1>1, <1>3, <1>4, SameFormSafely

(* A form that is submitted: the request takes what the form holds. *)
LEMMA SubmitSafely ==
  ASSUME IInv, NEW t \in Tabs, NEW op \in {"create", "update", "delete"}, Submit(t, op),
         op = "create" <=> tab[t].route = New
  PROVE  IInv'
<1>1. PICK f, n, s, r, e :
        /\ f = tab[t] /\ n = Len(requests) + 1
        /\ s = [key |-> f.key, version |-> f.version, content |-> f.baseline]
        /\ r = [tab |-> t, op |-> op, page |-> f.route, draft |-> f.draft, version |-> f.version,
                seen |-> s, stage |-> "sent", saved |-> NoPage]
        /\ e = [f EXCEPT !.saving = n]
  OBVIOUS
<1>2. /\ requests \in Seq(Request) /\ tab \in [Tabs -> Editor] /\ loads \subseteq Load
      /\ UNCHANGED <<pages, nextID, audited, commits>> /\ loads' = loads
  BY DEF IInv, Types, TypeOK, Submit, server
<1>3. f \in Editor
  BY <1>1, <1>2
<1>4. FormOK(t, f)
  BY <1>1 DEF IInv, TabsOK, TabOK
<1>5. /\ f.form /\ f.saving = 0
      /\ requests' = Append(requests, r)
      /\ tab' = [tab EXCEPT ![t] = e]
  BY <1>1 DEF Submit
<1>6. n \in 1..MaxRequests /\ n \in 0..MaxRequests /\ n # 0 /\ n \notin DOMAIN requests
  BY <1>1, <1>2, BoundsAssumption DEF Submit
<1>7. s \in Seen
  BY <1>1, <1>3 DEF Seen, Editor
<1>8. s.key = f.key /\ s.version = f.version /\ s.content = f.baseline
  BY <1>1
<1>9. r \in Request
  <2>1. NoPage \in ID \union {NoPage} /\ "sent" \in Stages
    BY DEF Stages
  <2> QED
    BY <1>1, <1>3, <1>7, <2>1 DEF Request, Editor
<1>10. /\ r.tab = t /\ r.op = op /\ r.page = f.route /\ r.version = f.version
       /\ r.seen = s /\ r.stage = "sent" /\ r.saved = NoPage
  BY <1>1
<1>11. /\ e \in Editor /\ e.saving = n
       /\ e.route = f.route /\ e.form = f.form /\ e.key = f.key /\ e.version = f.version
       /\ e.baseline = f.baseline /\ e.generation = f.generation
  BY <1>1, <1>3, <1>6 DEF Editor
<1>12. /\ requests' \in Seq(Request) /\ Len(requests') = n
       /\ DOMAIN requests' = DOMAIN requests \union {n}
       /\ \A m \in DOMAIN requests : requests'[m] = requests[m]
       /\ requests'[n] = r
  BY <1>1, <1>2, <1>5, <1>9
<1>13. /\ tab' \in [Tabs -> Editor] /\ tab'[t] = e
       /\ \A u \in Tabs : u # t => tab'[u] = tab[u]
  BY <1>2, <1>5, <1>11
<1>14. \A i, v, d : Known(i, v, d)' <=> Known(i, v, d)
  BY <1>2, KnownUnchanged
<1>15. Committed' = Committed
  BY <1>2 DEF Committed
<1>16. Types'
  <2>1. audited' \subseteq DOMAIN requests'
    BY <1>2, <1>12 DEF IInv, Types, TypeOK
  <2>2. \A k \in DOMAIN commits' : commits'[k].request \in DOMAIN requests' /\ commits'[k].page \in ID
    BY <1>2, <1>12 DEF IInv, Types, TypeOK
  <2> QED
    BY <1>2, <1>6, <1>12, <1>13, <2>1, <2>2 DEF IInv, Types, TypeOK
<1>17. Ids'
  <2>1. Created' = Created
    BY <1>6, <1>10, <1>12 DEF Created
  <2> QED
    BY <1>2, <1>10, <1>12, <2>1 DEF IInv, Ids
<1>18. RequestsOK'
  <2>1. ASSUME NEW m \in DOMAIN requests
        PROVE  RequestOK(m)'
    <3>1. RequestOK(m)
      BY DEF IInv, RequestsOK
    <3> QED
      BY <3>1, <1>2, <1>12, <1>14, <1>15 DEF RequestOK
  <2>2. RequestOK(n)'
    <3>1. op = "create" => f.key \in {New, NoPage}
      BY <1>1, <1>4, <1>5 DEF FormOK
    <3>2. op # "create" /\ f.version > 0 => f.key \in ID /\ f.route = f.key
      <4>1. f.key \in ID \union {New, NoPage}
        BY <1>3 DEF Editor, Route
      <4>2. f.version > 0 => f.key \notin {New, NoPage}
        BY <1>4 DEF FormOK
      <4>3. f.form => f.key \in {f.route, NoPage}
        BY <1>4 DEF FormOK
      <4> QED
        BY <4>1, <4>2, <4>3, <1>5
    <3>3. f.key \in ID => Known(f.key, f.version, f.baseline)
      BY <1>4 DEF FormOK
    <3> QED
      BY <3>1, <3>2, <3>3, <1>8, <1>10, <1>12, <1>14 DEF RequestOK, Reached
  <2> QED
    BY <2>1, <2>2, <1>12 DEF RequestsOK
<1>19. TabsOK'
  <2>1. ASSUME NEW u \in Tabs, u # t
        PROVE  TabOK(u)'
    BY <2>1, <1>12, <1>13, <1>14 DEF IInv, TabsOK, TabOK, FormOK
  <2>2. TabOK(t)'
    <3>1. /\ e.key \in ID => Known(e.key, e.version, e.baseline)
          /\ e.key \in {NoPage, New} => e.version = 0
          /\ e.form => e.key \in {e.route, NoPage}
      BY <1>4, <1>11 DEF FormOK
    <3>2. r.tab = t /\ r.version = e.version /\ r.seen.key = e.key
      BY <1>8, <1>10, <1>11
    <3>3. n \in DOMAIN requests' /\ requests'[n] = r
      BY <1>12
    <3>4. e.form /\ e.saving = n
      BY <1>5, <1>11
    <3> QED
      BY <3>1, <3>2, <3>3, <3>4, <1>13, <1>14 DEF TabOK, FormOK
  <2> QED
    BY <2>1, <2>2 DEF TabsOK
<1>20. LoadsOK'
  <2>1. \A u \in Tabs : tab'[u].route = tab[u].route /\ tab'[u].form = tab[u].form
                        /\ tab'[u].generation = tab[u].generation
    BY <1>1, <1>11, <1>13
  <2> QED
    BY <1>2, <1>14, <2>1 DEF IInv, LoadsOK, LoadOK, Load
<1>21. History'
  <2>1. \A k \in DOMAIN commits : commits[k].request \in DOMAIN requests
    BY DEF IInv, Types, TypeOK
  <2>2. Overwrites' = Overwrites
    BY <1>2, <1>12, <2>1 DEF Overwrites
  <2>3. NoLostUpdate'
    BY <1>2, <1>12, <2>1, <2>2 DEF IInv, History, NoLostUpdate, Overwrites
  <2>4. SavesLandOnTheirPage'
    BY <1>2, <1>12, <2>1, <2>2 DEF IInv, History, SavesLandOnTheirPage
  <2> QED
    BY <1>2, <1>15, <2>3, <2>4 DEF IInv, History
<1> QED
  BY <1>16, <1>17, <1>18, <1>19, <1>20, <1>21 DEF IInv

(* Every step of a tab's user. *)
LEMMA TabStepSafely ==
  ASSUME IInv, NEW t \in Tabs, TabStep(t)
  PROVE  IInv'
<1>1. CASE \E p \in Route : Navigate(t, p)
  BY <1>1, NavigateSafely
<1>2. CASE \E shown \in BOOLEAN : SwitchPane(t, shown)
  BY <1>2, SwitchPaneSafely
<1>3. CASE BackRefused(t) \/ BackRestored(t) \/ \E c \in Drafts : Edit(t, c)
  BY <1>3, EditingSafely
<1>4. CASE Save(t)
  <2>1. CASE tab[t].route = New
    BY <1>4, <2>1, SubmitSafely DEF Save
  <2>2. CASE tab[t].route # New
    BY <1>4, <2>2, SubmitSafely DEF Save
  <2> QED
    BY <2>1, <2>2
<1>5. CASE Delete(t)
  BY <1>5, SubmitSafely DEF Delete
<1> QED
  BY <1>1, <1>2, <1>3, <1>4, <1>5 DEF TabStep

--------------------------------------------------------------------------------
(* Answers to the GETs of pages. *)

LEMMA ServeLoadSafely ==
  ASSUME IInv, NEW l \in loads, ServeLoad(l)
  PROVE  IInv'
<1>1. /\ loads \subseteq Load /\ tab \in [Tabs -> Editor] /\ pages \in [ID -> Page \union {Absent}]
      /\ tab' = tab /\ requests' = requests /\ UNCHANGED server
  BY DEF IInv, Types, TypeOK, ServeLoad
<1>2. l \in Load /\ LoadOK(l)
  BY <1>1 DEF IInv, LoadsOK
<1>3. PICK got : got = IF l.page = New THEN [version |-> 1, content |-> Blank] ELSE pages[l.page]
  OBVIOUS
<1>4. l.page = New \/ l.page \in ID
  BY <1>2 DEF LoadOK, Load, Route
<1>5. got \in Page \union {Absent}
  <2>1. [version |-> 1, content |-> Blank] \in Page
    BY BlankIsDraft, Showing DEF Page
  <2> QED
    BY <1>1, <1>3, <1>4, <2>1
<1>6. PICK a : a = [l EXCEPT !.got = got]
  OBVIOUS
<1>7. a \in Load /\ a.tab = l.tab /\ a.page = l.page /\ a.generation = l.generation /\ a.got = got
  <2>1. l \in Load /\ got \in Page \union {Unread, Absent}
    BY <1>2, <1>5
  <2> QED
    BY <2>1, <1>6 DEF Load
<1>8. loads' = (loads \ {l}) \union {a}
  BY <1>3, <1>6 DEF ServeLoad
<1>9. loads' \subseteq Load
  BY <1>1, <1>7, <1>8
<1>10. Types' /\ Ids' /\ RequestsOK' /\ History' /\ \A i, v, d : Known(i, v, d)' <=> Known(i, v, d)
  BY <1>1, <1>9, StoreAtRest
<1>11. TabsOK'
  BY <1>1, <1>10 DEF IInv, TabsOK, TabOK, FormOK
<1>12. l.page \in ID /\ got \in Page => Known(l.page, got.version, AsShown(got.content))
  <2> SUFFICES ASSUME l.page \in ID, got \in Page
               PROVE  Known(l.page, got.version, AsShown(got.content))
    OBVIOUS
  <2>1. got = pages[l.page]
    BY <1>3 DEF ID, New
  <2>2. pages[l.page] # Absent
    BY <2>1, AbsentAssumption
  <2> QED
    BY <2>1, <2>2, StoredIsKnown DEF IInv
<1>13. LoadsOK'
  <2>1. \A m \in loads : LoadOK(m)
    BY DEF IInv, LoadsOK
  <2>2. ASSUME NEW m \in loads', NEW o \in loads', m.tab = o.tab, m.generation = o.generation
        PROVE  m = o
    BY <2>1, <2>2, <1>2, <1>7, <1>8 DEF LoadOK
  <2>3. ASSUME NEW m \in loads', m # a
        PROVE  LoadOK(m)'
    <3>1. m \in loads /\ LoadOK(m)
      BY <2>1, <2>3, <1>8
    <3> QED
      BY <3>1, <2>2, <1>1, <1>10 DEF LoadOK
  <2>4. LoadOK(a)'
    <3>1. \A o \in loads' : o.tab = a.tab /\ o.generation = a.generation => o = a
      BY <2>2, <1>8
    <3>2. a.page \in ID /\ a.got \in Page => Known(a.page, a.got.version, AsShown(a.got.content))'
      BY <1>7, <1>10, <1>12
    <3> QED
      BY <3>1, <3>2, <1>1, <1>2, <1>7 DEF LoadOK
  <2> QED
    BY <2>3, <2>4 DEF LoadsOK
<1> QED
  BY <1>10, <1>11, <1>13 DEF IInv

LEMMA ApplyLoadSafely ==
  ASSUME IInv, NEW l \in loads, ApplyLoad(l) \/ LoseLoad(l)
  PROVE  IInv'
<1>1. /\ loads \subseteq Load /\ tab \in [Tabs -> Editor]
      /\ loads' = loads \ {l} /\ requests' = requests /\ UNCHANGED server
  BY DEF IInv, Types, TypeOK, ApplyLoad, LoseLoad
<1>2. l \in Load /\ LoadOK(l) /\ l.tab \in Tabs
  BY <1>1 DEF IInv, LoadsOK, Load
<1>3. loads' \subseteq Load
  BY <1>1
<1>4. CASE tab' = tab
  <2>1. Types' /\ Ids' /\ RequestsOK' /\ History' /\ \A i, v, d : Known(i, v, d)' <=> Known(i, v, d)
    BY <1>1, <1>3, <1>4, StoreAtRest
  <2>2. TabsOK'
    BY <1>1, <1>4, <2>1 DEF IInv, TabsOK, TabOK, FormOK
  <2>3. LoadsOK'
    BY <1>1, <1>4, <2>1 DEF IInv, LoadsOK, LoadOK
  <2> QED
    BY <2>1, <2>2, <2>3 DEF IInv
<1>5. CASE ApplyLoad(l) /\ LoadValid(l) /\ l.got # Absent
  <2>1. PICK t, f, c, v, e :
          /\ t = l.tab /\ f = tab[t] /\ c = AsShown(l.got.content)
          /\ v = (IF l.page = New THEN 0 ELSE l.got.version)
          /\ e = [f EXCEPT !.key = l.page, !.draft = c, !.baseline = c, !.form = TRUE, !.version = v]
    OBVIOUS
  <2>2. t \in Tabs /\ f \in Editor /\ l.got \in Page /\ l.page \in Route
    <3>1. l.got \in Page \union {Unread, Absent} /\ l.got # Unread /\ l.got # Absent /\ l.page \in Route
      BY <1>2, <1>5 DEF Load, ApplyLoad
    <3> QED
      BY <3>1, <2>1, <1>1, <1>2
  <2>3. c \in Drafts /\ l.got.version \in Nat /\ v \in Nat
    BY <2>1, <2>2, Showing DEF Page
  <2>4. /\ e \in Editor
        /\ e.key = l.page /\ e.baseline = c /\ e.draft = c /\ e.form /\ e.version = v
        /\ e.route = f.route /\ e.generation = f.generation /\ e.saving = f.saving
    BY <2>1, <2>2, <2>3 DEF Editor
  <2>5. tab' = [tab EXCEPT ![t] = e]
    BY <2>1, <1>5 DEF ApplyLoad, Filled
  <2>6. /\ tab' \in [Tabs -> Editor] /\ tab'[t] = e
        /\ \A u \in Tabs : u # t => tab'[u] = tab[u]
    BY <1>1, <2>2, <2>4, <2>5
  <2>7. Types' /\ Ids' /\ RequestsOK' /\ History' /\ \A i, w, d : Known(i, w, d)' <=> Known(i, w, d)
    BY <1>1, <1>3, <2>6, StoreAtRest
  <2>8. l.generation = f.generation /\ ~f.form /\ f.route = l.page
    BY <1>2, <1>5, <2>1 DEF LoadValid, LoadOK
  <2>9. f.saving = 0
    BY <2>1, <2>2, <2>8 DEF IInv, TabsOK, TabOK, FormOK
  <2>10. TabsOK'
    <3>1. ASSUME NEW u \in Tabs, u # t
          PROVE  TabOK(u)'
      BY <3>1, <2>6, <2>7, <1>1 DEF IInv, TabsOK, TabOK, FormOK
    <3>2. FormOK(t, e)
      <4>1. l.page \in ID => Known(l.page, v, c)
        <5> SUFFICES ASSUME l.page \in ID
                     PROVE  Known(l.page, v, c)
          OBVIOUS
        <5>1. v = l.got.version
          BY <2>1 DEF ID, New
        <5> QED
          BY <5>1, <2>1, <2>2, <1>2 DEF LoadOK
      <4>2. l.page \in {NoPage, New} => v = 0
        BY <2>1, <1>2 DEF LoadOK
      <4> QED
        BY <4>1, <4>2, <2>4, <2>8, <2>9 DEF FormOK
    <3>3. TabOK(t)'
      BY <3>2, <2>6, <2>7, <1>1 DEF TabOK, FormOK
    <3> QED
      BY <3>1, <3>3 DEF TabsOK
  <2>11. LoadsOK'
    <3> SUFFICES ASSUME NEW m \in loads'
                 PROVE  LoadOK(m)'
      BY DEF LoadsOK
    <3>1. m \in loads /\ m # l /\ LoadOK(m) /\ m.tab \in Tabs
      BY <1>1 DEF IInv, LoadsOK, Load
    <3>2. \A o \in loads' : o.tab = m.tab /\ o.generation = m.generation => o = m
      BY <3>1, <1>1 DEF LoadOK
    <3>3. CASE m.tab # t
      BY <3>1, <3>2, <3>3, <2>6, <2>7 DEF LoadOK
    <3>4. CASE m.tab = t
      <4>1. m.generation # e.generation
        BY <3>1, <3>4, <2>1, <2>4, <2>8, <1>2 DEF LoadOK
      <4> QED
        BY <4>1, <3>1, <3>2, <3>4, <2>1, <2>4, <2>6, <2>7 DEF LoadOK
    <3> QED
      BY <3>3, <3>4
  <2> QED
    BY <2>7, <2>10, <2>11 DEF IInv
<1> QED
  BY <1>4, <1>5 DEF ApplyLoad, LoseLoad

--------------------------------------------------------------------------------
(* Replies. *)

LEMMA ReplySafely ==
  ASSUME IInv, NEW n \in DOMAIN requests, Reply(n) \/ NoReply(n)
  PROVE  IInv'
<1>1. PICK r, t, f : r = requests[n] /\ t = r.tab /\ f = tab[t]
  OBVIOUS
<1>2. requests \in Seq(Request) /\ tab \in [Tabs -> Editor]
  BY DEF IInv, Types, TypeOK
<1>3. r \in Request /\ t \in Tabs /\ f \in Editor /\ 0 \in 0..MaxRequests
  <2>1. r \in Request
    BY <1>1, <1>2
  <2>2. t \in Tabs
    BY <1>1, <2>1 DEF Request
  <2> QED
    BY <1>1, <1>2, <2>1, <2>2, BoundsAssumption
<1>4. RequestOK(n) /\ FormOK(t, f)
  BY <1>1, <1>3 DEF IInv, RequestsOK, TabsOK, TabOK
<1>5. f.saving = n /\ n # 0
  BY <1>1, <1>2 DEF Reply, ReplyOk, ReplyError, NoReply, Awaits
<1>6. CASE ReplyError(n) \/ NoReply(n)
  <2>1. PICK e : e = [f EXCEPT !.saving = 0]
    OBVIOUS
  <2>2. SameForm(f, e)
    BY <1>3, <2>1, BoundsAssumption DEF SameForm, Editor
  <2>3. tab' = [tab EXCEPT ![t] = e] /\ UNCHANGED <<server, requests, loads>>
    BY <1>1, <1>6, <2>1 DEF ReplyError, NoReply, Released
  <2> QED
    BY <1>1, <1>3, <2>2, <2>3, SameFormSafely
<1>7. CASE ReplyOk(n)
  <2>1. r.stage = "ok" /\ UNCHANGED server /\ requests' = requests
    BY <1>1, <1>7 DEF ReplyOk
  <2>2. CASE r.op = "update"
    <3>1. PICK v, d : v = r.version + 1 /\ d = r.draft
      OBVIOUS
    <3>2. v \in Nat /\ d \in Drafts
      BY <1>3, <3>1 DEF Request
    <3>3. PICK e : e = [f EXCEPT !.baseline = d, !.version = v, !.saving = 0]
      OBVIOUS
    <3>4. /\ e \in Editor
          /\ e.route = f.route /\ e.form = f.form /\ e.key = f.key /\ e.generation = f.generation
          /\ e.baseline = d /\ e.version = v /\ e.saving = 0
      BY <1>3, <3>2, <3>3 DEF Editor
    <3>5. f.key \in ID /\ Known(f.key, v, d)
      <4>1. f.key = r.seen.key
        BY <1>1, <1>4, <1>5 DEF FormOK
      <4>2. r.version > 0 /\ Known(r.page, r.version + 1, r.draft)
        BY <1>1, <1>4, <2>1, <2>2 DEF RequestOK, Reached
      <4>3. r.seen.key \in ID /\ r.page = r.seen.key
        BY <1>1, <1>4, <2>2, <4>2 DEF RequestOK
      <4> QED
        BY <3>1, <4>1, <4>2, <4>3
    <3>6. f.form => f.key \in {f.route, NoPage}
      BY <1>4 DEF FormOK
    <3>7. FormOK(t, e)
      BY <3>4, <3>5, <3>6 DEF FormOK, ID, NoPage, New
    <3>8. tab' = [tab EXCEPT ![t] = e] /\ loads' = loads
      BY <1>1, <1>7, <2>2, <3>1, <3>3 DEF ReplyOk, Saved
    <3>9. TabMoves(t, e)
      BY <2>1, <3>4, <3>7, <3>8 DEF TabMoves
    <3>10. StaysInView(t, e)
      BY <1>1, <3>4, <3>8 DEF StaysInView
    <3> QED
      BY <1>3, <2>1, <3>9, <3>10, TabMovesSafely
  <2>3. CASE r.op # "update" /\ f.restoring
    <3>1. PICK e : e = [Discarded(f) EXCEPT !.saving = 0]
      OBVIOUS
    <3>2. NoPage \in Route
      BY DEF Route
    <3>3. /\ e \in Editor
          /\ e.route = f.route /\ e.form = f.form /\ e.generation = f.generation
          /\ e.key = NoPage /\ e.version = 0 /\ e.saving = 0
      <4>1. PICK d : d = Discarded(f)
        OBVIOUS
      <4>2. /\ d \in Editor /\ d.route = f.route /\ d.form = f.form /\ d.generation = f.generation
            /\ d.key = NoPage /\ d.version = 0
        BY <1>3, <3>2, <4>1 DEF Discarded, Editor
      <4>3. e = [d EXCEPT !.saving = 0]
        BY <3>1, <4>1
      <4> QED
        BY <1>3, <4>2, <4>3 DEF Editor
    <3>4. FormOK(t, e)
      BY <3>3 DEF FormOK, ID, NoPage
    <3>5. tab' = [tab EXCEPT ![t] = e] /\ loads' = loads
      BY <1>1, <1>7, <2>3, <3>1 DEF ReplyOk
    <3>6. TabMoves(t, e)
      BY <2>1, <3>3, <3>4, <3>5 DEF TabMoves
    <3>7. StaysInView(t, e)
      BY <1>1, <3>3, <3>5 DEF StaysInView
    <3> QED
      BY <1>3, <2>1, <3>6, <3>7, TabMovesSafely
  <2>4. CASE r.op # "update" /\ ~f.restoring
    <3>1. PICK next : next = IF r.op = "create" THEN r.saved ELSE NoPage
      OBVIOUS
    <3>2. next \in Route
      BY <1>1, <1>4, <2>1, <3>1 DEF RequestOK, Reached, Route
    <3>3. PICK e : e = [Opened(f, next) EXCEPT !.saving = 0]
      OBVIOUS
    <3>4. /\ e \in Editor
          /\ e.route = next /\ ~e.form /\ e.key = NoPage /\ e.version = 0
          /\ e.generation = f.generation + 1
      BY <1>3, <3>2, <3>3, Opening
    <3>5. e.saving = 0
      BY <3>3 DEF Opened, Discarded
    <3>6. FormOK(t, e)
      BY <3>4, <3>5 DEF FormOK, ID, NoPage
    <3>7. tab' = [tab EXCEPT ![t] = e] /\ AskFor(t, f, next)
      BY <1>1, <1>7, <2>4, <3>1, <3>3 DEF ReplyOk
    <3>8. TabMoves(t, e)
      BY <2>1, <3>4, <3>6, <3>7 DEF TabMoves
    <3>9. Asks(t, e, next)
      BY <1>1, <3>2, <3>4, <3>7 DEF Asks
    <3> QED
      BY <1>3, <2>1, <3>8, <3>9, TabMovesSafely
  <2> QED
    BY <2>2, <2>3, <2>4
<1> QED
  BY <1>6, <1>7 DEF Reply

--------------------------------------------------------------------------------
(* The theorems. *)

LEMMA Initially == Init => IInv
<1> SUFFICES ASSUME Init
             PROVE  IInv
  OBVIOUS
<1>1. /\ requests = << >> /\ commits = << >> /\ audited = {} /\ loads = {} /\ nextID = 1
      /\ DOMAIN requests = {} /\ DOMAIN commits = {} /\ Len(requests) = 0
  BY DEF Init
<1>2. 1 \in ID /\ NoPage \in Route /\ 0 \in 0..MaxRequests
  BY BoundsAssumption DEF ID, Route
<1>3. pages \in [ID -> Page \union {Absent}] /\ \A i \in ID : pages[i] # Absent => i <= nextID
  <2>1. [version |-> 1, content |-> First] \in Page
    BY FirstAssumption DEF Page, Content
  <2>2. pages = [i \in ID |-> IF i = 1 THEN [version |-> 1, content |-> First] ELSE Absent]
    BY DEF Init
  <2> QED
    BY <1>1, <2>1, <2>2
<1>4. PICK e : e = [route |-> NoPage, form |-> FALSE, key |-> NoPage, draft |-> Blank, baseline |-> Blank,
                    version |-> 0, generation |-> 0, saving |-> 0, restoring |-> FALSE]
  OBVIOUS
<1>5. e \in Editor /\ ~e.form /\ e.key = NoPage /\ e.version = 0 /\ e.saving = 0
  BY <1>2, <1>4, BlankIsDraft DEF Editor
<1>6. tab = [t \in Tabs |-> e]
  BY <1>4 DEF Init
<1>7. tab \in [Tabs -> Editor] /\ \A t \in Tabs : tab[t] = e
  BY <1>5, <1>6
<1>8. Types
  BY <1>1, <1>2, <1>3, <1>7, BoundsAssumption DEF Types, TypeOK
<1>9. Ids
  <2>1. Created = {}
    BY <1>1 DEF Created
  <2>2. Cardinality({}) = 0
    BY FS_EmptySet
  <2> QED
    BY <1>1, <1>3, <2>1, <2>2 DEF Ids
<1>10. RequestsOK /\ LoadsOK
  BY <1>1 DEF RequestsOK, LoadsOK
<1>11. TabsOK
  BY <1>5, <1>7 DEF TabsOK, TabOK, FormOK, ID, NoPage
<1>12. History
  <2>1. Overwrites = {}
    BY <1>1 DEF Overwrites
  <2> QED
    BY <1>1, <2>1 DEF History, NoLostUpdate, SavesLandOnTheirPage
<1> QED
  BY <1>8, <1>9, <1>10, <1>11, <1>12 DEF IInv

LEMMA Inductive == IInv /\ [Next]_vars => IInv'
<1> SUFFICES ASSUME IInv, [Next]_vars
             PROVE  IInv'
  OBVIOUS
<1>1. CASE UNCHANGED vars
  <2>1. UNCHANGED server /\ requests' = requests /\ tab' = tab /\ loads' = loads
    BY <1>1 DEF vars
  <2>2. tab' \in [Tabs -> Editor] /\ loads' \subseteq Load
    BY <2>1 DEF IInv, Types, TypeOK
  <2>3. Types' /\ Ids' /\ RequestsOK' /\ History' /\ \A i, v, d : Known(i, v, d)' <=> Known(i, v, d)
    BY <2>1, <2>2, StoreAtRest
  <2>4. TabsOK'
    BY <2>1, <2>3 DEF IInv, TabsOK, TabOK, FormOK
  <2>5. LoadsOK'
    BY <2>1, <2>3 DEF IInv, LoadsOK, LoadOK
  <2> QED
    BY <2>3, <2>4, <2>5 DEF IInv
<1>2. ASSUME NEW t \in Tabs, TabStep(t)
      PROVE  IInv'
  BY <1>2, TabStepSafely
<1>3. ASSUME NEW l \in loads, ServeLoad(l) \/ ApplyLoad(l) \/ LoseLoad(l)
      PROVE  IInv'
  BY <1>3, ServeLoadSafely, ApplyLoadSafely
<1>4. ASSUME NEW n \in DOMAIN requests, Handle(n)
      PROVE  IInv'
  <2>1. CASE Deny(n) \/ CheckVersion(n) \/ Audit(n) \/ AuditFails(n)
    BY <2>1, HandlersStep, HandlersMoveSafely
  <2>2. CASE CreatePage(n) \/ UpdatePage(n) \/ DeletePage(n)
    BY <2>2, WritesStep
  <2> QED
    BY <1>4, <2>1, <2>2 DEF Handle
<1>5. ASSUME NEW n \in DOMAIN requests, Reply(n) \/ NoReply(n)
      PROVE  IInv'
  BY <1>5, ReplySafely
<1>6. CASE Crash
  BY <1>6, HandlersStep, HandlersMoveSafely
<1> QED
  BY <1>1, <1>2, <1>3, <1>4, <1>5, <1>6 DEF Next

(* The inductive invariant holds throughout. *)
THEOREM Invariance == Spec => []IInv
<1> QED
  BY Initially, Inductive, PTL DEF Spec

(* Whatever the tabs, the handlers and the crash do, the state between     *)
(* them is well formed.                                                    *)
THEOREM TypeCorrect == Spec => []TypeOK
<1>1. IInv => TypeOK
  BY DEF IInv, Types
<1> QED
  BY <1>1, Invariance, PTL

(* No save and no delete replaces what its user had not seen: what is      *)
(* known of a page under the version a form holds is what the form shows,  *)
(* and the store commits under that version only.                          *)
THEOREM NoUpdateIsLost == Spec => []NoLostUpdate
<1>1. IInv => NoLostUpdate
  BY DEF IInv, History
<1> QED
  BY <1>1, Invariance, PTL

(* No save lands on a page its form was not filled from: an answer that    *)
(* comes late finds a newer view, and the form of a view holds no other    *)
(* page.                                                                   *)
THEOREM NoSaveGoesAstray == Spec => []SavesLandOnTheirPage
<1>1. IInv => SavesLandOnTheirPage
  BY DEF IInv, History
<1> QED
  BY <1>1, Invariance, PTL

(* A form that reads "Saved" shows what the store held.                    *)
THEOREM CleanFormsAreSaved == Spec => []CleanMeansSaved
<1>1. IInv => CleanMeansSaved
  <2> SUFFICES ASSUME IInv, NEW t \in Tabs,
                      tab[t].key \in ID, tab[t].saving = 0, ~Dirty(tab[t])
               PROVE  \E c \in Had(tab[t].key, tab[t].version) : AsShown(c) = tab[t].draft
    BY DEF CleanMeansSaved
  <2>1. Known(tab[t].key, tab[t].version, tab[t].baseline)
    BY DEF IInv, TabsOK, TabOK, FormOK
  <2>2. tab[t].draft = tab[t].baseline
    BY DEF Dirty, ID, NoPage
  <2> QED
    BY <2>1, <2>2 DEF Known
<1> QED
  BY <1>1, Invariance, PTL

(* The audit log and the replies agree about the writes.                   *)
THEOREM AuditAndRepliesAgree == Spec => []AuditMatchesReplies
<1>1. IInv => AuditMatchesReplies
  BY DEF IInv, History, RequestsOK, RequestOK, AuditMatchesReplies, Committed
<1> QED
  BY <1>1, Invariance, PTL

================================================================================
