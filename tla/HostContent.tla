------------------------------ MODULE HostContent ------------------------------
(***************************************************************************)
(* What the host reads from a tenant's bundle while Activate replaces it   *)
(* (host/server.go, host/templates.go).  A request follows the link        *)
(* current up to three times: for the file at its path, for the template   *)
(* of the CMS page at its path, and for index.html of the application.     *)
(* The template list follows it once for the names and once more for each  *)
(* of them.  Each time current is first resolved to a version directory    *)
(* and the file is then looked for in that directory.  The plugin's own    *)
(* static-serve middleware (internal/static_serve.go) opens the file       *)
(* through current in one call and passes a miss on.                       *)
(***************************************************************************)
EXTENDS BundleActivation

CONSTANTS
  Readers,    \* requests in progress at the same time
  Templates,  \* template names a page may ask for
  Configured, \* the names among Config.PageTemplates
  Files,      \* Files[c]: what a bundle of content c holds that requests look for
  Malformed   \* Malformed[c]: its templates that are too long or have not one slot for the body

Exact == "exact"  \* the file at the path of the requests
Shell == "shell"  \* index.html
NoTemplate == "no template"

ASSUME HostAssumption ==
  /\ Configured \subseteq Templates
  /\ Templates \intersect {"no page", NoTemplate} = {}
  /\ Files \in [Contents -> SUBSET ({Exact, Shell} \union Templates)]
  /\ Malformed \in [Contents -> SUBSET Templates]
  /\ \A c \in Contents : Malformed[c] \subseteq Files[c]

VARIABLES
  reader,  \* what each request asks, how far it is, what it has found
  seen     \* the versions current has linked to since each request began

readerVars == <<reader, seen>>
hostVars == <<vars, readerVars>>

(* What is at the path in the page store: no page that may be shown, or a  *)
(* published one with its template.                                        *)
Pages == {"no page", NoTemplate} \union Templates
Stages == {"static", "exact", "page", "template", "shell", "list", "each", "done"}
Looks == {"exact", "template", "shell", "list", "each"}

(* From which version an answer was read; NoVersion where no file was.     *)
Answer(kind, v, names) == [kind |-> kind, version |-> v, names |-> names]
Kinds == {"none", "file", "page", "unavailable", "application", "missing", "passed on", "listed"}

--------------------------------------------------------------------------------
(* Steps of a request. *)

Waiting == Answer("none", NoVersion, {})

Go(r, stage) ==
  reader' = [reader EXCEPT ![r].stage = stage, ![r].at = NoVersion, ![r].resolved = FALSE]
Finish(r, a) ==
  reader' = [reader EXCEPT ![r].stage = "done", ![r].answer = a,
                           ![r].at = NoVersion, ![r].resolved = FALSE, ![r].todo = {}]

(* A GET arrives: for a path with or without an extension, or, on the      *)
(* admin API, for the list of templates.                                   *)
Arrive(r, first, page, extension) ==
  /\ reader[r].stage = "done"
  /\ reader' = [reader EXCEPT ![r] =
       [stage |-> first, page |-> page, extension |-> extension,
        at |-> NoVersion, resolved |-> FALSE, todo |-> {}, answer |-> Waiting]]
  /\ seen' = [seen EXCEPT ![r] = {current}]

NewestOnDisk ==
  IF \A v \in Versions : dirs[v] = Nothing THEN NoVersion
  ELSE CHOOSE v \in Versions : dirs[v] # Nothing /\ \A u \in Versions : dirs[u] # Nothing => u <= v
Followed == current

(* tenantBundleRoot follows current; NoVersion stands for its error. *)
Resolve(r) ==
  /\ reader[r].stage \in Looks
  /\ ~reader[r].resolved
  /\ reader' = [reader EXCEPT ![r].at = Followed, ![r].resolved = TRUE]
  /\ UNCHANGED seen

Look(r, stage) ==
  /\ reader[r].stage = stage
  /\ reader[r].resolved
  /\ UNCHANGED seen

InVersion(v) == IF v = NoVersion \/ dirs[v] = Nothing THEN {} ELSE Files[dirs[v].content]

\* The directory a name is looked for in is the one the link was resolved to.
Found(r) == InVersion(reader[r].at)

ServeExact(r) ==
  /\ Look(r, "exact")
  /\ IF Exact \in Found(r)
     THEN Finish(r, Answer("file", reader[r].at, {}))
     ELSE Go(r, "page")

ServePage(r) ==
  /\ reader[r].stage = "page"
  /\ CASE reader[r].page = "no page" -> Go(r, "shell")
       [] reader[r].page = NoTemplate -> Finish(r, Answer("page", NoVersion, {}))
       [] OTHER -> Go(r, "template")
  /\ UNCHANGED seen

(* The templates of a version directory that can be rendered. *)
TemplatesIn(v) ==
  {name \in InVersion(v) \intersect Templates : name \notin Malformed[dirs[v].content]}

UsableOrConfigured(r, name) == name \in TemplatesIn(reader[r].at) \/ name \in Configured

(* resolveTenantTemplate: the host's template stands in for a file that is *)
(* not in the bundle, never for one that is malformed.                     *)
Usable(r, name) ==
  IF name \in Found(r) THEN name \in TemplatesIn(reader[r].at) ELSE name \in Configured

RenderTemplate(r) ==
  LET name == reader[r].page
  IN /\ Look(r, "template")
     /\ Finish(r, IF ~Usable(r, name) THEN Answer("unavailable", NoVersion, {})
                  ELSE Answer("page", IF name \in Found(r) THEN reader[r].at ELSE NoVersion, {}))

(* Only a path without an extension can be a route of the application. *)
ServeShell(r) ==
  /\ Look(r, "shell")
  /\ Finish(r, IF ~reader[r].extension /\ Shell \in Found(r)
               THEN Answer("application", reader[r].at, {})
               ELSE Answer("missing", NoVersion, {}))

(* staticServeModule.Middleware: os.Open follows current by itself. *)
ServeStatic(r) ==
  /\ reader[r].stage = "static"
  /\ Finish(r, IF Exact \in InVersion(current)
               THEN Answer("file", current, {})
               ELSE Answer("passed on", NoVersion, {}))
  /\ UNCHANGED seen

TemplateNames(files) == files \intersect Templates

(* listTenantTemplates: the names in the directory current leads to now; *)
(* the answer collects those that resolve, one after the other.          *)
ListNames(r) ==
  /\ Look(r, "list")
  /\ reader' = [reader EXCEPT ![r].stage = "each", ![r].at = NoVersion, ![r].resolved = FALSE,
                              ![r].todo = TemplateNames(Found(r))]

CheckName(r, name) ==
  /\ Look(r, "each")
  /\ name \in reader[r].todo
  /\ reader' = [reader EXCEPT ![r].todo = @ \ {name}, ![r].at = NoVersion, ![r].resolved = FALSE,
                              ![r].answer.names = IF Usable(r, name) THEN @ \union {name} ELSE @]

ListEnds(r) ==
  /\ reader[r].stage = "each"
  /\ reader[r].todo = {}
  /\ Finish(r, Answer("listed", NoVersion, reader[r].answer.names \union Configured))
  /\ UNCHANGED seen

Read(r) ==
  \/ \E page \in Pages, extension \in BOOLEAN : Arrive(r, "exact", page, extension)
  \/ \E first \in {"list", "static"} : Arrive(r, first, "no page", FALSE)
  \/ Resolve(r)
  \/ ServeStatic(r)
  \/ ServeExact(r)
  \/ ServePage(r)
  \/ RenderTemplate(r)
  \/ ServeShell(r)
  \/ ListNames(r)
  \/ \E name \in Templates : CheckName(r, name)
  \/ ListEnds(r)

--------------------------------------------------------------------------------
HostInit ==
  /\ Init
  /\ reader = [r \in Readers |-> [stage |-> "done", page |-> "no page", extension |-> FALSE,
       at |-> NoVersion, resolved |-> FALSE, todo |-> {}, answer |-> Waiting]]
  /\ seen = [r \in Readers |-> {}]

(* The versions a request under way could find. *)
Observed ==
  seen' = [r \in Readers |-> IF reader[r].stage = "done" THEN seen[r]
                             ELSE seen[r] \union ({current'} \ {NoVersion})]

HostNext ==
  \/ Next /\ Observed /\ UNCHANGED reader
  \/ (\E r \in Readers : Read(r)) /\ UNCHANGED vars

HostSpec == HostInit /\ [][HostNext]_hostVars

--------------------------------------------------------------------------------
(* Properties. *)

(* Type invariant of the requests. *)
HostTypeOK ==
  /\ reader \in [Readers ->
       [stage : Stages, page : Pages, extension : BOOLEAN, at : Link, resolved : BOOLEAN,
        todo : SUBSET Templates,
        answer : [kind : Kinds, version : Link, names : SUBSET Templates]]]
  /\ seen \in [Readers -> SUBSET Link]

Answered(r) == reader[r].stage = "done" /\ reader[r].answer # Waiting

(* The templates pages can be rendered with while v is current. *)
Offered(v) == TemplatesIn(v) \union (Configured \ InVersion(v))

(* What a request that meets one version only answers. *)
AnswerIn(v, page, extension) ==
  LET files == InVersion(v)
  IN CASE Exact \in files -> Answer("file", v, {})
       [] Exact \notin files /\ page = NoTemplate -> Answer("page", NoVersion, {})
       [] Exact \notin files /\ page \in TemplatesIn(v) -> Answer("page", v, {})
       [] Exact \notin files /\ page \in Configured \ files -> Answer("page", NoVersion, {})
       [] Exact \notin files /\ page \in Templates \ Offered(v) -> Answer("unavailable", NoVersion, {})
       [] Exact \notin files /\ page = "no page" /\ Shell \in files /\ ~extension ->
            Answer("application", v, {})
       [] OTHER -> Answer("missing", NoVersion, {})

(* A request during which the link did not move is answered from that one  *)
(* version, and files come before the CMS page and the page before the     *)
(* application, whatever attempts are under way, fail or crash meanwhile.  *)
(* A malformed template of that version makes its pages unavailable, also  *)
(* where the host configures the name (host/templates.go:53-55).           *)
SteadyReadsAreExact ==
  \A r \in Readers : Answered(r) /\ reader[r].answer.kind # "listed" =>
    \A v \in seen[r] : seen[r] = {v} =>
      IF reader[r].answer.kind = "passed on"
      THEN Exact \notin InVersion(v)
      ELSE reader[r].answer = AnswerIn(v, reader[r].page, reader[r].extension)

(* An activation under a request takes nothing away from it: what every    *)
(* version it could meet offers is served, be it from the bundle in one    *)
(* and from the host in another, and what it is served is whole and comes  *)
(* from a version that was current while it ran.                           *)
SwapHidesNothing ==
  \A r \in Readers : LET q == reader[r]  a == reader[r].answer IN
    Answered(r) /\ a.kind # "listed" =>
      /\ a.version # NoVersion => a.version \in seen[r] /\ dirs[a.version].whole
      /\ a.kind = "file" => Exact \in InVersion(a.version)
      /\ (\A v \in seen[r] : Exact \in InVersion(v)) => a.kind = "file"
      /\ (\A v \in seen[r] : q.page \in Offered(v)) => a.kind # "unavailable"
      /\ (\A v \in seen[r] : Shell \in InVersion(v)) /\ ~q.extension => a.kind # "missing"

(* The list of templates is made of two looks, which may meet two versions *)
(* or the same: each name on it is the host's own or a good template of    *)
(* some version, and every template that was good in all of them is on it. *)
ListIsOfSeenVersions ==
  \A r \in Readers : Answered(r) /\ reader[r].answer.kind = "listed" =>
    LET held == {TemplatesIn(v) : v \in seen[r]}
        names == reader[r].answer.names
    IN /\ names \subseteq Configured \union UNION held
       /\ \A name \in Templates : (\A s \in held : name \in s) => name \in names

(* V9, "replay of same version" (bundle/ingest.go:7): a version is made    *)
(* current once.  No second delivery, race or restart brings an earlier    *)
(* version back.                                                           *)
ReplayNeverActivates == [][current' # current => current' \notin activated]_hostVars

================================================================================
