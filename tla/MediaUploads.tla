----------------------------- MODULE MediaUploads -----------------------------
(***************************************************************************)
(* LocalFS.Put and Get (media/upload.go) behind UploadHandler, system call *)
(* by system call.  A file's name is the digest of its bytes, so uploads   *)
(* of the same bytes for one tenant meet in one file.  os.WriteFile        *)
(* truncates that file and fills it piece by piece, in full view of other  *)
(* uploads and of downloads; any call may fail and the process may die,    *)
(* and what is on disk stays as it is.                                     *)
(***************************************************************************)
EXTENDS Integers, FiniteSets

CONSTANTS
  Uploads,      \* requests that upload at the same time
  Downloads,    \* and that download
  Names,        \* (tenant, digest and extension of the bytes)
  MaxUploads,   \* bound: uploads begun
  MaxDownloads  \* bound: downloads begun

ASSUME MediaBounds == MaxUploads \in Nat /\ MaxDownloads \in Nat

VARIABLES
  dirs,       \* the names whose tenant directory exists
  files,      \* files[n]: the pieces of its bytes the file has, or Nothing
  upload,     \* each upload: the call it makes next, its name, its answer
  download,   \* each download: the piece it reads next, its name, what it got
  promised,   \* the names whose URL some upload was answered
  spoiled,    \* the names an upload died or failed on, still incomplete
  fresh,      \* the uploads whose file did not exist when they began, or whose Stat failed
  disturbed,  \* the downloads whose file was being written, or was spoiled, meanwhile
  counts      \* uploads and downloads begun

disk == <<dirs, files>>
vars == <<disk, upload, download, promised, spoiled, fresh, disturbed, counts>>

Pieces == {"head", "tail"}
Whole == Pieces

Nothing == {"no file"}

Calls == {"mkdir", "stat", "open", "head", "tail"}
Answers == {"none", "created", "too large", "error"}
Upload == [call : Calls \union {"idle"}, name : Names, answer : Answers]
Download == [piece : Pieces \union {"idle"}, name : Names, got : SUBSET Pieces, found : BOOLEAN]

Writes == {"head", "tail"}
WritersOf(n) == {u \in Uploads : upload[u].name = n /\ upload[u].call \in Writes}

--------------------------------------------------------------------------------
(* Uploads. *)

Call(u, c) == upload' = [upload EXCEPT ![u].call = c]
Respond(u, a) == upload' = [upload EXCEPT ![u].call = "idle", ![u].answer = a]

Responds(u, a) ==
  /\ Respond(u, a)
  /\ promised' = IF a = "created" THEN promised \union {upload[u].name} ELSE promised

At(u, c) ==
  /\ upload[u].call = c
  /\ UNCHANGED <<download, counts>>

(* The body is read to its end before anything is stored. *)
Begin(u, n, fits) ==
  /\ upload[u].call = "idle"
  /\ counts.uploads < MaxUploads
  /\ counts' = [counts EXCEPT !.uploads = @ + 1]
  /\ upload' = [upload EXCEPT ![u] =
       [call |-> IF fits THEN "mkdir" ELSE "idle", name |-> n,
        answer |-> IF fits THEN "none" ELSE "too large"]]
  /\ fresh' = IF files[n] = Nothing THEN fresh \union {u} ELSE fresh \ {u}
  /\ UNCHANGED <<disk, download, promised, spoiled, disturbed>>

MkdirAll(u) ==
  /\ At(u, "mkdir")
  /\ dirs' = dirs \union {upload[u].name}
  /\ Call(u, "stat")
  /\ UNCHANGED <<files, promised, spoiled, fresh, disturbed>>

AlreadyThere(n) == files[n] # Nothing

Stat(u) ==
  /\ At(u, "stat")
  /\ IF AlreadyThere(upload[u].name)
     THEN Responds(u, "created")
     ELSE Call(u, "open") /\ UNCHANGED promised
  /\ UNCHANGED <<disk, spoiled, fresh, disturbed>>

(* Any error of Stat is taken for a missing file. *)
StatFails(u) ==
  /\ At(u, "stat")
  /\ Call(u, "open")
  /\ fresh' = fresh \union {u}
  /\ UNCHANGED <<disk, promised, spoiled, disturbed>>

DownloadsOf(n) == {d \in Downloads : download[d].piece # "idle" /\ download[d].name = n}

(* O_CREATE with O_TRUNC: the file of an earlier upload is emptied. *)
Open(u) ==
  LET n == upload[u].name
  IN /\ At(u, "open")
     /\ n \in dirs
     /\ files' = [files EXCEPT ![n] = {}]
     /\ Call(u, "head")
     /\ disturbed' = disturbed \union DownloadsOf(n)
     /\ UNCHANGED <<dirs, promised, spoiled, fresh>>

AfterPieceEndsEarly(u, piece) == Responds(u, "created")
AfterPiece(u, piece) ==
  IF piece = "tail" THEN Responds(u, "created") ELSE Call(u, "tail") /\ UNCHANGED promised

Write(u, piece) ==
  /\ At(u, piece)
  /\ files' = [files EXCEPT ![upload[u].name] = @ \union {piece}]
  /\ AfterPiece(u, piece)
  /\ spoiled' = {n \in spoiled : files'[n] # Whole}
  /\ UNCHANGED <<dirs, fresh, disturbed>>

Spoil(us) ==
  LET names == {upload[u].name : u \in {v \in us : upload[v].call \in Writes}}
  IN /\ spoiled' = spoiled \union {n \in names : files[n] # Whole}
     /\ disturbed' = disturbed \union UNION {DownloadsOf(n) : n \in names}

FailureRemovesFile(n) == Nothing
AfterFailure(n) == files[n]

OnFailure(u) == Responds(u, "error")

(* A call other than Stat fails; WriteFile leaves what it has written. *)
Fail(u) ==
  LET n == upload[u].name
  IN /\ \E c \in Calls \ {"stat"} : At(u, c)
     /\ OnFailure(u)
     /\ files' = IF upload[u].call \in Writes THEN [files EXCEPT ![n] = AfterFailure(n)] ELSE files
     /\ Spoil({u})
     /\ UNCHANGED <<dirs, fresh>>

Crash ==
  /\ \E u \in Uploads : upload[u].call # "idle"
  /\ Spoil(Uploads)
  /\ upload' = [u \in Uploads |-> [upload[u] EXCEPT !.call = "idle", !.answer = "none"]]
  /\ download' = [d \in Downloads |-> [download[d] EXCEPT !.piece = "idle", !.found = FALSE, !.got = {}]]
  /\ UNCHANGED <<disk, promised, fresh, counts>>

--------------------------------------------------------------------------------
(* Downloads: Get opens the file, the handler reads it to its end. *)

Get(d, n) ==
  /\ download[d].piece = "idle"
  /\ counts.downloads < MaxDownloads
  /\ counts' = [counts EXCEPT !.downloads = @ + 1]
  /\ download' = [download EXCEPT ![d] =
       [piece |-> IF files[n] = Nothing THEN "idle" ELSE "head", name |-> n,
        got |-> {}, found |-> files[n] # Nothing]]
  /\ disturbed' = IF n \in spoiled \/ WritersOf(n) # {} THEN disturbed \union {d} ELSE disturbed \ {d}
  /\ UNCHANGED <<disk, upload, promised, spoiled, fresh>>

ReadPiece(d) ==
  LET piece == download[d].piece
  IN /\ piece # "idle"
     /\ download' = [download EXCEPT ![d].got = @ \union (files[download[d].name] \intersect {piece}),
                                     ![d].piece = IF piece = "head" THEN "tail" ELSE "idle"]
     /\ UNCHANGED <<disk, upload, promised, spoiled, fresh, disturbed, counts>>

--------------------------------------------------------------------------------
Init ==
  /\ dirs = {}
  /\ files = [n \in Names |-> Nothing]
  /\ \E n \in Names :
       /\ upload = [u \in Uploads |-> [call |-> "idle", name |-> n, answer |-> "none"]]
       /\ download = [d \in Downloads |-> [piece |-> "idle", name |-> n, got |-> {}, found |-> FALSE]]
  /\ promised = {} /\ spoiled = {} /\ fresh = {} /\ disturbed = {}
  /\ counts = [uploads |-> 0, downloads |-> 0]

Put(u) ==
  \/ \E n \in Names, fits \in BOOLEAN : Begin(u, n, fits)
  \/ MkdirAll(u)
  \/ Stat(u)
  \/ StatFails(u)
  \/ Open(u)
  \/ \E piece \in Pieces : Write(u, piece)
  \/ Fail(u)

Next ==
  \/ \E u \in Uploads : Put(u)
  \/ \E d \in Downloads : ReadPiece(d) \/ \E n \in Names : Get(d, n)
  \/ Crash

Spec == Init /\ [][Next]_vars

--------------------------------------------------------------------------------
(* Properties. *)

(* Type invariant of the media directory and the requests on it. *)
TypeOK ==
  /\ dirs \subseteq Names
  /\ files \in [Names -> (SUBSET Pieces) \union {Nothing}]
  /\ upload \in [Uploads -> Upload]
  /\ download \in [Downloads -> Download]
  /\ promised \subseteq Names /\ spoiled \subseteq Names
  /\ fresh \subseteq Uploads /\ disturbed \subseteq Downloads
  /\ counts \in [uploads : 0..MaxUploads, downloads : 0..MaxDownloads]

(* A file is incomplete only while an upload is writing it, or after one   *)
(* died or failed in the middle: two uploads of the same bytes that both   *)
(* found no file, and truncate and fill it in any order, leave it whole.   *)
IncompleteHasCause ==
  \A n \in Names : files[n] # Nothing /\ files[n] # Whole => n \in spoiled \/ WritersOf(n) # {}

(* A URL once given out leads to a file from then on: no later upload of   *)
(* the same bytes, not one that fails half way, takes the file away, and   *)
(* only uploads that began before the file existed, or whose Stat failed,  *)
(* get to truncate it.                                                     *)
PromisedStaysThere ==
  /\ \A n \in promised : files[n] # Nothing
  /\ \A u \in Uploads : upload[u].call \in {"open"} \union Writes => u \in fresh

(* A download gets all the bytes unless an upload wrote to the file while  *)
(* it ran, or had left it incomplete before; and a file is incomplete for  *)
(* no other reason.                                                        *)
DownloadsAreWhole ==
  /\ IncompleteHasCause
  /\ \A d \in Downloads :
       download[d].piece = "idle" /\ download[d].found /\ d \notin disturbed => download[d].got = Whole

================================================================================
