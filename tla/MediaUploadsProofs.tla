--------------------------- MODULE MediaUploadsProofs ---------------------------
(* What holds of MediaUploads for every number of uploads, downloads, names *)
(* and requests, proved.                                                    *)
EXTENDS MediaUploads, TLAPS

(* The strengthening. *)

(* Who writes has opened the file, and no file is ever removed. *)
WritersHaveFiles ==
  \A u \in Uploads : upload[u].call \in Writes => files[upload[u].name] \in SUBSET Pieces

(* An upload that has yet to look, and is not fresh, will find the file. *)
StaleWillFind ==
  \A u \in Uploads : upload[u].call \in {"mkdir", "stat"} /\ u \notin fresh =>
    files[upload[u].name] # Nothing

HeadWritersOf(n) == {u \in WritersOf(n) : upload[u].call = "head"}

(* What the writer of the tail wrote first is still there, unless someone  *)
(* truncated the file after it, who will write it again or has failed to.  *)
HeadIsThere ==
  \A u \in Uploads : upload[u].call = "tail" =>
    LET n == upload[u].name
    IN "head" \in files[n] \/ HeadWritersOf(n) # {} \/ n \in spoiled

(* An undisturbed download in progress reads a whole file. *)
DownloadsSeeWhole ==
  \A d \in Downloads : LET q == download[d] IN q.piece # "idle" =>
    /\ q.found
    /\ d \notin disturbed =>
         files[q.name] = Whole /\ (q.piece = "tail" => "head" \in q.got)

DownloadsEndWhole ==
  \A d \in Downloads : LET q == download[d] IN
    q.piece = "idle" /\ q.found /\ d \notin disturbed => q.got = Whole

Typed == TypeOK /\ WritersHaveFiles
FreshInv == PromisedStaysThere /\ StaleWillFind
WholeInv == IncompleteHasCause /\ HeadIsThere
DownloadInv == DownloadsSeeWhole /\ DownloadsEndWhole

--------------------------------------------------------------------------------
(* Type correctness. *)

LEMMA NothingIsNoFile == Nothing \notin SUBSET Pieces
BY DEF Nothing, Pieces

LEMMA TypeInit == Init => Typed
<1> SUFFICES ASSUME Init PROVE Typed
  OBVIOUS
<1>1. PICK n \in Names :
        /\ upload = [u \in Uploads |-> [call |-> "idle", name |-> n, answer |-> "none"]]
        /\ download = [d \in Downloads |-> [piece |-> "idle", name |-> n, got |-> {}, found |-> FALSE]]
  BY DEF Init
<1>2. upload \in [Uploads -> Upload]
  BY <1>1 DEF Upload, Answers
<1>3. download \in [Downloads -> Download]
  BY <1>1 DEF Download
<1>4. counts \in [uploads : 0..MaxUploads, downloads : 0..MaxDownloads]
  BY MediaBounds DEF Init
<1>5. TypeOK
  BY <1>2, <1>3, <1>4 DEF Init, TypeOK
<1>6. WritersHaveFiles
  BY <1>1 DEF WritersHaveFiles, Writes
<1> QED
  BY <1>5, <1>6 DEF Typed

LEMMA BeginType ==
  ASSUME Typed, NEW u \in Uploads, NEW n \in Names, NEW fits \in BOOLEAN, Begin(u, n, fits)
  PROVE  Typed'
<1> DEFINE new == [call |-> IF fits THEN "mkdir" ELSE "idle", name |-> n,
                   answer |-> IF fits THEN "none" ELSE "too large"]
<1>1. upload' = [upload EXCEPT ![u] = new] /\ new \in Upload /\ new.call \notin Writes
  BY DEF Begin, Upload, Calls, Answers, Writes
<1> HIDE DEF new
<1>2. upload' \in [Uploads -> Upload]
  BY <1>1 DEF Typed, TypeOK
<1>3. counts' \in [uploads : 0..MaxUploads, downloads : 0..MaxDownloads]
  <2>1. counts.uploads \in 0..MaxUploads
    BY DEF Typed, TypeOK
  <2>2. counts.uploads < MaxUploads /\ counts' = [counts EXCEPT !.uploads = @ + 1]
    BY DEF Begin
  <2>3. counts.uploads + 1 \in 0..MaxUploads
    BY <2>1, <2>2, MediaBounds
  <2> QED
    BY <2>2, <2>3 DEF Typed, TypeOK
<1>4. TypeOK'
  BY <1>2, <1>3 DEF Begin, Typed, TypeOK, disk
<1>5. WritersHaveFiles'
  BY <1>1 DEF Begin, Typed, TypeOK, WritersHaveFiles, disk
<1> QED
  BY <1>4, <1>5 DEF Typed

(* Upload u goes on to a call or ends with an answer, keeping its name. *)
LEMMA UploadMoves ==
  ASSUME Typed, NEW u \in Uploads,
         \/ \E c \in Calls : Call(u, c)
         \/ \E a \in Answers : Respond(u, a)
  PROVE  /\ upload' \in [Uploads -> Upload]
         /\ \A v \in Uploads : upload'[v].name = upload[v].name
         /\ \A v \in Uploads \ {u} : upload'[v] = upload[v]
         /\ \A c : Call(u, c) => upload'[u].call = c
         /\ \A a : Respond(u, a) => upload'[u].call = "idle"
BY DEF Typed, TypeOK, Upload, Call, Respond

LEMMA RespondsResponds ==
  ASSUME Typed, NEW u \in Uploads, NEW a \in Answers, Responds(u, a)
  PROVE  Respond(u, a) /\ promised' \subseteq promised \union {upload[u].name}
                       /\ promised' \subseteq Names /\ promised \subseteq promised'
                       /\ (a # "created" => promised' = promised)
BY DEF Responds, Typed, TypeOK, Upload

LEMMA MkdirAllType ==
  ASSUME Typed, NEW u \in Uploads, MkdirAll(u)
  PROVE  Typed'
<1>1. Call(u, "stat") /\ "stat" \in Calls /\ "stat" \notin Writes
  BY DEF MkdirAll, Calls, Writes
<1>2. dirs' \subseteq Names
  BY DEF MkdirAll, Typed, TypeOK, Upload
<1> QED
  BY <1>1, <1>2, UploadMoves DEF MkdirAll, At, Typed, TypeOK, WritersHaveFiles

LEMMA StatType ==
  ASSUME Typed, NEW u \in Uploads, Stat(u)
  PROVE  Typed'
<1>1. CASE AlreadyThere(upload[u].name)
  <2>1. Responds(u, "created") /\ "created" \in Answers /\ "idle" \notin Writes
    BY <1>1 DEF Stat, Answers, Writes
  <2> QED
    BY <2>1, UploadMoves, RespondsResponds DEF Stat, At, Typed, TypeOK, WritersHaveFiles, disk
<1>2. CASE ~AlreadyThere(upload[u].name)
  <2>1. Call(u, "open") /\ promised' = promised /\ "open" \in Calls /\ "open" \notin Writes
    BY <1>2 DEF Stat, Calls, Writes
  <2> QED
    BY <2>1, UploadMoves DEF Stat, At, Typed, TypeOK, WritersHaveFiles, disk
<1> QED
  BY <1>1, <1>2

LEMMA StatFailsType ==
  ASSUME Typed, NEW u \in Uploads, StatFails(u)
  PROVE  Typed'
<1>1. Call(u, "open") /\ "open" \in Calls /\ "open" \notin Writes
  BY DEF StatFails, Calls, Writes
<1> QED
  BY <1>1, UploadMoves DEF StatFails, At, Typed, TypeOK, WritersHaveFiles, disk

LEMMA OpenType ==
  ASSUME Typed, NEW u \in Uploads, Open(u)
  PROVE  Typed'
<1>1. Call(u, "head") /\ "head" \in Calls
  BY DEF Open, Calls
<1>2. /\ files' = [files EXCEPT ![upload[u].name] = {}] /\ {} \in SUBSET Pieces
      /\ files' \in [Names -> (SUBSET Pieces) \union {Nothing}]
  BY DEF Open, Typed, TypeOK
<1>3. disturbed' \subseteq Downloads
  BY DEF Open, DownloadsOf, Typed, TypeOK
<1>4. TypeOK'
  BY <1>1, <1>2, <1>3, UploadMoves DEF Open, At, Typed, TypeOK
<1>5. ASSUME NEW v \in Uploads, upload'[v].call \in Writes
      PROVE  files'[upload'[v].name] \in SUBSET Pieces
  <2>1. upload'[v].name = upload[v].name /\ upload[v].name \in Names
    BY <1>1, UploadMoves DEF Typed, TypeOK, Upload
  <2>2. CASE upload[v].name = upload[u].name
    BY <1>2, <2>1, <2>2 DEF Typed, TypeOK
  <2>3. CASE upload[v].name # upload[u].name
    BY <1>1, <1>2, <1>5, <2>1, <2>3, UploadMoves DEF Typed, TypeOK, WritersHaveFiles
  <2> QED
    BY <2>2, <2>3
<1> QED
  BY <1>4, <1>5 DEF Typed, WritersHaveFiles

LEMMA WriteMoves ==
  ASSUME Typed, NEW u \in Uploads, NEW piece \in Pieces, Write(u, piece)
  PROVE  /\ upload[u].call = piece /\ piece \in Writes
         /\ files[upload[u].name] \in SUBSET Pieces
         /\ files' = [files EXCEPT ![upload[u].name] = files[upload[u].name] \union {piece}]
         /\ piece = "tail" => Respond(u, "created") /\ Responds(u, "created")
         /\ piece = "head" => Call(u, "tail") /\ promised' = promised
         /\ \/ \E c \in Calls : Call(u, c)
            \/ \E a \in Answers : Respond(u, a)
BY DEF Write, At, AfterPiece, Typed, WritersHaveFiles, Responds, Pieces, Writes, Calls, Answers

LEMMA WriteType ==
  ASSUME Typed, NEW u \in Uploads, NEW piece \in Pieces, Write(u, piece)
  PROVE  Typed'
<1> DEFINE n == upload[u].name
<1>1. n \in Names /\ files[n] \union {piece} \in SUBSET Pieces
  BY WriteMoves DEF Typed, TypeOK, Upload
<1>2. files' \in [Names -> (SUBSET Pieces) \union {Nothing}]
      /\ files' = [files EXCEPT ![n] = files[n] \union {piece}]
  BY <1>1, WriteMoves DEF Typed, TypeOK
<1>3. promised' \subseteq Names
  <2>1. CASE piece = "head"
    BY <2>1, WriteMoves DEF Typed, TypeOK
  <2>2. CASE piece = "tail"
    BY <2>2, WriteMoves, RespondsResponds DEF Answers
  <2> QED
    BY <2>1, <2>2 DEF Pieces
<1>4. spoiled' \subseteq Names
  BY DEF Write, Typed, TypeOK
<1>5. TypeOK'
  BY <1>2, <1>3, <1>4, WriteMoves, UploadMoves DEF Write, At, Typed, TypeOK
<1>6. ASSUME NEW v \in Uploads, upload'[v].call \in Writes
      PROVE  files'[upload'[v].name] \in SUBSET Pieces
  <2>1. upload'[v].name = upload[v].name /\ upload[v].name \in Names
    BY WriteMoves, UploadMoves DEF Typed, TypeOK, Upload
  <2>2. CASE upload[v].name = n
    BY <1>1, <1>2, <2>1, <2>2 DEF Typed, TypeOK
  <2>3. CASE upload[v].name # n
    BY <1>2, <1>6, <2>1, <2>3, WriteMoves, UploadMoves DEF Typed, TypeOK, WritersHaveFiles
  <2> QED
    BY <2>2, <2>3
<1> QED
  BY <1>5, <1>6 DEF Typed, WritersHaveFiles

LEMMA SpoilType ==
  ASSUME Typed, NEW us \in SUBSET Uploads, Spoil(us)
  PROVE  spoiled' \subseteq Names /\ disturbed' \subseteq Downloads
BY DEF Spoil, DownloadsOf, Typed, TypeOK, Upload

LEMMA FailMoves ==
  ASSUME Typed, NEW u \in Uploads, Fail(u)
  PROVE  /\ upload[u].call \in Calls \ {"stat"} /\ Respond(u, "error") /\ "error" \in Answers
         /\ UNCHANGED <<files, download, counts, dirs, fresh, promised>>
         /\ Spoil({u})
<1>1. files' = files
  <2>1. files = [files EXCEPT ![upload[u].name] = files[upload[u].name]]
    BY DEF Typed, TypeOK
  <2> QED
    BY <2>1 DEF Fail, AfterFailure
<1> QED
  BY <1>1 DEF Fail, At, OnFailure, Responds, Answers

LEMMA FailType ==
  ASSUME Typed, NEW u \in Uploads, Fail(u)
  PROVE  Typed'
<1>1. spoiled' \subseteq Names /\ disturbed' \subseteq Downloads
  BY FailMoves, SpoilType
<1>2. upload' \in [Uploads -> Upload] /\ TypeOK'
  BY <1>1, FailMoves, UploadMoves DEF Typed, TypeOK
<1>3. WritersHaveFiles'
  BY FailMoves, UploadMoves DEF Typed, WritersHaveFiles, Writes
<1> QED
  BY <1>2, <1>3 DEF Typed

LEMMA CrashMoves ==
  ASSUME Typed, Crash
  PROVE  /\ upload' \in [Uploads -> Upload] /\ download' \in [Downloads -> Download]
         /\ \A u \in Uploads : upload'[u].call = "idle"
         /\ \A d \in Downloads : download'[d].piece = "idle" /\ ~download'[d].found
         /\ Spoil(Uploads) /\ UNCHANGED <<files, dirs, promised, fresh, counts>>
<1>1. upload \in [Uploads -> Upload] /\ download \in [Downloads -> Download]
  BY DEF Typed, TypeOK
<1>2. /\ upload' = [u \in Uploads |-> [upload[u] EXCEPT !.call = "idle", !.answer = "none"]]
      /\ download' = [d \in Downloads |->
                        [download[d] EXCEPT !.piece = "idle", !.found = FALSE, !.got = {}]]
  BY DEF Crash
<1>3. \A u \in Uploads : upload'[u] \in Upload /\ upload'[u].call = "idle"
  BY <1>1, <1>2 DEF Upload, Answers
<1>4. \A d \in Downloads : /\ download'[d] \in Download
                           /\ download'[d].piece = "idle" /\ ~download'[d].found
  BY <1>1, <1>2 DEF Download
<1>5. upload' \in [Uploads -> Upload]
  BY <1>2, <1>3
<1>6. download' \in [Downloads -> Download]
  BY <1>2, <1>4
<1> QED
  BY <1>3, <1>4, <1>5, <1>6 DEF Crash, disk

LEMMA CrashType ==
  ASSUME Typed, Crash
  PROVE  Typed'
<1>1. spoiled' \subseteq Names /\ disturbed' \subseteq Downloads
  BY CrashMoves, SpoilType
<1> QED
  BY <1>1, CrashMoves DEF Typed, TypeOK, WritersHaveFiles, Writes

LEMMA GetType ==
  ASSUME Typed, NEW d \in Downloads, NEW n \in Names, Get(d, n)
  PROVE  Typed'
<1> DEFINE new == [piece |-> IF files[n] = Nothing THEN "idle" ELSE "head", name |-> n,
                   got |-> {}, found |-> files[n] # Nothing]
<1>1. download' = [download EXCEPT ![d] = new] /\ new \in Download
  BY DEF Get, Download, Pieces
<1> HIDE DEF new
<1>2. download' \in [Downloads -> Download]
  BY <1>1 DEF Typed, TypeOK
<1>3. counts' \in [uploads : 0..MaxUploads, downloads : 0..MaxDownloads]
  <2>1. counts.downloads \in 0..MaxDownloads
    BY DEF Typed, TypeOK
  <2>2. counts.downloads < MaxDownloads /\ counts' = [counts EXCEPT !.downloads = @ + 1]
    BY DEF Get
  <2>3. counts.downloads + 1 \in 0..MaxDownloads
    BY <2>1, <2>2, MediaBounds
  <2> QED
    BY <2>2, <2>3 DEF Typed, TypeOK
<1> QED
  BY <1>2, <1>3 DEF Get, Typed, TypeOK, WritersHaveFiles, disk

LEMMA ReadPieceMoves ==
  ASSUME Typed, NEW d \in Downloads, ReadPiece(d)
  PROVE  LET q == download[d]
         IN /\ q.piece \in Pieces /\ download' \in [Downloads -> Download]
            /\ \A e \in Downloads \ {d} : download'[e] = download[e]
            /\ download'[d].name = q.name /\ download'[d].found = q.found
            /\ download'[d].got = q.got \union (files[q.name] \intersect {q.piece})
            /\ download'[d].piece = IF q.piece = "head" THEN "tail" ELSE "idle"
<1> DEFINE q == download[d]
           new == [q EXCEPT !.got = q.got \union (files[q.name] \intersect {q.piece}),
                            !.piece = IF q.piece = "head" THEN "tail" ELSE "idle"]
<1>1. q \in Download /\ q.piece \in Pieces
  BY DEF ReadPiece, Typed, TypeOK, Download
<1>2. new \in Download /\ new.name = q.name /\ new.found = q.found
      /\ new.got = q.got \union (files[q.name] \intersect {q.piece})
      /\ new.piece = IF q.piece = "head" THEN "tail" ELSE "idle"
  BY <1>1 DEF Download, Pieces
<1>3. download' = [download EXCEPT ![d] = new]
  BY <1>1 DEF ReadPiece, Typed, TypeOK
<1> HIDE DEF new
<1> QED
  BY <1>1, <1>2, <1>3 DEF Typed, TypeOK

LEMMA ReadPieceType ==
  ASSUME Typed, NEW d \in Downloads, ReadPiece(d)
  PROVE  Typed'
BY ReadPieceMoves DEF ReadPiece, Typed, TypeOK, WritersHaveFiles, disk

LEMMA TypeStep ==
  ASSUME Typed, [Next]_vars
  PROVE  Typed'
<1>1. CASE UNCHANGED vars
  BY <1>1 DEF Typed, TypeOK, WritersHaveFiles, vars, disk
<1> QED
  BY <1>1, BeginType, MkdirAllType, StatType, StatFailsType, OpenType, WriteType, FailType,
     CrashType, GetType, ReadPieceType DEF Next, Put

(* Type correctness of the media directory and the requests on it. *)
THEOREM TypeCorrect == Spec => []TypeOK
<1>1. Typed => TypeOK
  BY DEF Typed
<1> QED
  BY <1>1, TypeInit, TypeStep, PTL DEF Spec

--------------------------------------------------------------------------------
(* What a step does to the uploads, the files and the promises. *)

(* Only the opening and the writing of a file change it, and no file goes. *)
LEMMA FilesStay ==
  ASSUME Typed, [Next]_vars, NEW n \in Names, files[n] # Nothing
  PROVE  files'[n] # Nothing
<1>1. ASSUME NEW u \in Uploads, Open(u) PROVE files'[n] # Nothing
  <2>1. files' = [files EXCEPT ![upload[u].name] = {}] /\ {} # Nothing
    BY <1>1, NothingIsNoFile DEF Open
  <2> QED
    BY <2>1 DEF Typed, TypeOK
<1>2. ASSUME NEW u \in Uploads, NEW piece \in Pieces, Write(u, piece) PROVE files'[n] # Nothing
  <2>1. files[upload[u].name] \union {piece} \in SUBSET Pieces
    BY <1>2, WriteMoves
  <2> QED
    BY <1>2, <2>1, WriteMoves, NothingIsNoFile DEF Typed, TypeOK
<1>3. ASSUME NEW u \in Uploads, Fail(u) PROVE files'[n] # Nothing
  BY <1>3, FailMoves
<1>4. CASE Crash
  BY <1>4, CrashMoves
<1> QED
  BY <1>1, <1>2, <1>3, <1>4 DEF Next, Put, Begin, MkdirAll, Stat, StatFails, Get, ReadPiece, vars, disk

--------------------------------------------------------------------------------
(* Promised files stay, and only fresh uploads write. *)

(* Upload u goes on while the others, the names and the fresh ones stay.   *)
LEMMA FreshMove ==
  ASSUME Typed, FreshInv, [Next]_vars, NEW u \in Uploads,
         \/ \E c \in Calls : Call(u, c)
         \/ \E a \in Answers : Respond(u, a),
         fresh \subseteq fresh',
         upload'[u].call \in {"open"} \union Writes => u \in fresh',
         upload'[u].call \in {"mkdir", "stat"} => upload[u].call \in {"mkdir", "stat"},
         \A n \in promised' : files'[n] # Nothing
  PROVE  FreshInv'
<1>1. \A v \in Uploads : upload'[v].name = upload[v].name /\ upload[v].name \in Names
  BY UploadMoves DEF Typed, TypeOK, Upload
<1>2. \A v \in Uploads \ {u} : upload'[v] = upload[v]
  BY UploadMoves
<1>3. PromisedStaysThere'
  BY <1>1, <1>2 DEF FreshInv, PromisedStaysThere
<1>4. ASSUME NEW v \in Uploads, upload'[v].call \in {"mkdir", "stat"}, v \notin fresh'
      PROVE  files'[upload'[v].name] # Nothing
  <2>1. files[upload[v].name] # Nothing
    BY <1>2, <1>4 DEF FreshInv, StaleWillFind
  <2> QED
    BY <1>1, <2>1, FilesStay
<1> QED
  BY <1>3, <1>4 DEF FreshInv, StaleWillFind

LEMMA PromisesStay ==
  ASSUME Typed, FreshInv, [Next]_vars, promised' = promised
  PROVE  \A n \in promised' : files'[n] # Nothing
BY FilesStay DEF FreshInv, PromisedStaysThere, Typed, TypeOK

(* A promise is added for a file that is there. *)
LEMMA NewPromise ==
  ASSUME Typed, FreshInv, [Next]_vars, NEW u \in Uploads, NEW a \in Answers, Responds(u, a),
         files'[upload[u].name] # Nothing
  PROVE  \A n \in promised' : files'[n] # Nothing
BY FilesStay, RespondsResponds DEF FreshInv, PromisedStaysThere, Typed, TypeOK

LEMMA BeginFresh ==
  ASSUME Typed, FreshInv, NEW u \in Uploads, NEW n \in Names, NEW fits \in BOOLEAN, Begin(u, n, fits)
  PROVE  FreshInv'
<1>1. /\ upload'[u].call \in {"mkdir", "idle"} /\ upload'[u].name = n
      /\ \A v \in Uploads \ {u} : upload'[v] = upload[v]
      /\ fresh' = IF files[n] = Nothing THEN fresh \union {u} ELSE fresh \ {u}
      /\ files' = files /\ promised' = promised
  BY DEF Begin, Typed, TypeOK, disk
<1>2. PromisedStaysThere'
  BY <1>1 DEF FreshInv, PromisedStaysThere, Writes
<1>3. StaleWillFind'
  BY <1>1 DEF FreshInv, StaleWillFind
<1> QED
  BY <1>2, <1>3 DEF FreshInv

LEMMA FreshStep ==
  ASSUME Typed, FreshInv, [Next]_vars
  PROVE  FreshInv'
<1> USE DEF Calls, Answers
<1>1. CASE UNCHANGED vars
  BY <1>1 DEF vars, disk, FreshInv, PromisedStaysThere, StaleWillFind
<1>2. ASSUME NEW u \in Uploads, MkdirAll(u) PROVE FreshInv'
  <2>1. Call(u, "stat") /\ fresh' = fresh /\ promised' = promised /\ upload[u].call = "mkdir"
    BY <1>2 DEF MkdirAll, At
  <2> QED
    BY <2>1, FreshMove, PromisesStay, UploadMoves DEF Writes
<1>3. ASSUME NEW u \in Uploads, Stat(u) PROVE FreshInv'
  <2>1. fresh' = fresh /\ files' = files /\ upload[u].call = "stat" /\ upload[u].name \in Names
    BY <1>3 DEF Stat, At, disk, Typed, TypeOK, Upload
  <2>2. CASE AlreadyThere(upload[u].name)
    <3>1. Responds(u, "created") /\ Respond(u, "created")
      BY <1>3, <2>2, RespondsResponds DEF Stat
    <3>2. \A n \in promised' : files'[n] # Nothing
      BY <2>1, <2>2, <3>1, NewPromise DEF AlreadyThere
    <3> QED
      BY <2>1, <3>1, <3>2, FreshMove, UploadMoves DEF Writes
  <2>3. CASE ~AlreadyThere(upload[u].name)
    <3>1. Call(u, "open") /\ promised' = promised
      BY <1>3, <2>3 DEF Stat
    <3>2. u \in fresh
      BY <2>1, <2>3 DEF AlreadyThere, FreshInv, StaleWillFind
    <3> QED
      BY <2>1, <3>1, <3>2, FreshMove, PromisesStay, UploadMoves
  <2> QED
    BY <2>2, <2>3
<1>4. ASSUME NEW u \in Uploads, StatFails(u) PROVE FreshInv'
  <2>1. Call(u, "open") /\ fresh' = fresh \union {u} /\ promised' = promised
    BY <1>4 DEF StatFails
  <2> QED
    BY <2>1, FreshMove, PromisesStay, UploadMoves
<1>5. ASSUME NEW u \in Uploads, Open(u) PROVE FreshInv'
  <2>1. Call(u, "head") /\ fresh' = fresh /\ promised' = promised /\ upload[u].call = "open"
    BY <1>5 DEF Open, At
  <2>2. u \in fresh
    BY <2>1 DEF FreshInv, PromisedStaysThere
  <2> QED
    BY <2>1, <2>2, FreshMove, PromisesStay, UploadMoves
<1>6. ASSUME NEW u \in Uploads, NEW piece \in Pieces, Write(u, piece) PROVE FreshInv'
  <2>1. fresh' = fresh /\ u \in fresh
    BY <1>6, WriteMoves DEF Write, FreshInv, PromisedStaysThere
  <2>2. CASE piece = "head"
    <3>1. Call(u, "tail") /\ promised' = promised
      BY <1>6, <2>2, WriteMoves
    <3> QED
      BY <2>1, <3>1, FreshMove, PromisesStay, UploadMoves
  <2>3. CASE piece = "tail"
    <3>1. Responds(u, "created") /\ Respond(u, "created")
      BY <1>6, <2>3, WriteMoves
    <3>2. upload[u].name \in Names /\ files[upload[u].name] # Nothing
      <4>1. upload[u].name \in Names
        BY DEF Typed, TypeOK, Upload
      <4>2. files[upload[u].name] \in SUBSET Pieces
        BY <1>6, WriteMoves
      <4> QED
        BY <4>1, <4>2, NothingIsNoFile
    <3>3. \A n \in promised' : files'[n] # Nothing
      BY <3>1, <3>2, NewPromise, FilesStay
    <3> QED
      BY <2>1, <3>1, <3>3, FreshMove, UploadMoves DEF Writes
  <2> QED
    BY <2>2, <2>3 DEF Pieces
<1>7. ASSUME NEW u \in Uploads, Fail(u) PROVE FreshInv'
  BY <1>7, FailMoves, FreshMove, PromisesStay, UploadMoves DEF Writes
<1>8. CASE Crash
  <2>1. PromisedStaysThere' /\ StaleWillFind'
    BY <1>8, CrashMoves DEF FreshInv, PromisedStaysThere, StaleWillFind, Writes
  <2> QED
    BY <2>1 DEF FreshInv
<1>9. ASSUME NEW d \in Downloads, NEW n \in Names, Get(d, n) PROVE FreshInv'
  BY <1>9 DEF Get, disk, FreshInv, PromisedStaysThere, StaleWillFind
<1>10. ASSUME NEW d \in Downloads, ReadPiece(d) PROVE FreshInv'
  BY <1>10 DEF ReadPiece, disk, FreshInv, PromisedStaysThere, StaleWillFind
<1> QED
  BY <1>1, <1>2, <1>3, <1>4, <1>5, <1>6, <1>7, <1>8, <1>9, <1>10, BeginFresh DEF Next, Put

LEMMA FreshInit == Init => FreshInv
BY DEF Init, FreshInv, PromisedStaysThere, StaleWillFind, Writes

(* A URL once given out leads to a file from then on, and only uploads     *)
(* that found no file write one (LocalFS.Put, media/upload.go:72-88).      *)
THEOREM PromisesAreKept == Spec => []PromisedStaysThere
<1>1. FreshInv => PromisedStaysThere
  BY DEF FreshInv
<1> QED
  BY <1>1, TypeInit, TypeStep, FreshInit, FreshStep, PTL DEF Spec

--------------------------------------------------------------------------------
(* A file is incomplete only under a writer or after a failed one. *)

(* Nobody begins or stops to write. *)
LEMMA NoWriterMoves ==
  ASSUME WholeInv, UNCHANGED files, spoiled \subseteq spoiled',
         \A v \in Uploads : \/ upload'[v] = upload[v]
                            \/ upload[v].call \notin Writes /\ upload'[v].call \notin Writes
  PROVE  WholeInv'
<1>1. \A n : WritersOf(n)' = WritersOf(n) /\ HeadWritersOf(n)' = HeadWritersOf(n)
  BY DEF WritersOf, HeadWritersOf, Writes
<1>2. IncompleteHasCause'
  BY <1>1 DEF WholeInv, IncompleteHasCause
<1>3. HeadIsThere'
  BY <1>1 DEF WholeInv, HeadIsThere, Writes
<1> QED
  BY <1>2, <1>3 DEF WholeInv

(* Upload u opens, writes or gives up its file n. *)
LEMMA WriterMoves ==
  ASSUME Typed, WholeInv, NEW u \in Uploads,
         \/ \E c \in Calls : Call(u, c)
         \/ \E a \in Answers : Respond(u, a),
         NEW n \in Names, n = upload[u].name,
         \A m \in Names \ {n} : files'[m] = files[m],
         \A m \in Names : m \in spoiled => m \in spoiled' \/ files'[m] = Whole,
         files'[n] # Nothing /\ files'[n] # Whole =>
           \/ n \in spoiled'
           \/ upload'[u].call \in Writes
           \/ WritersOf(n) \ {u} # {},
         \/ "head" \in files'[n]
         \/ n \in spoiled'
         \/ upload'[u].call = "head"
         \/ HeadWritersOf(n) \ {u} # {}
         \/ \A v \in Uploads : upload'[v].call = "tail" => upload[v].name # n
  PROVE  WholeInv'
<1>1. \A v \in Uploads : upload'[v].name = upload[v].name /\ upload[v].name \in Names
  BY UploadMoves DEF Typed, TypeOK, Upload
<1>2. \A v \in Uploads \ {u} : upload'[v] = upload[v]
  BY UploadMoves
<1>3. \A m \in Names \ {n} : WritersOf(m)' = WritersOf(m) /\ HeadWritersOf(m)' = HeadWritersOf(m)
  BY <1>1, <1>2 DEF WritersOf, HeadWritersOf
<1>4. /\ WritersOf(n) \ {u} \subseteq WritersOf(n)'
      /\ HeadWritersOf(n) \ {u} \subseteq HeadWritersOf(n)'
      /\ upload'[u].call \in Writes => u \in WritersOf(n)'
      /\ upload'[u].call = "head" => u \in HeadWritersOf(n)'
  BY <1>1, <1>2 DEF WritersOf, HeadWritersOf, Writes
<1>5. "head" \in Whole
  BY DEF Whole, Pieces
<1>6. ASSUME NEW m \in Names, files'[m] # Nothing, files'[m] # Whole
      PROVE  m \in spoiled' \/ WritersOf(m)' # {}
  <2>1. CASE m = n
    BY <1>4, <1>6, <2>1
  <2>2. CASE m # n
    BY <1>3, <1>6, <2>2 DEF WholeInv, IncompleteHasCause
  <2> QED
    BY <2>1, <2>2
<1>7. ASSUME NEW v \in Uploads, upload'[v].call = "tail", NEW m \in Names, m = upload[v].name
      PROVE  "head" \in files'[m] \/ HeadWritersOf(m)' # {} \/ m \in spoiled'
  <2>1. CASE m = n
    BY <1>4, <1>7, <2>1
  <2>2. CASE m # n
    <3>1. upload'[v] = upload[v] /\ m \in Names \ {n}
      BY <1>2, <1>7, <2>2
    <3>2. "head" \in files[m] \/ HeadWritersOf(m) # {} \/ m \in spoiled
      BY <1>7, <3>1 DEF WholeInv, HeadIsThere
    <3>3. files'[m] = files[m] /\ HeadWritersOf(m)' = HeadWritersOf(m)
      BY <1>3, <3>1
    <3>4. m \in spoiled => m \in spoiled' \/ files'[m] = Whole
      OBVIOUS
    <3> QED
      BY <1>5, <3>2, <3>3, <3>4
  <2> QED
    BY <2>1, <2>2
<1>8. IncompleteHasCause'
  BY <1>6 DEF IncompleteHasCause
<1>9. HeadIsThere'
  BY <1>1, <1>7 DEF HeadIsThere
<1> QED
  BY <1>8, <1>9 DEF WholeInv

LEMMA OpenWhole ==
  ASSUME Typed, WholeInv, NEW u \in Uploads, Open(u)
  PROVE  WholeInv'
<1>1. Call(u, "head") /\ "head" \in Calls /\ "head" \in Writes /\ spoiled' = spoiled
      /\ files' = [files EXCEPT ![upload[u].name] = {}] /\ upload[u].name \in Names
  BY DEF Open, Calls, Writes, Typed, TypeOK, Upload
<1>2. upload'[u].call = "head" /\ \A m \in Names \ {upload[u].name} : files'[m] = files[m]
  BY <1>1, UploadMoves DEF Typed, TypeOK
<1> QED
  BY <1>1, <1>2, WriterMoves

LEMMA WriteWhole ==
  ASSUME Typed, WholeInv, NEW u \in Uploads, NEW piece \in Pieces, Write(u, piece)
  PROVE  WholeInv'
<1> DEFINE n == upload[u].name
<1>1. n \in Names
  BY DEF Typed, TypeOK, Upload
<1>2. files'[n] = files[n] \union {piece} /\ files[n] \in SUBSET Pieces
  BY <1>1, WriteMoves DEF Typed, TypeOK
<1>3. \A m \in Names \ {n} : files'[m] = files[m]
  BY WriteMoves DEF Typed, TypeOK
<1>4. \A m \in Names : m \in spoiled => m \in spoiled' \/ files'[m] = Whole
  BY DEF Write
<1>5. CASE piece = "head"
  <2>1. upload'[u].call \in Writes /\ "head" \in files'[n]
    BY <1>2, <1>5, WriteMoves, UploadMoves DEF Writes
  <2> QED
    BY <1>1, <1>3, <1>4, <2>1, WriteMoves, WriterMoves
<1>6. CASE piece = "tail"
  <2>1. "head" \in files[n] \/ HeadWritersOf(n) # {} \/ n \in spoiled
    BY <1>6, WriteMoves DEF WholeInv, HeadIsThere
  <2>2. "head" \in files[n] => files'[n] = Whole
    BY <1>2, <1>6 DEF Whole, Pieces
  <2>3. u \notin HeadWritersOf(n) /\ HeadWritersOf(n) \subseteq WritersOf(n)
    BY <1>6, WriteMoves DEF HeadWritersOf
  <2>4. \/ "head" \in files'[n] /\ files'[n] = Whole
        \/ HeadWritersOf(n) \ {u} # {} /\ WritersOf(n) \ {u} # {}
        \/ n \in spoiled'
        \/ files'[n] = Whole /\ "head" \in files'[n]
    BY <1>1, <1>4, <2>1, <2>2, <2>3 DEF Whole, Pieces
  <2> QED
    BY <1>1, <1>3, <1>4, <2>4, WriteMoves, WriterMoves
<1> QED
  BY <1>5, <1>6 DEF Pieces

LEMMA FailWhole ==
  ASSUME Typed, WholeInv, NEW u \in Uploads, Fail(u)
  PROVE  WholeInv'
<1> DEFINE n == upload[u].name
<1>1. n \in Names /\ files' = files /\ spoiled \subseteq spoiled' /\ Respond(u, "error")
  BY FailMoves DEF Spoil, Typed, TypeOK, Upload
<1>2. CASE upload[u].call \notin Writes
  BY <1>1, <1>2, FailMoves, UploadMoves, NoWriterMoves DEF Writes
<1>3. CASE upload[u].call \in Writes
  <2>1. n \in spoiled' \/ files[n] = Whole
    BY <1>1, <1>3, FailMoves DEF Spoil
  <2>2. files[n] = Whole => "head" \in files[n]
    BY DEF Whole, Pieces
  <2> QED
    BY <1>1, <2>1, <2>2, FailMoves, WriterMoves
<1> QED
  BY <1>2, <1>3

LEMMA CrashWhole ==
  ASSUME Typed, WholeInv, Crash
  PROVE  WholeInv'
<1>1. ASSUME NEW n \in Names, files[n] # Nothing, files[n] # Whole PROVE n \in spoiled'
  BY <1>1, CrashMoves DEF Spoil, WholeInv, IncompleteHasCause, WritersOf
<1>2. IncompleteHasCause'
  BY <1>1, CrashMoves DEF IncompleteHasCause
<1>3. HeadIsThere'
  BY CrashMoves DEF HeadIsThere
<1> QED
  BY <1>2, <1>3 DEF WholeInv

LEMMA WholeStep ==
  ASSUME Typed, WholeInv, [Next]_vars
  PROVE  WholeInv'
<1>1. CASE UNCHANGED vars
  <2>1. UNCHANGED files /\ spoiled \subseteq spoiled' /\ \A v \in Uploads : upload'[v] = upload[v]
    BY <1>1 DEF vars, disk
  <2> QED
    BY <2>1, NoWriterMoves
<1>2. ASSUME NEW u \in Uploads, NEW n \in Names, NEW fits \in BOOLEAN, Begin(u, n, fits) PROVE WholeInv'
  BY <1>2, NoWriterMoves DEF Begin, disk, Writes, Typed, TypeOK
<1>3. ASSUME NEW u \in Uploads, MkdirAll(u) PROVE WholeInv'
  BY <1>3, NoWriterMoves DEF MkdirAll, At, Call, Writes, Typed, TypeOK
<1>4. ASSUME NEW u \in Uploads, Stat(u) PROVE WholeInv'
  <2>1. upload[u].call = "stat" /\ files' = files /\ spoiled' = spoiled
    BY <1>4 DEF Stat, At, disk
  <2>2. \/ Call(u, "open") /\ "open" \in Calls
        \/ Respond(u, "created") /\ "created" \in Answers
    BY <1>4 DEF Stat, Responds, Calls, Answers
  <2> QED
    BY <2>1, <2>2, UploadMoves, NoWriterMoves DEF Writes
<1>5. ASSUME NEW u \in Uploads, StatFails(u) PROVE WholeInv'
  BY <1>5, NoWriterMoves DEF StatFails, At, Call, disk, Writes, Typed, TypeOK
<1>6. ASSUME NEW d \in Downloads, NEW n \in Names, Get(d, n) PROVE WholeInv'
  BY <1>6, NoWriterMoves DEF Get, disk
<1>7. ASSUME NEW d \in Downloads, ReadPiece(d) PROVE WholeInv'
  BY <1>7, NoWriterMoves DEF ReadPiece, disk
<1> QED
  BY <1>1, <1>2, <1>3, <1>4, <1>5, <1>6, <1>7, OpenWhole, WriteWhole, FailWhole, CrashWhole DEF Next, Put

LEMMA WholeInit == Init => WholeInv
BY DEF Init, WholeInv, IncompleteHasCause, HeadIsThere

--------------------------------------------------------------------------------
(* Undisturbed downloads. *)

LEMMA DownloadInit == Init => DownloadInv
BY DEF Init, DownloadInv, DownloadsSeeWhole, DownloadsEndWhole

(* Downloads go on while nothing is truncated under them. *)
LEMMA DownloadsStay ==
  ASSUME DownloadInv, UNCHANGED download, disturbed \subseteq disturbed',
         \A d \in Downloads : download[d].piece # "idle" /\ d \notin disturbed' =>
           files'[download[d].name] = files[download[d].name]
  PROVE  DownloadInv'
<1>1. DownloadsSeeWhole'
  BY DEF DownloadInv, DownloadsSeeWhole
<1>2. DownloadsEndWhole'
  BY DEF DownloadInv, DownloadsEndWhole
<1> QED
  BY <1>1, <1>2 DEF DownloadInv

LEMMA OpenDownload ==
  ASSUME Typed, DownloadInv, NEW u \in Uploads, Open(u)
  PROVE  DownloadInv'
<1>1. ASSUME NEW d \in Downloads, download[d].piece # "idle", d \notin disturbed'
      PROVE  files'[download[d].name] = files[download[d].name]
  <2>1. download[d].name # upload[u].name
    BY <1>1 DEF Open, DownloadsOf
  <2>2. download[d].name \in Names
    BY DEF Typed, TypeOK, Download
  <2> QED
    BY <2>1, <2>2 DEF Open, Typed, TypeOK
<1> QED
  BY <1>1, DownloadsStay DEF Open, At

LEMMA WriteDownload ==
  ASSUME Typed, DownloadInv, NEW u \in Uploads, NEW piece \in Pieces, Write(u, piece)
  PROVE  DownloadInv'
<1>1. ASSUME NEW d \in Downloads, download[d].piece # "idle", d \notin disturbed
      PROVE  files'[download[d].name] = files[download[d].name]
  <2>1. files[download[d].name] = Whole /\ download[d].name \in Names
    BY <1>1 DEF DownloadInv, DownloadsSeeWhole, Typed, TypeOK, Download
  <2>2. files' = [files EXCEPT ![upload[u].name] = files[upload[u].name] \union {piece}]
    BY WriteMoves
  <2>3. Whole \union {piece} = Whole
    BY DEF Whole
  <2>4. CASE download[d].name = upload[u].name
    BY <2>1, <2>2, <2>3, <2>4 DEF Typed, TypeOK
  <2>5. CASE download[d].name # upload[u].name
    BY <2>1, <2>2, <2>5 DEF Typed, TypeOK
  <2> QED
    BY <2>4, <2>5
<1> QED
  BY <1>1, DownloadsStay DEF Write, At

LEMMA GetDownload ==
  ASSUME Typed, WholeInv, DownloadInv, NEW d \in Downloads, NEW n \in Names, Get(d, n)
  PROVE  DownloadInv'
<1>1. /\ files' = files /\ \A e \in Downloads \ {d} : download'[e] = download[e]
      /\ download'[d].name = n /\ download'[d].found = (files[n] # Nothing)
      /\ download'[d].piece = IF files[n] = Nothing THEN "idle" ELSE "head"
  BY DEF Get, disk, Typed, TypeOK
<1>2. \A e \in Downloads \ {d} : e \in disturbed' <=> e \in disturbed
  BY DEF Get
<1>3. d \notin disturbed' => files[n] = Nothing \/ files[n] = Whole
  BY DEF Get, WholeInv, IncompleteHasCause
<1>4. DownloadsSeeWhole'
  BY <1>1, <1>2, <1>3 DEF DownloadInv, DownloadsSeeWhole
<1>5. DownloadsEndWhole'
  BY <1>1, <1>2 DEF DownloadInv, DownloadsEndWhole
<1> QED
  BY <1>4, <1>5 DEF DownloadInv

LEMMA ReadPieceDownload ==
  ASSUME Typed, DownloadInv, NEW d \in Downloads, ReadPiece(d)
  PROVE  DownloadInv'
<1> DEFINE q == download[d]
<1>1. files' = files /\ disturbed' = disturbed
  BY DEF ReadPiece, disk
<1>2. q.piece \in Pieces /\ q.piece # "idle" /\ q.got \in SUBSET Pieces
  BY ReadPieceMoves DEF Pieces, Typed, TypeOK, Download
<1>3. q.found /\ (d \notin disturbed => files[q.name] = Whole /\ (q.piece = "tail" => "head" \in q.got))
  BY <1>2 DEF DownloadInv, DownloadsSeeWhole
<1>4. d \notin disturbed =>
        /\ q.piece = "head" => "head" \in download'[d].got
        /\ q.piece = "tail" => download'[d].got = Whole
  BY <1>2, <1>3, ReadPieceMoves DEF Whole, Pieces
<1>5. DownloadsSeeWhole'
  BY <1>1, <1>2, <1>3, <1>4, ReadPieceMoves DEF DownloadInv, DownloadsSeeWhole, Pieces
<1>6. DownloadsEndWhole'
  BY <1>1, <1>2, <1>3, <1>4, ReadPieceMoves DEF DownloadInv, DownloadsEndWhole, Pieces
<1> QED
  BY <1>5, <1>6 DEF DownloadInv

LEMMA DownloadStep ==
  ASSUME Typed, WholeInv, DownloadInv, [Next]_vars
  PROVE  DownloadInv'
<1>1. CASE UNCHANGED vars
  BY <1>1, DownloadsStay DEF vars, disk
<1>2. ASSUME NEW u \in Uploads, NEW n \in Names, NEW fits \in BOOLEAN, Begin(u, n, fits) PROVE DownloadInv'
  BY <1>2, DownloadsStay DEF Begin, disk
<1>3. ASSUME NEW u \in Uploads, MkdirAll(u) \/ Stat(u) \/ StatFails(u) PROVE DownloadInv'
  BY <1>3, DownloadsStay DEF MkdirAll, Stat, StatFails, At, disk
<1>4. ASSUME NEW u \in Uploads, Fail(u) PROVE DownloadInv'
  BY <1>4, FailMoves, DownloadsStay DEF Spoil
<1>5. CASE Crash
  BY <1>5, CrashMoves DEF DownloadInv, DownloadsSeeWhole, DownloadsEndWhole
<1> QED
  BY <1>1, <1>2, <1>3, <1>4, <1>5, OpenDownload, WriteDownload, GetDownload, ReadPieceDownload DEF Next, Put

(* A file is incomplete only under a writer or after a failed one, and a   *)
(* download no writer disturbs gets all of it: uploads of the same bytes   *)
(* that race leave it whole (LocalFS.Put and Get, media/upload.go:62-115). *)
THEOREM DownloadsGetWholeFiles == Spec => []DownloadsAreWhole
<1>1. WholeInv /\ DownloadInv => DownloadsAreWhole
  BY DEF WholeInv, DownloadInv, DownloadsEndWhole, DownloadsAreWhole
<1>2. Typed /\ WholeInv /\ DownloadInv /\ [Next]_vars => WholeInv' /\ DownloadInv'
  BY WholeStep, DownloadStep
<1>3. Init => WholeInv /\ DownloadInv
  BY WholeInit, DownloadInit
<1> QED
  BY <1>1, <1>2, <1>3, TypeInit, TypeStep, PTL DEF Spec

================================================================================
