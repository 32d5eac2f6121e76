--------------------------- MODULE BundleActivation ---------------------------
(***************************************************************************)
(* Fetcher.Activate (bundle/fetcher.go) for one tenant, system call by     *)
(* system call: workers serve release webhooks concurrently, any call may  *)
(* fail, and the process may crash between two calls.  What is on disk     *)
(* survives: the version directories, the link current that readers        *)
(* follow and the link current.new on its way to replace it.               *)
(* Versions are numbered in release order.                                 *)
(***************************************************************************)
EXTENDS Integers, FiniteSets

CONSTANTS
  Workers,      \* the goroutines that may activate at the same time
  Contents,     \* what a tarball holds (never empty); a tag can be re-published
  MaxVersion,   \* bound: versions released
  MaxAttempts,  \* bound: webhooks delivered
  Nothing       \* no directory

ASSUME WorkersAssumption == IsFiniteSet(Workers)
ASSUME VersionAssumption == MaxVersion \in Nat \ {0} /\ MaxAttempts \in Nat

VARIABLES
  dirs,        \* dirs[v]: the bundle in <tenant>/<v>, or Nothing
  current,     \* the version current links to, or NoVersion
  currentNew,  \* the version current.new links to, or NoVersion
  pc,          \* the call each worker makes next
  job,         \* the release each worker activates (or did last)
  temp,        \* each worker's .extract-* directory
  outcome,     \* what each worker's last Activate returned
  attempts,    \* webhooks delivered
  activated,   \* the versions current has linked to
  quiet        \* the workers whose attempt has met no failure and no other attempt

disk == <<dirs, current, currentNew>>
vars == <<disk, pc, job, temp, outcome, attempts, activated, quiet>>

Versions == 1..MaxVersion
NoVersion == 0
Link == Versions \union {NoVersion}

Job == [version : Versions, content : Contents]
Bundle == [content : Contents, whole : BOOLEAN]
Calls == {"extract", "stat", "rename", "remove", "symlink", "swap"}
Temps == {"none", "partial", "full"}
Outcomes == {"none", "ok", "regression", "error"}

ASSUME NothingAssumption == Nothing \notin Bundle

Running == {w \in Workers : pc[w] # "idle"}

--------------------------------------------------------------------------------
(* Activate returns: the deferred cleanup removes the temporary directory  *)
(* unless it has become the version directory.                             *)

Return(w, o) ==
  /\ pc' = [pc EXCEPT ![w] = "idle"]
  /\ outcome' = [outcome EXCEPT ![w] = o]
  /\ temp' = [temp EXCEPT ![w] = "none"]

Call(w, c) ==
  /\ pc' = [pc EXCEPT ![w] = c]
  /\ UNCHANGED outcome

At(w, c) ==
  /\ pc[w] = c
  /\ UNCHANGED <<job, attempts>>

--------------------------------------------------------------------------------
(* The steps of one Activate. *)

(* A webhook arrives, its tarball is requested and .extract-* is made. *)
Start(w, v, c) ==
  /\ pc[w] = "idle"
  /\ attempts < MaxAttempts
  /\ attempts' = attempts + 1
  /\ job' = [job EXCEPT ![w] = [version |-> v, content |-> c]]
  /\ temp' = [temp EXCEPT ![w] = "partial"]
  /\ pc' = [pc EXCEPT ![w] = "extract"]
  /\ outcome' = [outcome EXCEPT ![w] = "none"]
  /\ quiet' = IF Running = {} THEN {w} ELSE {}
  /\ UNCHANGED <<disk, activated>>

(* extractTarGz reads the stream to its end. *)
Extract(w) ==
  /\ At(w, "extract")
  /\ temp' = [temp EXCEPT ![w] = "full"]
  /\ Call(w, "stat")
  /\ UNCHANGED <<disk, activated, quiet>>

Stat(w) ==
  /\ At(w, "stat")
  /\ IF dirs[job[w].version] # Nothing
     THEN Return(w, "regression")
     ELSE Call(w, "rename") /\ UNCHANGED temp
  /\ UNCHANGED <<disk, activated, quiet>>

RenameReplaces(v) == TRUE

(* rename(2) refuses to replace a directory that is not empty. *)
RenameAllowed(v) == dirs[v] = Nothing

RenameVersionDir(w) ==
  LET v == job[w].version
  IN /\ At(w, "rename")
     /\ RenameAllowed(v)
     /\ dirs' = [dirs EXCEPT ![v] = [content |-> job[w].content, whole |-> temp[w] = "full"]]
     /\ temp' = [temp EXCEPT ![w] = "none"]
     /\ Call(w, "remove")
     /\ UNCHANGED <<current, currentNew, activated, quiet>>

(* Another worker made the directory after the Stat. *)
RenameRefused(w) ==
  /\ At(w, "rename")
  /\ ~RenameAllowed(job[w].version)
  /\ Return(w, "error")
  /\ UNCHANGED <<disk, activated, quiet>>

RemoveKeepsOld == currentNew
RemovedLink == NoVersion

RemoveCurrentToo(w) ==
  /\ At(w, "remove")
  /\ currentNew' = NoVersion
  /\ current' = NoVersion
  /\ Call(w, "symlink")
  /\ UNCHANGED <<dirs, temp, activated, quiet>>

(* atomicSymlink removes what an earlier attempt left at current.new. *)
RemoveCurrentNew(w) ==
  /\ At(w, "remove")
  /\ currentNew' = RemovedLink
  /\ Call(w, "symlink")
  /\ UNCHANGED <<dirs, current, temp, activated, quiet>>

Symlink(w) ==
  /\ At(w, "symlink")
  /\ IF currentNew = NoVersion
     THEN currentNew' = job[w].version /\ Call(w, "swap") /\ UNCHANGED temp
     ELSE Return(w, "error") /\ UNCHANGED currentNew
  /\ UNCHANGED <<dirs, current, activated, quiet>>

(* rename(current.new, current): whatever current.new links to by now. *)
Swap(w) ==
  /\ At(w, "swap")
  /\ IF currentNew # NoVersion
     THEN /\ current' = currentNew
          /\ currentNew' = NoVersion
          /\ activated' = activated \union {currentNew}
          /\ Return(w, "ok")
     ELSE /\ Return(w, "error")
          /\ UNCHANGED <<current, currentNew, activated>>
  /\ UNCHANGED <<dirs, quiet>>

FailureReturns(w) == Return(w, "error")
FailureContinues(w) ==
  IF pc[w] = "extract" THEN Call(w, "stat") /\ UNCHANGED temp ELSE Return(w, "error")

OnFailure(w) == FailureReturns(w)

(* A Stat that fails for another reason than a missing directory is read   *)
(* as "no such version", and a Remove that fails is ignored.               *)
IgnoredFailure(w) ==
  /\ \/ At(w, "stat") /\ Call(w, "rename")
     \/ At(w, "remove") /\ Call(w, "symlink")
  /\ quiet' = quiet \ {w}
  /\ UNCHANGED <<disk, temp, activated>>

(* Any other call fails, the download and the extraction included. *)
Fail(w) ==
  /\ \E c \in Calls \ {"stat", "remove"} : At(w, c)
  /\ OnFailure(w)
  /\ quiet' = quiet \ {w}
  /\ UNCHANGED <<disk, activated>>

(* The process dies and starts again; the temporary directories of the     *)
(* workers stay on disk and are never looked at again.                     *)
Crash ==
  /\ Running # {}
  /\ pc' = [w \in Workers |-> "idle"]
  /\ outcome' = [w \in Workers |-> "none"]
  /\ temp' = [w \in Workers |-> "none"]
  /\ quiet' = {}
  /\ UNCHANGED <<disk, job, attempts, activated>>

--------------------------------------------------------------------------------
Init ==
  /\ dirs = [v \in Versions |-> Nothing]
  /\ current = NoVersion
  /\ currentNew = NoVersion
  /\ pc = [w \in Workers |-> "idle"]
  /\ job \in {[w \in Workers |-> [version |-> 1, content |-> c]] : c \in Contents}
  /\ temp = [w \in Workers |-> "none"]
  /\ outcome = [w \in Workers |-> "none"]
  /\ attempts = 0
  /\ activated = {}
  /\ quiet = {}

Step(w) ==
  \/ \E v \in Versions, c \in Contents : Start(w, v, c)
  \/ Extract(w)
  \/ Stat(w)
  \/ RenameVersionDir(w)
  \/ RenameRefused(w)
  \/ RemoveCurrentNew(w)
  \/ Symlink(w)
  \/ Swap(w)
  \/ IgnoredFailure(w)
  \/ Fail(w)

Next == Crash \/ \E w \in Workers : Step(w)

Spec == Init /\ [][Next]_vars

--------------------------------------------------------------------------------
(* Properties. *)

(* Type invariant of one tenant's bundle directory and its workers. *)
TypeOK ==
  /\ dirs \in [Versions -> Bundle \union {Nothing}]
  /\ current \in Link /\ currentNew \in Link
  /\ pc \in [Workers -> Calls \union {"idle"}]
  /\ job \in [Workers -> Job]
  /\ temp \in [Workers -> Temps]
  /\ outcome \in [Workers -> Outcomes]
  /\ attempts \in 0..MaxAttempts
  /\ activated \subseteq Versions
  /\ quiet \subseteq Workers

(* Whatever fails, races or crashes, readers that follow current find a    *)
(* whole bundle: a half extracted one is never linked, nor is a link left  *)
(* at current.new that leads to one.                                       *)
LinksAreWhole ==
  \A v \in {current, currentNew} \ {NoVersion} : dirs[v] # Nothing /\ dirs[v].whole

(* The digest Activate returned stays that of the version directory: no    *)
(* later attempt, racing or not, replaces what a successful one stored.    *)
OkMeansStored ==
  \A w \in Workers : outcome[w] = "ok" =>
    dirs[job[w].version] = [content |-> job[w].content, whole |-> TRUE]

(* An attempt that meets neither a failure nor another attempt ends with   *)
(* its version current, or with a conflict when its version is on disk:    *)
(* no crash before it, at whatever call, can make it fail.                 *)
QuietSucceeds ==
  \A w \in quiet \ Running :
    \/ outcome[w] = "ok" /\ current = job[w].version
    \/ outcome[w] = "regression" /\ dirs[job[w].version] # Nothing

================================================================================
