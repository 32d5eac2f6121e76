--------------------------- MODULE HostContentProofs ---------------------------
(* What holds of BundleActivation, and of HostContent beside it, for every   *)
(* number of workers, versions, attempts and requests, proved.               *)
EXTENDS HostContent, TLAPS

(* The strengthening: what the call a worker makes next says of the disk.   *)

(* An extracted bundle is complete before it is renamed. *)
RenamesAreWhole == \A w \in Workers : pc[w] \in {"stat", "rename"} => temp[w] = "full"

DirsAreWhole == \A v \in Versions : dirs[v] # Nothing => dirs[v].whole

LinksAreStored == \A v \in {current, currentNew} \ {NoVersion} : dirs[v] # Nothing

JobBundle(w) == [content |-> job[w].content, whole |-> TRUE]

(* A worker that switches the links has stored its bundle. *)
SwitchingIsStored ==
  \A w \in Workers : pc[w] \in {"remove", "symlink", "swap"} => dirs[job[w].version] = JobBundle(w)

(* A quiet worker is alone and knows what the calls before it have done. *)
QuietKnows ==
  \A w \in quiet :
    /\ Running \subseteq {w}
    /\ pc[w] = "rename" => dirs[job[w].version] = Nothing
    /\ pc[w] = "symlink" => currentNew = NoVersion
    /\ pc[w] = "swap" => currentNew = job[w].version

DiskInv == RenamesAreWhole /\ DirsAreWhole /\ LinksAreStored /\ SwitchingIsStored /\ OkMeansStored

QuietInv == QuietKnows /\ QuietSucceeds

--------------------------------------------------------------------------------
(* Type correctness. *)

LEMMA TypeInit == Init => TypeOK
<1> SUFFICES ASSUME Init PROVE TypeOK
  OBVIOUS
<1>1. 1 \in Versions
  BY VersionAssumption DEF Versions
<1>2. PICK c \in Contents : job = [w \in Workers |-> [version |-> 1, content |-> c]]
  BY DEF Init
<1>3. job \in [Workers -> Job]
  BY <1>1, <1>2 DEF Job
<1>4. attempts \in 0..MaxAttempts
  BY VersionAssumption DEF Init
<1>5. /\ dirs \in [Versions -> Bundle \union {Nothing}]
      /\ current \in Link /\ currentNew \in Link
      /\ activated \subseteq Versions /\ quiet \subseteq Workers
  BY DEF Init, Link
<1>6. /\ pc \in [Workers -> Calls \union {"idle"}] /\ temp \in [Workers -> Temps]
      /\ outcome \in [Workers -> Outcomes]
  BY DEF Init, Temps, Outcomes
<1> QED
  BY <1>3, <1>4, <1>5, <1>6 DEF TypeOK

LEMMA JobVersion ==
  ASSUME TypeOK, NEW w \in Workers
  PROVE  /\ job[w].version \in Versions /\ job[w].content \in Contents
         /\ job[w].version \in Link /\ job[w].version # NoVersion
         /\ JobBundle(w) \in Bundle /\ JobBundle(w) # Nothing
<1>1. job[w].version \in Versions /\ job[w].content \in Contents
  BY DEF TypeOK, Job
<1>2. job[w].version \in Link /\ job[w].version # NoVersion
  BY <1>1, VersionAssumption DEF Link, Versions, NoVersion
<1>3. JobBundle(w) \in Bundle
  BY <1>1 DEF JobBundle, Bundle
<1>4. JobBundle(w) # Nothing
  BY <1>3, NothingAssumption
<1> QED
  BY <1>1, <1>2, <1>3, <1>4

LEMMA TypeStep ==
  ASSUME TypeOK, [Next]_vars
  PROVE  TypeOK'
<1>1. CASE UNCHANGED vars
  BY <1>1 DEF TypeOK, vars, disk
<1>2. ASSUME NEW w \in Workers, NEW v \in Versions, NEW c \in Contents, Start(w, v, c)
      PROVE  TypeOK'
  <2>1. [version |-> v, content |-> c] \in Job
    BY DEF Job
  <2>2. attempts' \in 0..MaxAttempts
    BY <1>2, VersionAssumption DEF Start, TypeOK
  <2>3. quiet' \subseteq Workers /\ dirs' = dirs /\ current' = current /\ currentNew' = currentNew
        /\ activated' = activated
    BY <1>2 DEF Start, disk
  <2> QED
    BY <1>2, <2>1, <2>2, <2>3 DEF Start, TypeOK, Calls, Temps, Outcomes
<1>3. ASSUME NEW w \in Workers, Extract(w) PROVE TypeOK'
  BY <1>3 DEF Extract, At, Call, TypeOK, Calls, Temps, disk
<1>4. ASSUME NEW w \in Workers, Stat(w) PROVE TypeOK'
  BY <1>4 DEF Stat, At, Call, Return, TypeOK, Calls, Temps, Outcomes, disk
<1>5. ASSUME NEW w \in Workers, RenameVersionDir(w) PROVE TypeOK'
  <2>1. [content |-> job[w].content, whole |-> temp[w] = "full"] \in Bundle
    BY JobVersion DEF Bundle
  <2> QED
    BY <1>5, <2>1, JobVersion DEF RenameVersionDir, At, Call, TypeOK, Calls, Temps
<1>6. ASSUME NEW w \in Workers, RenameRefused(w) PROVE TypeOK'
  BY <1>6 DEF RenameRefused, At, Return, TypeOK, Temps, Outcomes, disk
<1>7. ASSUME NEW w \in Workers, RemoveCurrentNew(w) PROVE TypeOK'
  BY <1>7 DEF RemoveCurrentNew, RemovedLink, At, Call, TypeOK, Calls, Link
<1>8. ASSUME NEW w \in Workers, Symlink(w) PROVE TypeOK'
  BY <1>8, JobVersion DEF Symlink, At, Call, Return, TypeOK, Calls, Temps, Outcomes
<1>9. ASSUME NEW w \in Workers, Swap(w) PROVE TypeOK'
  <2>1. currentNew \in Link /\ NoVersion \in Link /\ (currentNew # NoVersion => currentNew \in Versions)
    BY DEF TypeOK, Link
  <2> QED
    BY <1>9, <2>1 DEF Swap, At, Return, TypeOK, Temps, Outcomes
<1>10. ASSUME NEW w \in Workers, IgnoredFailure(w) PROVE TypeOK'
  BY <1>10 DEF IgnoredFailure, At, Call, TypeOK, Calls, disk
<1>11. ASSUME NEW w \in Workers, Fail(w) PROVE TypeOK'
  BY <1>11 DEF Fail, OnFailure, FailureReturns, At, Return, TypeOK, Temps, Outcomes, disk
<1>12. CASE Crash
  BY <1>12 DEF Crash, TypeOK, Calls, Temps, Outcomes, disk
<1> QED
  BY <1>1, <1>2, <1>3, <1>4, <1>5, <1>6, <1>7, <1>8, <1>9, <1>10, <1>11, <1>12 DEF Next, Step

(* Type correctness of a tenant's bundle directory and its workers. *)
THEOREM TypeCorrect == Spec => []TypeOK
BY TypeInit, TypeStep, PTL DEF Spec

--------------------------------------------------------------------------------
(* What is on disk.  Every step is one worker's or a crash. *)

LEMMA DiskInit == Init => DiskInv
BY DEF Init, DiskInv, RenamesAreWhole, DirsAreWhole, LinksAreStored, SwitchingIsStored,
       OkMeansStored

(* The disk and the links stay, and worker w moves to a call that promises *)
(* nothing of the disk, or returns with something else than "ok".          *)
LEMMA HarmlessStep ==
  ASSUME TypeOK, DiskInv, NEW w \in Workers, UNCHANGED <<dirs, current, currentNew>>,
         NEW c \in Calls \union {"idle"}, c \notin {"remove", "symlink", "swap"},
         NEW x \in Temps, c \in {"stat", "rename"} => x = "full",
         NEW o \in Outcomes, o # "ok",
         pc' = [pc EXCEPT ![w] = c],
         temp' = [temp EXCEPT ![w] = x],
         outcome' \in {outcome, [outcome EXCEPT ![w] = o]},
         outcome' = outcome => outcome[w] # "ok" \/ job' = job,
         \A u \in Workers \ {w} : job'[u] = job[u]
  PROVE  DiskInv'
<1>1. RenamesAreWhole'
  BY DEF DiskInv, RenamesAreWhole, TypeOK
<1>2. DirsAreWhole' /\ LinksAreStored'
  BY DEF DiskInv, DirsAreWhole, LinksAreStored
<1>3. SwitchingIsStored'
  BY DEF DiskInv, SwitchingIsStored, JobBundle, TypeOK
<1>4. OkMeansStored'
  BY DEF DiskInv, OkMeansStored, TypeOK
<1> QED
  BY <1>1, <1>2, <1>3, <1>4 DEF DiskInv

LEMMA StartDisk ==
  ASSUME TypeOK, DiskInv, NEW w \in Workers, NEW v \in Versions, NEW c \in Contents, Start(w, v, c)
  PROVE  DiskInv'
<1>1. /\ UNCHANGED <<dirs, current, currentNew>>
      /\ pc' = [pc EXCEPT ![w] = "extract"] /\ temp' = [temp EXCEPT ![w] = "partial"]
      /\ outcome' = [outcome EXCEPT ![w] = "none"]
      /\ \A u \in Workers \ {w} : job'[u] = job[u]
  BY DEF Start, disk, TypeOK
<1>2. outcome' = outcome => outcome[w] # "ok"
  BY <1>1 DEF TypeOK
<1> QED
  BY <1>1, <1>2, HarmlessStep DEF Calls, Temps, Outcomes

LEMMA ExtractDisk ==
  ASSUME TypeOK, DiskInv, NEW w \in Workers, Extract(w)
  PROVE  DiskInv'
<1>1. /\ UNCHANGED <<dirs, current, currentNew, job, outcome>>
      /\ pc' = [pc EXCEPT ![w] = "stat"] /\ temp' = [temp EXCEPT ![w] = "full"]
  BY DEF Extract, At, Call, disk
<1> QED
  BY <1>1, HarmlessStep DEF Calls, Temps, Outcomes

(* Return with an outcome that promises nothing. *)
LEMMA ReturnDisk ==
  ASSUME TypeOK, DiskInv, NEW w \in Workers, NEW o \in {"regression", "error"}, Return(w, o),
         UNCHANGED <<dirs, current, currentNew, job>>
  PROVE  DiskInv'
<1>1. /\ pc' = [pc EXCEPT ![w] = "idle"] /\ temp' = [temp EXCEPT ![w] = "none"]
      /\ outcome' = [outcome EXCEPT ![w] = o]
  BY DEF Return
<1> QED
  BY <1>1, HarmlessStep DEF Calls, Temps, Outcomes

LEMMA StatDisk ==
  ASSUME TypeOK, DiskInv, NEW w \in Workers, Stat(w)
  PROVE  DiskInv'
<1>1. UNCHANGED <<dirs, current, currentNew, job>> /\ pc[w] = "stat"
  BY DEF Stat, At, disk
<1>2. CASE dirs[job[w].version] # Nothing
  BY <1>1, <1>2, ReturnDisk DEF Stat
<1>3. CASE dirs[job[w].version] = Nothing
  <2>1. pc' = [pc EXCEPT ![w] = "rename"] /\ UNCHANGED <<outcome, temp>>
    BY <1>3 DEF Stat, Call
  <2>2. temp[w] = "full" /\ temp' = [temp EXCEPT ![w] = "full"]
    BY <1>1, <2>1 DEF DiskInv, RenamesAreWhole, TypeOK
  <2> QED
    BY <1>1, <2>1, <2>2, HarmlessStep DEF Calls, Temps, Outcomes
<1> QED
  BY <1>2, <1>3

LEMMA RenameDisk ==
  ASSUME TypeOK, DiskInv, NEW w \in Workers, RenameVersionDir(w)
  PROVE  DiskInv'
<1> DEFINE v == job[w].version
<1>1. /\ pc[w] = "rename" /\ dirs[v] = Nothing
      /\ UNCHANGED <<current, currentNew, job, outcome>>
      /\ pc' = [pc EXCEPT ![w] = "remove"] /\ temp' = [temp EXCEPT ![w] = "none"]
  BY DEF RenameVersionDir, RenameAllowed, At, Call
<1>2. temp[w] = "full"
  BY <1>1 DEF DiskInv, RenamesAreWhole
<1>3. dirs' = [dirs EXCEPT ![v] = JobBundle(w)] /\ v \in Versions /\ JobBundle(w) # Nothing
  BY <1>2, JobVersion DEF RenameVersionDir, JobBundle
<1>4. dirs'[v] = JobBundle(w) /\ \A x \in Versions : dirs[x] # Nothing => dirs'[x] = dirs[x]
  BY <1>1, <1>3 DEF TypeOK
<1>5. RenamesAreWhole'
  BY <1>1 DEF DiskInv, RenamesAreWhole, TypeOK
<1>6. DirsAreWhole'
  BY <1>3 DEF DiskInv, DirsAreWhole, JobBundle, TypeOK
<1>7. LinksAreStored'
  BY <1>1, <1>4 DEF DiskInv, LinksAreStored, TypeOK, Link
<1>8. SwitchingIsStored'
  <2>1. ASSUME NEW u \in Workers, u # w, pc'[u] \in {"remove", "symlink", "swap"}
        PROVE  dirs'[job[u].version] = JobBundle(u)
    BY <1>1, <1>4, <2>1, JobVersion DEF DiskInv, SwitchingIsStored, TypeOK
  <2> QED
    BY <2>1, <1>1, <1>4 DEF SwitchingIsStored, JobBundle
<1>9. OkMeansStored'
  <2>1. ASSUME NEW u \in Workers, outcome[u] = "ok"
        PROVE  dirs'[job[u].version] = [content |-> job[u].content, whole |-> TRUE]
    BY <1>4, <2>1, JobVersion DEF DiskInv, OkMeansStored, JobBundle
  <2> QED
    BY <2>1, <1>1 DEF OkMeansStored
<1> QED
  BY <1>5, <1>6, <1>7, <1>8, <1>9 DEF DiskInv

LEMMA RemoveDisk ==
  ASSUME TypeOK, DiskInv, NEW w \in Workers, RemoveCurrentNew(w)
  PROVE  DiskInv'
<1>1. /\ UNCHANGED <<dirs, current, temp, job, outcome>> /\ pc[w] = "remove"
      /\ pc' = [pc EXCEPT ![w] = "symlink"] /\ currentNew' = NoVersion
  BY DEF RemoveCurrentNew, RemovedLink, At, Call
<1>2. RenamesAreWhole'
  BY <1>1 DEF DiskInv, RenamesAreWhole, TypeOK
<1>3. DirsAreWhole' /\ LinksAreStored' /\ OkMeansStored'
  BY <1>1 DEF DiskInv, DirsAreWhole, LinksAreStored, OkMeansStored
<1>4. SwitchingIsStored'
  BY <1>1 DEF DiskInv, SwitchingIsStored, JobBundle, TypeOK
<1> QED
  BY <1>2, <1>3, <1>4 DEF DiskInv

LEMMA SymlinkDisk ==
  ASSUME TypeOK, DiskInv, NEW w \in Workers, Symlink(w)
  PROVE  DiskInv'
<1>1. UNCHANGED <<dirs, current, job>> /\ pc[w] = "symlink"
  BY DEF Symlink, At
<1>2. CASE currentNew = NoVersion
  <2>1. currentNew' = job[w].version /\ pc' = [pc EXCEPT ![w] = "swap"] /\ UNCHANGED <<outcome, temp>>
    BY <1>2 DEF Symlink, Call
  <2>2. dirs[job[w].version] # Nothing
    BY <1>1, JobVersion DEF DiskInv, SwitchingIsStored
  <2>3. RenamesAreWhole'
    BY <2>1 DEF DiskInv, RenamesAreWhole, TypeOK
  <2>4. DirsAreWhole' /\ LinksAreStored' /\ OkMeansStored'
    BY <1>1, <2>1, <2>2 DEF DiskInv, DirsAreWhole, LinksAreStored, OkMeansStored
  <2>5. SwitchingIsStored'
    BY <1>1, <2>1 DEF DiskInv, SwitchingIsStored, JobBundle, TypeOK
  <2> QED
    BY <2>3, <2>4, <2>5 DEF DiskInv
<1>3. CASE currentNew # NoVersion
  BY <1>1, <1>3, ReturnDisk DEF Symlink
<1> QED
  BY <1>2, <1>3

LEMMA SwapDisk ==
  ASSUME TypeOK, DiskInv, NEW w \in Workers, Swap(w)
  PROVE  DiskInv'
<1>1. UNCHANGED <<dirs, job>> /\ pc[w] = "swap"
  BY DEF Swap, At
<1>2. CASE currentNew # NoVersion
  <2>1. /\ current' = currentNew /\ currentNew' = NoVersion
        /\ pc' = [pc EXCEPT ![w] = "idle"] /\ temp' = [temp EXCEPT ![w] = "none"]
        /\ outcome' = [outcome EXCEPT ![w] = "ok"]
    BY <1>2 DEF Swap, Return
  <2>2. dirs[job[w].version] = JobBundle(w)
    BY <1>1 DEF DiskInv, SwitchingIsStored
  <2>3. RenamesAreWhole'
    BY <2>1 DEF DiskInv, RenamesAreWhole, TypeOK
  <2>4. DirsAreWhole' /\ LinksAreStored'
    BY <1>1, <1>2, <2>1 DEF DiskInv, DirsAreWhole, LinksAreStored
  <2>5. SwitchingIsStored'
    BY <1>1, <2>1 DEF DiskInv, SwitchingIsStored, JobBundle, TypeOK
  <2>6. OkMeansStored'
    BY <1>1, <2>1, <2>2 DEF DiskInv, OkMeansStored, JobBundle, TypeOK
  <2> QED
    BY <2>3, <2>4, <2>5, <2>6 DEF DiskInv
<1>3. CASE currentNew = NoVersion
  BY <1>1, <1>3, ReturnDisk DEF Swap
<1> QED
  BY <1>2, <1>3

LEMMA IgnoredFailureDisk ==
  ASSUME TypeOK, DiskInv, NEW w \in Workers, IgnoredFailure(w)
  PROVE  DiskInv'
<1>1. UNCHANGED <<dirs, current, currentNew, job, outcome, temp>>
  BY DEF IgnoredFailure, At, Call, disk
<1>2. \/ pc[w] = "stat" /\ pc' = [pc EXCEPT ![w] = "rename"]
      \/ pc[w] = "remove" /\ pc' = [pc EXCEPT ![w] = "symlink"]
  BY DEF IgnoredFailure, At, Call
<1>3. RenamesAreWhole'
  BY <1>1, <1>2 DEF DiskInv, RenamesAreWhole, TypeOK
<1>4. DirsAreWhole' /\ LinksAreStored' /\ OkMeansStored'
  BY <1>1 DEF DiskInv, DirsAreWhole, LinksAreStored, OkMeansStored
<1>5. SwitchingIsStored'
  BY <1>1, <1>2 DEF DiskInv, SwitchingIsStored, JobBundle, TypeOK
<1> QED
  BY <1>3, <1>4, <1>5 DEF DiskInv

LEMMA CrashDisk ==
  ASSUME TypeOK, DiskInv, Crash
  PROVE  DiskInv'
<1>1. UNCHANGED <<dirs, current, currentNew>> /\ \A w \in Workers : pc'[w] = "idle" /\ outcome'[w] = "none"
  BY DEF Crash, disk
<1> QED
  BY <1>1 DEF DiskInv, RenamesAreWhole, DirsAreWhole, LinksAreStored, SwitchingIsStored, OkMeansStored

LEMMA DiskStep ==
  ASSUME TypeOK, DiskInv, [Next]_vars
  PROVE  DiskInv'
<1>1. CASE UNCHANGED vars
  BY <1>1 DEF vars, disk, DiskInv, RenamesAreWhole, DirsAreWhole, LinksAreStored,
              SwitchingIsStored, JobBundle, OkMeansStored
<1>2. ASSUME NEW w \in Workers, RenameRefused(w) PROVE DiskInv'
  BY <1>2, ReturnDisk DEF RenameRefused, At, disk
<1>3. ASSUME NEW w \in Workers, Fail(w) PROVE DiskInv'
  BY <1>3, ReturnDisk DEF Fail, OnFailure, FailureReturns, At, disk
<1> QED
  BY <1>1, <1>2, <1>3, StartDisk, ExtractDisk, StatDisk, RenameDisk, RemoveDisk, SymlinkDisk,
     SwapDisk, IgnoredFailureDisk, CrashDisk DEF Next, Step

(* Whatever fails, races or crashes, readers that follow current find a    *)
(* whole bundle, and no later attempt replaces what a successful one       *)
(* stored (Fetcher.Activate, bundle/fetcher.go:55-138).                    *)
THEOREM ActivationIsSafe == Spec => [](LinksAreWhole /\ OkMeansStored)
<1>1. TypeOK /\ DiskInv => LinksAreWhole /\ OkMeansStored
  BY DEF TypeOK, Link, DiskInv, LinksAreStored, DirsAreWhole, LinksAreWhole
<1>2. TypeOK /\ DiskInv /\ [Next]_vars => DiskInv'
  BY DiskStep
<1>3. Init => DiskInv
  BY DiskInit
<1> QED
  BY <1>1, <1>2, <1>3, TypeCorrect, PTL DEF Spec

(* What a successful attempt stored is never replaced by a later one. *)
THEOREM SuccessesAreStored == Spec => []OkMeansStored
BY ActivationIsSafe, PTL

--------------------------------------------------------------------------------
(* A quiet attempt succeeds. *)

(* No worker is quiet after the step. *)
LEMMA NoneQuiet == ASSUME quiet' = {} PROVE QuietInv'
BY DEF QuietInv, QuietKnows, QuietSucceeds

(* A step of w keeps only w quiet. *)
LEMMA OnlyQuiet ==
  ASSUME QuietInv, NEW w \in Workers, pc[w] # "idle", NEW u \in quiet
  PROVE  u = w
BY DEF QuietInv, QuietKnows, Running

(* A call of a quiet worker that leaves it running or returns. *)
LEMMA QuietCall ==
  ASSUME TypeOK, QuietInv, NEW w \in Workers, pc[w] # "idle", quiet' = quiet,
         NEW c \in Calls \union {"idle"}, pc' = [pc EXCEPT ![w] = c],
         w \in quiet =>
           /\ c = "rename" => dirs'[job'[w].version] = Nothing
           /\ c = "symlink" => currentNew' = NoVersion
           /\ c = "swap" => currentNew' = job'[w].version
           /\ c = "idle" => \/ outcome'[w] = "ok" /\ current' = job'[w].version
                            \/ outcome'[w] = "regression" /\ dirs'[job'[w].version] # Nothing
  PROVE  QuietInv'
<1>1. \A u \in quiet : u = w
  BY OnlyQuiet
<1>2. pc'[w] = c /\ \A u \in Workers \ {w} : pc'[u] = pc[u]
  BY DEF TypeOK
<1>3. \A u \in quiet : Running' \subseteq {u}
  <2>1. SUFFICES ASSUME w \in quiet PROVE Running' \subseteq {w}
    BY <1>1
  <2>2. Running \subseteq {w}
    BY <2>1 DEF QuietInv, QuietKnows
  <2> QED
    BY <1>2, <2>2 DEF Running
<1>4. QuietKnows'
  BY <1>1, <1>2, <1>3 DEF QuietKnows
<1>5. QuietSucceeds'
  BY <1>1, <1>2, <1>3 DEF QuietSucceeds, Running
<1> QED
  BY <1>4, <1>5 DEF QuietInv

LEMMA StartQuiet ==
  ASSUME TypeOK, QuietInv, NEW w \in Workers, NEW v \in Versions, NEW c \in Contents, Start(w, v, c)
  PROVE  QuietInv'
<1>1. pc' = [pc EXCEPT ![w] = "extract"] /\ quiet' = (IF Running = {} THEN {w} ELSE {})
  BY DEF Start
<1>2. CASE Running = {}
  <2>1. pc'[w] = "extract" /\ Running' = {w} /\ quiet' = {w}
    BY <1>1, <1>2 DEF Running, TypeOK
  <2> QED
    BY <2>1 DEF QuietInv, QuietKnows, QuietSucceeds
<1>3. CASE Running # {}
  BY <1>1, <1>3, NoneQuiet
<1> QED
  BY <1>2, <1>3

LEMMA FailureQuiet ==
  ASSUME QuietInv, NEW w \in Workers, pc[w] # "idle", quiet' = quiet \ {w}
  PROVE  QuietInv'
BY OnlyQuiet, NoneQuiet

LEMMA ReturnQuiet ==
  ASSUME TypeOK, QuietInv, NEW w \in Workers, pc[w] # "idle", quiet' = quiet, job' = job,
         NEW o, Return(w, o),
         w \in quiet => \/ o = "ok" /\ current' = job[w].version
                        \/ o = "regression" /\ dirs'[job[w].version] # Nothing
  PROVE  QuietInv'
<1>1. pc' = [pc EXCEPT ![w] = "idle"] /\ outcome'[w] = o
  BY DEF Return, TypeOK
<1> QED
  BY <1>1, QuietCall

LEMMA QuietStep ==
  ASSUME TypeOK, QuietInv, [Next]_vars
  PROVE  QuietInv'
<1>1. CASE UNCHANGED vars
  BY <1>1 DEF vars, disk, QuietInv, QuietKnows, QuietSucceeds, Running
<1>2. ASSUME NEW w \in Workers, Extract(w) PROVE QuietInv'
  BY <1>2, QuietCall DEF Extract, At, Call, Calls
<1>3. ASSUME NEW w \in Workers, Stat(w) PROVE QuietInv'
  <2>1. pc[w] # "idle" /\ quiet' = quiet /\ job' = job /\ dirs' = dirs
    BY <1>3 DEF Stat, At, disk
  <2>2. CASE dirs[job[w].version] # Nothing
    BY <1>3, <2>1, <2>2, ReturnQuiet DEF Stat
  <2>3. CASE dirs[job[w].version] = Nothing
    BY <1>3, <2>1, <2>3, QuietCall DEF Stat, Call, Calls
  <2> QED
    BY <2>2, <2>3
<1>4. ASSUME NEW w \in Workers, RenameVersionDir(w) PROVE QuietInv'
  BY <1>4, QuietCall DEF RenameVersionDir, At, Call, Calls
<1>5. ASSUME NEW w \in Workers, RenameRefused(w) PROVE QuietInv'
  <2>1. pc[w] = "rename" /\ dirs[job[w].version] # Nothing
    BY <1>5 DEF RenameRefused, RenameAllowed, At
  <2>2. w \notin quiet
    BY <2>1 DEF QuietInv, QuietKnows
  <2> QED
    BY <1>5, <2>1, <2>2, ReturnQuiet DEF RenameRefused, At
<1>6. ASSUME NEW w \in Workers, RemoveCurrentNew(w) PROVE QuietInv'
  BY <1>6, QuietCall DEF RemoveCurrentNew, RemovedLink, At, Call, Calls
<1>7. ASSUME NEW w \in Workers, Symlink(w) PROVE QuietInv'
  <2>1. pc[w] = "symlink" /\ quiet' = quiet /\ job' = job
    BY <1>7 DEF Symlink, At
  <2>2. CASE currentNew = NoVersion
    BY <1>7, <2>1, <2>2, QuietCall DEF Symlink, Call, Calls
  <2>3. CASE currentNew # NoVersion
    <3>1. w \notin quiet
      BY <2>1, <2>3 DEF QuietInv, QuietKnows
    <3> QED
      BY <1>7, <2>1, <2>3, <3>1, ReturnQuiet DEF Symlink
  <2> QED
    BY <2>2, <2>3
<1>8. ASSUME NEW w \in Workers, Swap(w) PROVE QuietInv'
  <2>1. pc[w] = "swap" /\ quiet' = quiet /\ job' = job
    BY <1>8 DEF Swap, At
  <2>2. w \in quiet => currentNew = job[w].version /\ currentNew # NoVersion
    BY <2>1, JobVersion DEF QuietInv, QuietKnows
  <2>3. CASE currentNew # NoVersion
    <3>1. Return(w, "ok") /\ current' = currentNew
      BY <1>8, <2>3 DEF Swap
    <3>2. w \in quiet => current' = job[w].version
      BY <2>2, <3>1
    <3> QED
      BY <2>1, <3>1, <3>2, ReturnQuiet
  <2>4. CASE currentNew = NoVersion
    <3>1. Return(w, "error") /\ w \notin quiet
      BY <1>8, <2>2, <2>4 DEF Swap
    <3> QED
      BY <2>1, <3>1, ReturnQuiet
  <2> QED
    BY <2>3, <2>4
<1>9. ASSUME NEW w \in Workers, IgnoredFailure(w) PROVE QuietInv'
  BY <1>9, FailureQuiet DEF IgnoredFailure, At
<1>10. ASSUME NEW w \in Workers, Fail(w) PROVE QuietInv'
  BY <1>10, FailureQuiet DEF Fail, At, Calls
<1>11. CASE Crash
  BY <1>11, NoneQuiet DEF Crash
<1> QED
  BY <1>1, <1>2, <1>3, <1>4, <1>5, <1>6, <1>7, <1>8, <1>9, <1>10, <1>11, StartQuiet DEF Next, Step

LEMMA QuietInit == Init => QuietInv
BY DEF Init, QuietInv, QuietKnows, QuietSucceeds

(* An attempt that meets neither a failure nor another attempt succeeds or *)
(* conflicts with a stored version: no crash before it makes it fail.      *)
THEOREM QuietAttemptsSucceed == Spec => []QuietSucceeds
<1>1. QuietInv => QuietSucceeds
  BY DEF QuietInv
<1> QED
  BY <1>1, QuietInit, QuietStep, TypeCorrect, PTL DEF Spec

--------------------------------------------------------------------------------
(* A version is linked once. *)

Linking == {w \in Workers : pc[w] \in {"remove", "symlink"}}

(* What is linked, or was, is stored; a worker about to link has a version *)
(* of its own that nobody linked before.                                   *)
LinkedOnce ==
  /\ currentNew \notin activated
  /\ \A v \in activated : dirs[v] # Nothing
  /\ \A w \in Linking :
       /\ job[w].version \notin activated
       /\ job[w].version # currentNew
       /\ \A u \in Linking : job[u].version = job[w].version => u = w

LEMMA LinkedInit == Init => LinkedOnce
BY DEF Init, LinkedOnce, Linking

(* Links stay, no directory goes, and nobody new is about to link. *)
LEMMA LinksStay ==
  ASSUME LinkedOnce, UNCHANGED <<currentNew, activated>>,
         \A v \in activated : dirs[v] # Nothing => dirs'[v] # Nothing,
         Linking' \subseteq Linking, \A w \in Linking' : job'[w] = job[w]
  PROVE  LinkedOnce'
BY DEF LinkedOnce

LEMMA RenameLinked ==
  ASSUME TypeOK, DiskInv, LinkedOnce, NEW w \in Workers, RenameVersionDir(w)
  PROVE  LinkedOnce'
<1> DEFINE v == job[w].version
<1>1. /\ dirs[v] = Nothing /\ UNCHANGED <<currentNew, activated, job>>
      /\ v \in Versions /\ v # NoVersion
  BY JobVersion DEF RenameVersionDir, RenameAllowed, At
<1>2. \A x \in Versions : dirs[x] # Nothing => dirs'[x] # Nothing
  BY <1>1 DEF RenameVersionDir, TypeOK
<1>3. Linking' = Linking \union {w}
  BY DEF RenameVersionDir, Call, Linking, TypeOK
<1>4. v # currentNew /\ v \notin activated
  BY <1>1 DEF DiskInv, LinksAreStored, LinkedOnce
<1>5. \A u \in Linking : job[u].version # v
  BY <1>1, JobVersion DEF DiskInv, SwitchingIsStored, Linking
<1>6. activated \subseteq Versions
  BY DEF TypeOK
<1> QED
  BY <1>1, <1>2, <1>3, <1>4, <1>5, <1>6 DEF LinkedOnce

LEMMA SymlinkLinked ==
  ASSUME TypeOK, DiskInv, LinkedOnce, NEW w \in Workers, Symlink(w)
  PROVE  LinkedOnce'
<1>1. UNCHANGED <<dirs, activated, job>> /\ w \in Linking
  BY DEF Symlink, At, Linking
<1>2. CASE currentNew = NoVersion
  <2>1. currentNew' = job[w].version /\ Linking' = Linking \ {w}
    BY <1>2 DEF Symlink, Call, Linking, TypeOK
  <2> QED
    BY <1>1, <2>1 DEF LinkedOnce
<1>3. CASE currentNew # NoVersion
  <2>1. UNCHANGED currentNew /\ Linking' \subseteq Linking
    BY <1>3 DEF Symlink, Return, Linking, TypeOK
  <2> QED
    BY <1>1, <2>1, LinksStay
<1> QED
  BY <1>2, <1>3

LEMMA SwapLinked ==
  ASSUME TypeOK, DiskInv, LinkedOnce, NEW w \in Workers, Swap(w)
  PROVE  LinkedOnce'
<1>1. UNCHANGED <<dirs, job>> /\ Linking' \subseteq Linking
  BY DEF Swap, At, Return, Linking, TypeOK
<1>2. CASE currentNew # NoVersion
  <2>1. currentNew' = NoVersion /\ activated' = activated \union {currentNew}
    BY <1>2 DEF Swap
  <2>2. NoVersion \notin activated' /\ dirs[currentNew] # Nothing
    BY <1>2, <2>1 DEF NoVersion, TypeOK, Versions, DiskInv, LinksAreStored
  <2>3. \A u \in Linking' : u \in Workers /\ job[u].version # NoVersion
    BY <1>1, JobVersion DEF Linking
  <2> QED
    BY <1>1, <2>1, <2>2, <2>3 DEF LinkedOnce
<1>3. CASE currentNew = NoVersion
  BY <1>1, <1>3, LinksStay DEF Swap
<1> QED
  BY <1>2, <1>3

LEMMA LinkedStep ==
  ASSUME TypeOK, DiskInv, LinkedOnce, [Next]_vars
  PROVE  LinkedOnce'
<1>1. CASE UNCHANGED vars
  BY <1>1 DEF vars, disk, LinkedOnce, Linking
<1>2. ASSUME NEW w \in Workers, NEW v \in Versions, NEW c \in Contents, Start(w, v, c)
      PROVE  LinkedOnce'
  <2>1. /\ UNCHANGED <<dirs, currentNew, activated>> /\ Linking' = Linking /\ w \notin Linking
        /\ \A u \in Workers \ {w} : job'[u] = job[u]
    BY <1>2 DEF Start, disk, Linking, TypeOK
  <2> QED
    BY <2>1, LinksStay DEF Linking
<1>3. ASSUME NEW w \in Workers, Extract(w) \/ Stat(w) \/ RenameRefused(w) \/ Fail(w)
      PROVE  LinkedOnce'
  <2>1. UNCHANGED <<dirs, currentNew, activated, job>>
    BY <1>3 DEF Extract, Stat, RenameRefused, Fail, At, disk
  <2>2. \E c \in {"stat", "rename", "idle"} : pc' = [pc EXCEPT ![w] = c]
    BY <1>3 DEF Extract, Stat, RenameRefused, Fail, OnFailure, FailureReturns, Call, Return
  <2>3. Linking' \subseteq Linking
    BY <2>2 DEF Linking, TypeOK
  <2> QED
    BY <2>1, <2>3, LinksStay
<1>4. ASSUME NEW w \in Workers, RemoveCurrentNew(w) PROVE LinkedOnce'
  <2>1. UNCHANGED <<dirs, activated, job>> /\ currentNew' = NoVersion /\ Linking' = Linking
    BY <1>4 DEF RemoveCurrentNew, RemovedLink, At, Call, Linking, TypeOK
  <2>2. NoVersion \notin activated
    BY DEF TypeOK, NoVersion, Versions
  <2>3. \A u \in Linking : job[u].version # NoVersion
    BY JobVersion DEF Linking
  <2> QED
    BY <2>1, <2>2, <2>3 DEF LinkedOnce
<1>5. ASSUME NEW w \in Workers, IgnoredFailure(w) PROVE LinkedOnce'
  <2>1. UNCHANGED <<dirs, currentNew, activated, job>>
    BY <1>5 DEF IgnoredFailure, At, disk
  <2>2. Linking' = Linking
    BY <1>5 DEF IgnoredFailure, At, Call, Linking, TypeOK
  <2> QED
    BY <2>1, <2>2, LinksStay
<1>6. CASE Crash
  <2>1. UNCHANGED <<dirs, currentNew, activated, job>> /\ Linking' = {}
    BY <1>6 DEF Crash, disk, Linking
  <2> QED
    BY <2>1, LinksStay
<1> QED
  BY <1>1, <1>2, <1>3, <1>4, <1>5, <1>6, RenameLinked, SymlinkLinked, SwapLinked DEF Next, Step

(* Only Swap moves current, to a version that was not current before. *)
LEMMA CurrentMovesOn ==
  ASSUME LinkedOnce, [Next]_vars
  PROVE  current' # current => current' \notin activated
BY DEF Next, Step, Start, Extract, Stat, RenameVersionDir, RenameRefused, RemoveCurrentNew,
       Symlink, Swap, IgnoredFailure, Fail, Crash, LinkedOnce, vars, disk

--------------------------------------------------------------------------------
(* Requests only read: what holds of activation alone holds beside them. *)

LEMMA HostStepIsStep == ASSUME [HostNext]_hostVars PROVE [Next]_vars
BY DEF HostNext, hostVars, vars

(* Every behaviour of the host and its workers is one of the workers. *)
THEOREM HostImplementsActivation == HostSpec => Spec
BY HostStepIsStep, PTL DEF HostSpec, HostInit, Spec

(* Links lead to whole bundles, what a successful attempt stored stays, and *)
(* a quiet attempt succeeds, whatever requests read meanwhile.              *)
THEOREM HostKeepsLinksWhole == HostSpec => [](LinksAreWhole /\ OkMeansStored /\ QuietSucceeds)
BY HostImplementsActivation, ActivationIsSafe, QuietAttemptsSucceed, PTL

Activity == TypeOK /\ DiskInv /\ LinkedOnce

LEMMA ActivityInit == ASSUME HostInit PROVE Activity
BY TypeInit, DiskInit, LinkedInit DEF HostInit, Activity

LEMMA ActivityStep == ASSUME Activity, [HostNext]_hostVars PROVE Activity'
BY HostStepIsStep, TypeStep, DiskStep, LinkedStep DEF Activity

(* No version is made current a second time (V9, bundle/ingest.go:7): the  *)
(* rename of the version directory lets one attempt for each version pass. *)
THEOREM ReplaysNeverActivate == HostSpec => ReplayNeverActivates
<1>1. Activity /\ [HostNext]_hostVars
        => Activity' /\ [current' # current => current' \notin activated]_hostVars
  BY ActivityStep, HostStepIsStep, CurrentMovesOn DEF Activity
<1>2. HostInit => Activity
  BY ActivityInit
<1> QED
  BY <1>1, <1>2, PTL DEF HostSpec, ReplayNeverActivates

--------------------------------------------------------------------------------
(* Type correctness of the requests. *)

Answers == [kind : Kinds, version : Link, names : SUBSET Templates]
Query ==
  [stage : Stages, page : Pages, extension : BOOLEAN, at : Link, resolved : BOOLEAN,
   todo : SUBSET Templates, answer : Answers]

LEMMA NoVersionIsLink == NoVersion \in Link
BY DEF Link

LEMMA AnswerType ==
  ASSUME NEW kind \in Kinds, NEW v \in Link, NEW names \in SUBSET Templates
  PROVE  Answer(kind, v, names) \in Answers
BY DEF Answer, Answers

LEMMA WaitingType == Waiting \in Answers
BY AnswerType, NoVersionIsLink DEF Waiting, Kinds

(* The records a step of request r can make of its query q. *)
Gone(q, stage) == [q EXCEPT !.stage = stage, !.at = NoVersion, !.resolved = FALSE]
Finished(q, a) == [q EXCEPT !.stage = "done", !.answer = a, !.at = NoVersion, !.resolved = FALSE,
                            !.todo = {}]

LEMMA GoneType ==
  ASSUME NEW q \in Query, NEW stage \in Stages
  PROVE  /\ Gone(q, stage) \in Query /\ Gone(q, stage).stage = stage
         /\ Gone(q, stage).resolved = FALSE
         /\ Gone(q, stage).page = q.page /\ Gone(q, stage).extension = q.extension
         /\ Gone(q, stage).answer = q.answer /\ Gone(q, stage).todo = q.todo
BY NoVersionIsLink DEF Query, Gone

LEMMA FinishedType ==
  ASSUME NEW q \in Query, NEW a \in Answers
  PROVE  /\ Finished(q, a) \in Query /\ Finished(q, a).stage = "done" /\ Finished(q, a).answer = a
         /\ Finished(q, a).resolved = FALSE
         /\ Finished(q, a).page = q.page /\ Finished(q, a).extension = q.extension
BY NoVersionIsLink DEF Query, Finished, Stages

ReaderTypeOK == reader \in [Readers -> Query] /\ seen \in [Readers -> SUBSET Link]

LEMMA HostTypeIsReaderType == HostTypeOK <=> ReaderTypeOK
BY DEF HostTypeOK, ReaderTypeOK, Query, Answers

LEMMA GoIsGone ==
  ASSUME ReaderTypeOK, NEW r \in Readers, NEW stage \in Stages, Go(r, stage)
  PROVE  reader' = [reader EXCEPT ![r] = Gone(reader[r], stage)]
BY DEF ReaderTypeOK, Go, Gone, Query

LEMMA FinishIsFinished ==
  ASSUME ReaderTypeOK, NEW r \in Readers, NEW a \in Answers, Finish(r, a)
  PROVE  reader' = [reader EXCEPT ![r] = Finished(reader[r], a)]
BY DEF ReaderTypeOK, Finish, Finished, Query

LEMMA InVersionType ==
  ASSUME TypeOK, NEW v \in Link
  PROVE  InVersion(v) \subseteq {Exact, Shell} \union Templates
<1>1. CASE v = NoVersion \/ dirs[v] = Nothing
  BY <1>1 DEF InVersion
<1>2. CASE v # NoVersion /\ dirs[v] # Nothing
  <2>1. v \in Versions
    BY <1>2 DEF Link
  <2>2. dirs[v].content \in Contents
    BY <1>2, <2>1 DEF TypeOK, Bundle
  <2> QED
    BY <1>2, <2>2, HostAssumption DEF InVersion
<1> QED
  BY <1>1, <1>2

--------------------------------------------------------------------------------
(* What a request has met: the versions it could find, and in each of them *)
(* the files and good templates it found or missed.                        *)

Missing(s, x) == \E v \in s : x \notin InVersion(v)
Held(s, x) == \E v \in s : x \in TemplatesIn(v)
Lacking(s, x) == \E v \in s : x \notin TemplatesIn(v)
Refused(s, x) == \E v \in s : x \notin Offered(v)

(* names has no template that was good in no version, and nothing that is  *)
(* missing in found was good in all versions.                              *)
ListOK(found, names, s) ==
  /\ \A name \in names : name \in Configured \/ Held(s, name)
  /\ \A name \in Templates : name \in found \/ Lacking(s, name)

RunningOK(q, s) ==
  /\ q.resolved => q.at \in s
  /\ q.stage # "done" => current \in s
  /\ q.stage \in {"page", "template", "shell"} => Missing(s, Exact)
  /\ q.stage = "template" => q.page \in Templates
  /\ q.stage = "shell" => q.page = "no page"
  /\ q.stage \notin {"done", "each"} => q.answer = Waiting
  /\ q.stage = "each" => ListOK(q.todo \union q.answer.names, q.answer.names, s)

(* What an answer says of the versions the request could find. *)
FileOK(a, s) == \E v \in s : a = Answer("file", v, {}) /\ Exact \in InVersion(v)

TemplateOK(q, a, s) ==
  \/ q.page \in Configured /\ Missing(s, q.page) /\ a = Answer("page", NoVersion, {})
  \/ q.page \in Templates /\ Refused(s, q.page) /\ a = Answer("unavailable", NoVersion, {})
  \/ q.page \in Templates /\ \E v \in s : q.page \in TemplatesIn(v) /\ a = Answer("page", v, {})

ShellOK(q, a, s) ==
  \/ ~q.extension /\ \E v \in s : Shell \in InVersion(v) /\ a = Answer("application", v, {})
  \/ (q.extension \/ Missing(s, Shell)) /\ a = Answer("missing", NoVersion, {})

ListedOK(a, s) ==
  \E names \in SUBSET Templates : a = Answer("listed", NoVersion, names) /\ ListOK(names, names, s)

AnswerOK(q, s) ==
  \/ FileOK(q.answer, s)
  \/ Missing(s, Exact) /\ q.page = NoTemplate /\ q.answer = Answer("page", NoVersion, {})
  \/ Missing(s, Exact) /\ TemplateOK(q, q.answer, s)
  \/ Missing(s, Exact) /\ q.page = "no page" /\ ShellOK(q, q.answer, s)
  \/ Missing(s, Exact) /\ q.answer = Answer("passed on", NoVersion, {})
  \/ ListedOK(q.answer, s)

DoneOK(q, s) == q.stage = "done" /\ q.answer # Waiting => AnswerOK(q, s)

SeenStored(s) == \A v \in s \ {NoVersion} : dirs[v] # Nothing

ReadersInv ==
  /\ ReaderTypeOK
  /\ \A r \in Readers :
       RunningOK(reader[r], seen[r]) /\ DoneOK(reader[r], seen[r]) /\ SeenStored(seen[r])

HostInv == Activity /\ ReadersInv

LEMMA HostInvInit == HostInit => HostInv
<1> SUFFICES ASSUME HostInit PROVE HostInv
  OBVIOUS
<1>1. ReaderTypeOK
  BY WaitingType, NoVersionIsLink DEF HostInit, ReaderTypeOK, Query, Stages, Pages
<1>2. \A r \in Readers : /\ reader[r].stage = "done" /\ reader[r].resolved = FALSE
                         /\ reader[r].answer = Waiting /\ seen[r] = {}
  BY DEF HostInit
<1>3. \A r \in Readers :
        RunningOK(reader[r], seen[r]) /\ DoneOK(reader[r], seen[r]) /\ SeenStored(seen[r])
  BY <1>2 DEF RunningOK, DoneOK, SeenStored
<1> QED
  BY <1>1, <1>3, ActivityInit DEF HostInv, ReadersInv

--------------------------------------------------------------------------------
(* A step of the workers. *)

(* A stored version directory stays as it is. *)
LEMMA DirsStay ==
  ASSUME TypeOK, [Next]_vars, NEW v \in Versions, dirs[v] # Nothing
  PROVE  dirs'[v] = dirs[v]
BY DEF Next, Step, Start, Extract, Stat, RenameVersionDir, RenameAllowed, RenameRefused,
       RemoveCurrentNew, Symlink, Swap, IgnoredFailure, Fail, Crash, vars, disk, TypeOK

(* The files of version v and the templates among them stay. *)
Stays(v) == InVersion(v)' = InVersion(v) /\ TemplatesIn(v)' = TemplatesIn(v)

LEMMA SeenStays ==
  ASSUME TypeOK, [Next]_vars, NEW s \in SUBSET Link, SeenStored(s), NEW v \in s
  PROVE  Stays(v) /\ (v # NoVersion => dirs'[v] # Nothing)
<1>1. CASE v = NoVersion
  <2>1. InVersion(v) = {} /\ InVersion(v)' = {}
    BY <1>1 DEF InVersion
  <2> QED
    BY <1>1, <2>1 DEF TemplatesIn, Stays
<1>2. CASE v # NoVersion
  <2>1. v \in Versions /\ dirs[v] # Nothing
    BY <1>2 DEF SeenStored, Link
  <2>2. dirs'[v] = dirs[v] /\ InVersion(v)' = InVersion(v)
    BY <2>1, DirsStay DEF InVersion
  <2> QED
    BY <2>1, <2>2 DEF TemplatesIn, Stays
<1> QED
  BY <1>1, <1>2

LEMMA CurrentIsStored ==
  ASSUME Activity, [Next]_vars
  PROVE  /\ current' \in Link
         /\ current' # current => current' # NoVersion
         /\ current' # NoVersion => dirs'[current'] # Nothing
<1>1. TypeOK' /\ DiskInv'
  BY TypeStep, DiskStep DEF Activity
<1>2. current' # current => current' # NoVersion
  BY DEF Next, Step, Start, Extract, Stat, RenameVersionDir, RenameRefused, RemoveCurrentNew,
         Symlink, Swap, IgnoredFailure, Fail, Crash, vars, disk
<1> QED
  BY <1>1, <1>2 DEF TypeOK, DiskInv, LinksAreStored

(* What a request may meet, before and after a step of a worker. *)
LEMMA ObservedMore ==
  ASSUME HostInv, Next, Observed, NEW r \in Readers
  PROVE  /\ seen[r] \subseteq seen'[r]
         /\ seen'[r] \in SUBSET Link
         /\ SeenStored(seen[r])'
         /\ \A v \in seen[r] : Stays(v)
         /\ reader[r].stage = "done" => seen'[r] = seen[r]
         /\ reader[r].stage # "done" => current' \in seen'[r]
<1>1. /\ seen[r] \in SUBSET Link
      /\ SeenStored(seen[r])
      /\ reader[r].stage # "done" => current \in seen[r]
  BY DEF HostInv, ReadersInv, ReaderTypeOK, RunningOK
<1>2. \A v \in seen[r] : Stays(v) /\ (v # NoVersion => dirs'[v] # Nothing)
  BY <1>1, SeenStays DEF HostInv, Activity
<1>3. /\ current' \in Link
      /\ current' # current => current' # NoVersion
      /\ current' # NoVersion => dirs'[current'] # Nothing
  BY CurrentIsStored DEF HostInv
<1>4. seen'[r] = IF reader[r].stage = "done" THEN seen[r]
                 ELSE seen[r] \union ({current'} \ {NoVersion})
  BY DEF Observed
<1>5. SeenStored(seen[r])'
  BY <1>2, <1>3, <1>4 DEF SeenStored
<1>6. reader[r].stage # "done" => current' \in seen'[r]
  BY <1>1, <1>3, <1>4
<1> QED
  BY <1>1, <1>2, <1>3, <1>4, <1>5, <1>6

LEMMA WorkerStep ==
  ASSUME HostInv, Next, Observed, UNCHANGED reader
  PROVE  ReadersInv'
<1>1. ReaderTypeOK'
  <2>1. seen' = [r \in Readers |-> seen'[r]]
    BY DEF Observed
  <2>2. \A r \in Readers : seen'[r] \in SUBSET Link
    BY ObservedMore
  <2> QED
    BY <2>1, <2>2 DEF HostInv, ReadersInv, ReaderTypeOK
<1>2. ASSUME NEW r \in Readers
      PROVE  RunningOK(reader[r], seen[r])' /\ DoneOK(reader[r], seen[r])'
  <2>1. /\ seen[r] \subseteq seen'[r]
        /\ \A v \in seen[r] : Stays(v)
        /\ reader[r].stage = "done" => seen'[r] = seen[r]
        /\ reader[r].stage # "done" => current' \in seen'[r]
    BY ObservedMore
  <2>2. RunningOK(reader[r], seen[r]) /\ DoneOK(reader[r], seen[r]) /\ reader'[r] = reader[r]
    BY DEF HostInv, ReadersInv
  <2>3. RunningOK(reader[r], seen[r])'
    <3>1. /\ reader[r].resolved => reader[r].at \in seen'[r]
          /\ reader[r].stage # "done" => current' \in seen'[r]
      BY <2>1, <2>2 DEF RunningOK
    <3>2. reader[r].stage \in {"page", "template", "shell"} => Missing(seen[r], Exact)'
      BY <2>1, <2>2 DEF RunningOK, Missing, Stays
    <3>3. reader[r].stage = "each" =>
            ListOK(reader[r].todo \union reader[r].answer.names, reader[r].answer.names, seen[r])'
      BY <2>1, <2>2 DEF RunningOK, ListOK, Lacking, Held, Stays
    <3> QED
      BY <2>2, <3>1, <3>2, <3>3 DEF RunningOK
  <2>4. DoneOK(reader[r], seen[r])'
    <3>1. SUFFICES ASSUME reader[r].stage = "done", reader[r].answer # Waiting
                   PROVE  AnswerOK(reader[r], seen[r])'
      BY <2>2 DEF DoneOK
    <3>2. AnswerOK(reader[r], seen[r]) /\ seen'[r] = seen[r]
      BY <2>1, <2>2, <3>1 DEF DoneOK
    <3>3. Missing(seen[r], Exact) => Missing(seen[r], Exact)'
      BY <2>1, <3>2 DEF Missing, Stays
    <3>4. FileOK(reader[r].answer, seen[r]) => FileOK(reader[r].answer, seen[r])'
      BY <2>1, <2>2, <3>2 DEF FileOK, Stays
    <3>5. TemplateOK(reader[r], reader[r].answer, seen[r])
            => TemplateOK(reader[r], reader[r].answer, seen[r])'
      BY <2>1, <2>2, <3>2 DEF TemplateOK, Missing, Refused, Offered, Stays
    <3>6. ShellOK(reader[r], reader[r].answer, seen[r])
            => ShellOK(reader[r], reader[r].answer, seen[r])'
      BY <2>1, <2>2, <3>2 DEF ShellOK, Missing, Stays
    <3>7. ListedOK(reader[r].answer, seen[r]) => ListedOK(reader[r].answer, seen[r])'
      BY <2>1, <2>2, <3>2 DEF ListedOK, ListOK, Lacking, Held, Stays
    <3> QED
      BY <2>2, <3>2, <3>3, <3>4, <3>5, <3>6, <3>7 DEF AnswerOK
  <2> QED
    BY <2>3, <2>4
<1>3. \A r \in Readers : SeenStored(seen[r])'
  BY ObservedMore
<1> QED
  BY <1>1, <1>2, <1>3 DEF ReadersInv

--------------------------------------------------------------------------------
(* A step of a request. *)

LEMMA NothingMoves ==
  ASSUME UNCHANGED vars
  PROVE  current' = current /\ dirs' = dirs /\ \A v : Stays(v)
BY DEF vars, disk, InVersion, TemplatesIn, Stays

(* A request that reads ends up as q, having met s. *)
LEMMA ReadKeeps ==
  ASSUME HostInv, UNCHANGED vars, NEW r \in Readers, NEW q \in Query, NEW s \in SUBSET Link,
         reader' = [reader EXCEPT ![r] = q], seen' = [seen EXCEPT ![r] = s],
         SeenStored(s), RunningOK(q, s), DoneOK(q, s)
  PROVE  ReadersInv'
<1>1. ReaderTypeOK'
  BY DEF HostInv, ReadersInv, ReaderTypeOK
<1>2. ASSUME NEW u \in Readers
      PROVE  RunningOK(reader[u], seen[u])' /\ DoneOK(reader[u], seen[u])' /\ SeenStored(seen[u])'
  <2>1. PICK p \in Query, t \in SUBSET Link :
          /\ p = reader'[u] /\ t = seen'[u]
          /\ RunningOK(p, t) /\ DoneOK(p, t) /\ SeenStored(t)
    BY DEF HostInv, ReadersInv, ReaderTypeOK
  <2>2. current' = current /\ dirs' = dirs /\ \A v : Stays(v)
    BY NothingMoves
  <2>3. SeenStored(seen[u])'
    BY <2>1, <2>2 DEF SeenStored
  <2>4. /\ \A x : Missing(t, x) <=> Missing(seen[u], x)'
        /\ \A x : Held(t, x) <=> Held(seen[u], x)'
        /\ \A x : Lacking(t, x) <=> Lacking(seen[u], x)'
        /\ \A x : Refused(t, x) <=> Refused(seen[u], x)'
    BY <2>1, <2>2 DEF Missing, Held, Lacking, Refused, Offered, Stays
  <2>5. \A found, names : ListOK(found, names, t) <=> ListOK(found, names, seen[u])'
    BY <2>4 DEF ListOK
  <2>6. RunningOK(reader[u], seen[u])'
    BY <2>1, <2>2, <2>4, <2>5 DEF RunningOK
  <2>7. FileOK(p.answer, t) => FileOK(reader[u].answer, seen[u])'
    BY <2>1, <2>2 DEF FileOK, Stays
  <2>8. TemplateOK(p, p.answer, t) => TemplateOK(reader[u], reader[u].answer, seen[u])'
    BY <2>1, <2>2, <2>4 DEF TemplateOK, Stays
  <2>9. ShellOK(p, p.answer, t) => ShellOK(reader[u], reader[u].answer, seen[u])'
    BY <2>1, <2>2, <2>4 DEF ShellOK, Stays
  <2>10. ListedOK(p.answer, t) => ListedOK(reader[u].answer, seen[u])'
    BY <2>1, <2>5 DEF ListedOK
  <2>11. DoneOK(reader[u], seen[u])'
    BY <2>1, <2>4, <2>7, <2>8, <2>9, <2>10 DEF DoneOK, AnswerOK
  <2> QED
    BY <2>3, <2>6, <2>11
<1> QED
  BY <1>1, <1>2 DEF ReadersInv

(* The same where the versions met stay the same. *)
LEMMA LookKeeps ==
  ASSUME HostInv, UNCHANGED vars, UNCHANGED seen, NEW r \in Readers, NEW q \in Query,
         reader' = [reader EXCEPT ![r] = q], RunningOK(q, seen[r]), DoneOK(q, seen[r])
  PROVE  ReadersInv'
<1>1. seen' = [seen EXCEPT ![r] = seen[r]] /\ seen[r] \in SUBSET Link /\ SeenStored(seen[r])
  BY DEF HostInv, ReadersInv, ReaderTypeOK
<1> QED
  BY <1>1, ReadKeeps

LEMMA InvOf ==
  ASSUME HostInv, NEW r \in Readers
  PROVE  /\ ReaderTypeOK /\ reader[r] \in Query /\ seen[r] \in SUBSET Link
         /\ RunningOK(reader[r], seen[r]) /\ DoneOK(reader[r], seen[r])
         /\ current \in Link
BY DEF HostInv, ReadersInv, ReaderTypeOK, Activity, TypeOK

LEMMA ArriveKeeps ==
  ASSUME HostInv, UNCHANGED vars, NEW r \in Readers,
         NEW first \in {"exact", "list", "static"}, NEW page \in Pages, NEW extension \in BOOLEAN,
         Arrive(r, first, page, extension)
  PROVE  ReadersInv'
<1> DEFINE q == [stage |-> first, page |-> page, extension |-> extension,
                 at |-> NoVersion, resolved |-> FALSE, todo |-> {}, answer |-> Waiting]
<1>1. q \in Query
  BY WaitingType, NoVersionIsLink DEF Query, Stages
<1>2. {current} \in SUBSET Link /\ SeenStored({current})
  BY InvOf DEF HostInv, Activity, DiskInv, LinksAreStored, SeenStored
<1>3. RunningOK(q, {current}) /\ DoneOK(q, {current})
  BY DEF RunningOK, DoneOK
<1>4. reader' = [reader EXCEPT ![r] = q] /\ seen' = [seen EXCEPT ![r] = {current}]
  BY DEF Arrive
<1> HIDE DEF q
<1> QED
  BY <1>1, <1>2, <1>3, <1>4, ReadKeeps

(* tenantBundleRoot: what current leads to now is among what was met. *)
LEMMA ResolveKeeps ==
  ASSUME HostInv, UNCHANGED vars, NEW r \in Readers, Resolve(r)
  PROVE  ReadersInv'
<1> DEFINE q == [reader[r] EXCEPT !.at = current, !.resolved = TRUE]
<1>1. q \in Query /\ q.at = current /\ q.stage = reader[r].stage /\ q.page = reader[r].page
      /\ q.answer = reader[r].answer /\ q.todo = reader[r].todo
  BY InvOf DEF Query
<1>2. reader[r].stage \in Looks /\ reader[r].stage # "done"
  BY DEF Resolve, Looks
<1>3. reader' = [reader EXCEPT ![r] = q]
  BY InvOf DEF Resolve, Followed, ReaderTypeOK, Query
<1> HIDE DEF q
<1>4. RunningOK(q, seen[r])
  BY <1>1, <1>2, InvOf DEF RunningOK
<1>5. DoneOK(q, seen[r])
  BY <1>1, <1>2 DEF DoneOK
<1> QED
  BY <1>1, <1>3, <1>4, <1>5, LookKeeps DEF Resolve

(* A request of r that only goes on to another stage. *)
LEMMA GoKeeps ==
  ASSUME HostInv, UNCHANGED <<vars, seen>>, NEW r \in Readers,
         NEW stage \in {"page", "template", "shell"}, Go(r, stage),
         reader[r].stage \notin {"done", "each"}, Missing(seen[r], Exact),
         stage = "template" => reader[r].page \in Templates,
         stage = "shell" => reader[r].page = "no page"
  PROVE  ReadersInv'
<1> DEFINE q == Gone(reader[r], stage)
<1>1. stage \in Stages
  BY DEF Stages
<1>2. /\ q \in Query /\ q.stage = stage /\ q.resolved = FALSE
      /\ q.page = reader[r].page /\ q.extension = reader[r].extension
      /\ q.answer = reader[r].answer /\ q.todo = reader[r].todo
  BY <1>1, InvOf, GoneType
<1>3. reader' = [reader EXCEPT ![r] = q]
  BY <1>1, InvOf, GoIsGone
<1> HIDE DEF q
<1>4. RunningOK(q, seen[r])
  BY <1>2, InvOf DEF RunningOK
<1>5. DoneOK(q, seen[r])
  BY <1>2 DEF DoneOK
<1> QED
  BY <1>2, <1>3, <1>4, <1>5, LookKeeps

(* A request of r that is answered. *)
LEMMA FinishKeeps ==
  ASSUME HostInv, UNCHANGED <<vars, seen>>, NEW r \in Readers, NEW a \in Answers, Finish(r, a),
         NEW q, q = Finished(reader[r], a), AnswerOK(q, seen[r])
  PROVE  ReadersInv'
<1>1. /\ q \in Query /\ q.stage = "done" /\ q.resolved = FALSE
  BY InvOf, FinishedType
<1>2. reader' = [reader EXCEPT ![r] = q]
  BY InvOf, FinishIsFinished
<1>3. RunningOK(q, seen[r]) /\ DoneOK(q, seen[r])
  BY <1>1 DEF RunningOK, DoneOK
<1> QED
  BY <1>1, <1>2, <1>3, LookKeeps

(* What a look of r finds is in a version it has met. *)
LEMMA LookedIn ==
  ASSUME HostInv, NEW r \in Readers, NEW stage, Look(r, stage)
  PROVE  /\ reader[r].at \in seen[r] /\ reader[r].at \in Link
         /\ reader[r].stage = stage /\ Found(r) = InVersion(reader[r].at)
BY InvOf DEF Look, RunningOK, Found

LEMMA ServeExactKeeps ==
  ASSUME HostInv, UNCHANGED vars, NEW r \in Readers, ServeExact(r)
  PROVE  ReadersInv'
<1>1. Look(r, "exact") /\ UNCHANGED seen
  BY DEF ServeExact, Look
<1>2. CASE Exact \in Found(r)
  <2> DEFINE a == Answer("file", reader[r].at, {})
             q == Finished(reader[r], a)
  <2>1. a \in Answers
    BY <1>1, LookedIn, AnswerType DEF Kinds
  <2>2. q.answer = a
    BY <2>1, InvOf, FinishedType
  <2>3. FileOK(a, seen[r])
    BY <1>1, <1>2, LookedIn DEF FileOK
  <2>4. Finish(r, a)
    BY <1>2 DEF ServeExact
  <2>5. AnswerOK(q, seen[r])
    BY <2>2, <2>3 DEF AnswerOK
  <2> HIDE DEF a, q
  <2> QED
    BY <1>1, <2>1, <2>4, <2>5, FinishKeeps DEF q
<1>3. CASE Exact \notin Found(r)
  <2>1. Go(r, "page")
    BY <1>3 DEF ServeExact
  <2>2. Missing(seen[r], Exact) /\ reader[r].stage = "exact"
    BY <1>1, <1>3, LookedIn DEF Missing
  <2> QED
    BY <1>1, <2>1, <2>2, GoKeeps
<1> QED
  BY <1>2, <1>3

LEMMA ServePageKeeps ==
  ASSUME HostInv, UNCHANGED vars, NEW r \in Readers, ServePage(r)
  PROVE  ReadersInv'
<1>1. UNCHANGED seen /\ reader[r].stage = "page"
  BY DEF ServePage
<1>2. Missing(seen[r], Exact)
  BY <1>1, InvOf DEF RunningOK
<1>3. CASE reader[r].page = "no page"
  <2>1. Go(r, "shell")
    BY <1>3 DEF ServePage, NoTemplate
  <2> QED
    BY <1>1, <1>2, <1>3, <2>1, GoKeeps
<1>4. CASE reader[r].page = NoTemplate
  <2> DEFINE a == Answer("page", NoVersion, {})
             q == Finished(reader[r], a)
  <2>1. a \in Answers
    BY NoVersionIsLink, AnswerType DEF Kinds
  <2>2. q.answer = a /\ q.page = NoTemplate
    BY <1>4, <2>1, InvOf, FinishedType
  <2>3. Finish(r, a)
    BY <1>4 DEF ServePage, NoTemplate
  <2>4. AnswerOK(q, seen[r])
    BY <1>2, <2>2 DEF AnswerOK
  <2> HIDE DEF a, q
  <2> QED
    BY <1>1, <2>1, <2>3, <2>4, FinishKeeps DEF q
<1>5. CASE reader[r].page \notin {"no page", NoTemplate}
  <2>1. Go(r, "template")
    BY <1>5 DEF ServePage
  <2>2. reader[r].page \in Templates
    BY <1>5, InvOf DEF Query, Pages
  <2> QED
    BY <1>1, <1>2, <2>1, <2>2, GoKeeps
<1> QED
  BY <1>3, <1>4, <1>5

(* What resolveTenantTemplate finds is what the version it looks in offers. *)
LEMMA OfferedIsUsable ==
  ASSUME NEW r \in Readers, NEW name, Found(r) = InVersion(reader[r].at)
  PROVE  Usable(r, name) <=> name \in Offered(reader[r].at)
BY DEF Usable, Offered, TemplatesIn

LEMMA TemplateKeeps ==
  ASSUME HostInv, UNCHANGED vars, NEW r \in Readers, RenderTemplate(r)
  PROVE  ReadersInv'
<1> DEFINE name == reader[r].page
           a == IF ~Usable(r, name) THEN Answer("unavailable", NoVersion, {})
                ELSE Answer("page", IF name \in Found(r) THEN reader[r].at ELSE NoVersion, {})
           q == Finished(reader[r], a)
<1>1. Look(r, "template") /\ UNCHANGED seen /\ Finish(r, a)
  BY DEF RenderTemplate, Look
<1>2. /\ reader[r].at \in seen[r] /\ reader[r].at \in Link
      /\ Found(r) = InVersion(reader[r].at)
      /\ reader[r].stage = "template"
  BY <1>1, LookedIn
<1>3. name \in Templates /\ Missing(seen[r], Exact)
  BY <1>2, InvOf DEF RunningOK
<1>4. a \in Answers
  BY <1>2, NoVersionIsLink, AnswerType DEF Kinds
<1>5. q.answer = a /\ q.page = name
  BY <1>4, InvOf, FinishedType
<1>6. TemplateOK(q, a, seen[r])
  <2>1. /\ name \notin Found(r) => Missing(seen[r], name)
        /\ Usable(r, name) <=> name \in Offered(reader[r].at)
        /\ Usable(r, name) /\ name \in Found(r) => name \in TemplatesIn(reader[r].at)
    BY <1>2, OfferedIsUsable DEF Missing, Usable
  <2>2. CASE Usable(r, name) /\ name \in Found(r)
    <3>1. a = Answer("page", reader[r].at, {})
      BY <2>2
    <3> QED
      BY <1>2, <1>3, <1>5, <2>1, <2>2, <3>1 DEF TemplateOK
  <2>3. CASE Usable(r, name) /\ name \notin Found(r)
    <3>1. a = Answer("page", NoVersion, {}) /\ name \in Configured
      BY <2>3 DEF Usable
    <3> QED
      BY <1>5, <2>1, <2>3, <3>1 DEF TemplateOK
  <2>4. CASE ~Usable(r, name)
    <3>1. a = Answer("unavailable", NoVersion, {}) /\ Refused(seen[r], name)
      BY <1>2, <2>1, <2>4 DEF Refused
    <3> QED
      BY <1>3, <1>5, <3>1 DEF TemplateOK
  <2> QED
    BY <2>2, <2>3, <2>4
<1>7. AnswerOK(q, seen[r])
  BY <1>3, <1>5, <1>6 DEF AnswerOK
<1> HIDE DEF a, q
<1> QED
  BY <1>1, <1>4, <1>7, FinishKeeps DEF q

LEMMA ShellKeeps ==
  ASSUME HostInv, UNCHANGED vars, NEW r \in Readers, ServeShell(r)
  PROVE  ReadersInv'
<1> DEFINE a == IF ~reader[r].extension /\ Shell \in Found(r)
                THEN Answer("application", reader[r].at, {})
                ELSE Answer("missing", NoVersion, {})
           q == Finished(reader[r], a)
<1>1. Look(r, "shell") /\ UNCHANGED seen /\ Finish(r, a)
  BY DEF ServeShell, Look
<1>2. /\ reader[r].at \in seen[r] /\ reader[r].at \in Link
      /\ Found(r) = InVersion(reader[r].at)
      /\ reader[r].stage = "shell"
  BY <1>1, LookedIn
<1>3. reader[r].page = "no page" /\ Missing(seen[r], Exact) /\ reader[r].extension \in BOOLEAN
  BY <1>2, InvOf DEF RunningOK, Query
<1>4. a \in Answers
  BY <1>2, NoVersionIsLink, AnswerType DEF Kinds
<1>5. q.answer = a /\ q.page = "no page" /\ q.extension = reader[r].extension
  BY <1>3, <1>4, InvOf, FinishedType
<1>6. ShellOK(q, a, seen[r])
  BY <1>2, <1>3, <1>5 DEF ShellOK, Missing
<1>7. AnswerOK(q, seen[r])
  BY <1>3, <1>5, <1>6 DEF AnswerOK
<1> HIDE DEF a, q
<1> QED
  BY <1>1, <1>4, <1>7, FinishKeeps DEF q

LEMMA StaticKeeps ==
  ASSUME HostInv, UNCHANGED vars, NEW r \in Readers, ServeStatic(r)
  PROVE  ReadersInv'
<1> DEFINE a == IF Exact \in InVersion(current) THEN Answer("file", current, {})
                ELSE Answer("passed on", NoVersion, {})
           q == Finished(reader[r], a)
<1>1. reader[r].stage = "static" /\ UNCHANGED seen /\ Finish(r, a)
  BY DEF ServeStatic
<1>2. current \in seen[r] /\ current \in Link
  BY <1>1, InvOf DEF RunningOK
<1>3. a \in Answers
  BY <1>2, NoVersionIsLink, AnswerType DEF Kinds
<1>4. q.answer = a
  BY <1>3, InvOf, FinishedType
<1>5. AnswerOK(q, seen[r])
  <2>1. CASE Exact \in InVersion(current)
    BY <1>2, <1>4, <2>1 DEF AnswerOK, FileOK
  <2>2. CASE Exact \notin InVersion(current)
    BY <1>2, <1>4, <2>2 DEF AnswerOK, Missing
  <2> QED
    BY <2>1, <2>2
<1> HIDE DEF a, q
<1> QED
  BY <1>1, <1>3, <1>5, FinishKeeps DEF q

LEMMA ListNamesKeeps ==
  ASSUME HostInv, UNCHANGED vars, NEW r \in Readers, ListNames(r)
  PROVE  ReadersInv'
<1> DEFINE q == [reader[r] EXCEPT !.stage = "each", !.at = NoVersion, !.resolved = FALSE,
                                  !.todo = TemplateNames(Found(r))]
<1>1. Look(r, "list") /\ UNCHANGED seen
  BY DEF ListNames, Look
<1>2. /\ reader[r].at \in seen[r] /\ Found(r) = InVersion(reader[r].at)
      /\ reader[r].stage = "list"
  BY <1>1, LookedIn
<1>3. reader' = [reader EXCEPT ![r] = q]
  BY InvOf DEF ListNames, ReaderTypeOK, Query
<1>4. /\ q \in Query /\ q.stage = "each" /\ q.resolved = FALSE
      /\ q.todo = TemplateNames(Found(r)) /\ q.answer = reader[r].answer
  BY InvOf, NoVersionIsLink DEF Query, Stages, TemplateNames
<1> HIDE DEF q
<1>5. q.answer.names = {}
  <2>1. reader[r].answer = Waiting
    BY <1>2, InvOf DEF RunningOK
  <2> QED
    BY <1>4, <2>1 DEF Waiting, Answer
<1>6. ListOK(q.todo \union q.answer.names, q.answer.names, seen[r])
  BY <1>2, <1>4, <1>5 DEF ListOK, TemplateNames, Lacking, TemplatesIn
<1>7. current \in seen[r]
  BY <1>2, InvOf DEF RunningOK
<1>8. RunningOK(q, seen[r]) /\ DoneOK(q, seen[r])
  BY <1>4, <1>6, <1>7 DEF RunningOK, DoneOK
<1> QED
  BY <1>1, <1>3, <1>4, <1>8, LookKeeps

LEMMA CheckNameKeeps ==
  ASSUME HostInv, UNCHANGED vars, NEW r \in Readers, NEW name \in Templates, CheckName(r, name)
  PROVE  ReadersInv'
<1> DEFINE more == IF Usable(r, name) THEN reader[r].answer.names \union {name}
                   ELSE reader[r].answer.names
           q == [reader[r] EXCEPT !.todo = @ \ {name}, !.at = NoVersion, !.resolved = FALSE,
                                  !.answer.names = more]
<1>1. Look(r, "each") /\ UNCHANGED seen
  BY DEF CheckName, Look
<1>2. /\ reader[r].at \in seen[r] /\ Found(r) = InVersion(reader[r].at)
      /\ reader[r].stage = "each"
  BY <1>1, LookedIn
<1>3. reader' = [reader EXCEPT ![r] = q]
  BY InvOf DEF CheckName, ReaderTypeOK, Query, Answers
<1>4. /\ q \in Query /\ q.stage = "each" /\ q.resolved = FALSE
      /\ q.todo = reader[r].todo \ {name} /\ q.answer.names = more
  BY <1>2, InvOf, NoVersionIsLink DEF Query, Answers
<1> HIDE DEF q
<1>5. ListOK(reader[r].todo \union reader[r].answer.names, reader[r].answer.names, seen[r])
      /\ current \in seen[r]
  BY <1>2, InvOf DEF RunningOK
<1>6. ListOK(q.todo \union more, more, seen[r])
  <2>1. Usable(r, name) => name \in Configured \/ Held(seen[r], name)
    BY <1>2 DEF Usable, Held
  <2>2. ~Usable(r, name) => Lacking(seen[r], name)
    BY <1>2 DEF Usable, Lacking, TemplatesIn
  <2> QED
    BY <1>4, <1>5, <2>1, <2>2 DEF ListOK
<1>7. RunningOK(q, seen[r]) /\ DoneOK(q, seen[r])
  BY <1>4, <1>5, <1>6 DEF RunningOK, DoneOK
<1> QED
  BY <1>1, <1>3, <1>4, <1>7, LookKeeps

LEMMA ListEndsKeeps ==
  ASSUME HostInv, UNCHANGED vars, NEW r \in Readers, ListEnds(r)
  PROVE  ReadersInv'
<1> DEFINE names == reader[r].answer.names \union Configured
           a == Answer("listed", NoVersion, names)
           q == Finished(reader[r], a)
<1>1. /\ reader[r].stage = "each" /\ reader[r].todo = {} /\ UNCHANGED seen
      /\ Finish(r, a)
  BY DEF ListEnds
<1>2. names \in SUBSET Templates
  BY InvOf, HostAssumption DEF Query, Answers
<1>3. a \in Answers
  BY <1>2, NoVersionIsLink, AnswerType DEF Kinds
<1>4. q.answer = a
  BY <1>3, InvOf, FinishedType
<1>5. ListOK(names, names, seen[r])
  <2>1. ListOK(reader[r].todo \union reader[r].answer.names, reader[r].answer.names, seen[r])
    BY <1>1, InvOf DEF RunningOK
  <2> QED
    BY <1>1, <2>1 DEF ListOK
<1>6. AnswerOK(q, seen[r])
  BY <1>2, <1>4, <1>5 DEF AnswerOK, ListedOK
<1> HIDE DEF a, q
<1> QED
  BY <1>1, <1>3, <1>6, FinishKeeps DEF q

LEMMA ReadStep ==
  ASSUME HostInv, UNCHANGED vars, NEW r \in Readers, Read(r)
  PROVE  ReadersInv'
BY ArriveKeeps, ResolveKeeps, StaticKeeps, ServeExactKeeps, ServePageKeeps, TemplateKeeps,
   ShellKeeps, ListNamesKeeps, CheckNameKeeps, ListEndsKeeps DEF Read, Pages

LEMMA HostInvStep == ASSUME HostInv, [HostNext]_hostVars PROVE HostInv'
<1>1. Activity'
  BY ActivityStep DEF HostInv
<1>2. CASE Next /\ Observed /\ UNCHANGED reader
  BY <1>1, <1>2, WorkerStep DEF HostInv
<1>3. CASE (\E r \in Readers : Read(r)) /\ UNCHANGED vars
  BY <1>1, <1>3, ReadStep DEF HostInv
<1>4. CASE UNCHANGED hostVars
  <2>1. reader' = reader /\ seen' = seen /\ UNCHANGED vars
    BY <1>4 DEF hostVars, readerVars
  <2>2. CASE Readers = {}
    BY <1>1, <2>1, <2>2 DEF HostInv, ReadersInv, ReaderTypeOK
  <2>3. CASE Readers # {}
    <3>1. PICK r \in Readers : TRUE
      BY <2>3
    <3>2. reader' = [reader EXCEPT ![r] = reader[r]]
      BY <2>1, InvOf DEF ReaderTypeOK
    <3> QED
      BY <1>1, <2>1, <3>2, InvOf, LookKeeps DEF HostInv
  <2> QED
    BY <2>2, <2>3
<1> QED
  BY <1>2, <1>3, <1>4 DEF HostNext

LEMMA HostIsSafe == HostSpec => []HostInv
BY HostInvInit, HostInvStep, PTL DEF HostSpec

(* Requests, the versions they met and their answers keep their types. *)
THEOREM HostTypeCorrect == HostSpec => []HostTypeOK
<1>1. HostInv => HostTypeOK
  BY HostTypeIsReaderType DEF HostInv, ReadersInv
<1> QED
  BY <1>1, HostIsSafe, PTL

--------------------------------------------------------------------------------
(* What the answers say of the versions. *)

LEMMA FileKind ==
  ASSUME NEW a, NEW s, FileOK(a, s)
  PROVE  a.kind = "file" /\ a.version \in s /\ Exact \in InVersion(a.version)
<1>1. PICK v \in s : a = Answer("file", v, {}) /\ Exact \in InVersion(v)
  BY DEF FileOK
<1> QED
  BY <1>1 DEF Answer

Plain == {"page", "unavailable", "missing", "passed on"}

LEMMA PlainKind ==
  \A kind \in Plain : /\ Answer(kind, NoVersion, {}).kind = kind
                      /\ Answer(kind, NoVersion, {}).version = NoVersion
BY DEF Answer

LEMMA TemplateKind ==
  ASSUME NEW q, NEW a, NEW s, TemplateOK(q, a, s)
  PROVE  \/ a.kind = "page" /\ (a.version = NoVersion \/ a.version \in s)
         \/ a.kind = "unavailable" /\ a.version = NoVersion /\ Refused(s, q.page)
<1>1. CASE a = Answer("page", NoVersion, {})
  BY <1>1, PlainKind DEF Plain
<1>2. CASE Refused(s, q.page) /\ a = Answer("unavailable", NoVersion, {})
  BY <1>2, PlainKind DEF Plain
<1>3. CASE \E v \in s : q.page \in TemplatesIn(v) /\ a = Answer("page", v, {})
  <2>1. PICK v \in s : a = Answer("page", v, {})
    BY <1>3
  <2> QED
    BY <2>1 DEF Answer
<1> QED
  BY <1>1, <1>2, <1>3 DEF TemplateOK

LEMMA ShellKind ==
  ASSUME NEW q, NEW a, NEW s, ShellOK(q, a, s)
  PROVE  \/ a.kind = "application" /\ a.version \in s
         \/ a.kind = "missing" /\ a.version = NoVersion /\ (q.extension \/ Missing(s, Shell))
<1>1. CASE \E v \in s : Shell \in InVersion(v) /\ a = Answer("application", v, {})
  <2>1. PICK v \in s : a = Answer("application", v, {})
    BY <1>1
  <2> QED
    BY <2>1 DEF Answer
<1>2. CASE (q.extension \/ Missing(s, Shell)) /\ a = Answer("missing", NoVersion, {})
  BY <1>2, PlainKind DEF Plain
<1> QED
  BY <1>1, <1>2 DEF ShellOK

LEMMA ListedKind ==
  ASSUME NEW a, NEW s, ListedOK(a, s)
  PROVE  a.kind = "listed" /\ a.names \in SUBSET Templates /\ ListOK(a.names, a.names, s)
<1>1. PICK names \in SUBSET Templates :
        a = Answer("listed", NoVersion, names) /\ ListOK(names, names, s)
  BY DEF ListedOK
<1>2. a.kind = "listed" /\ a.names = names
  BY <1>1 DEF Answer
<1> QED
  BY <1>1, <1>2

LEMMA AnsweredOK ==
  ASSUME HostInv, NEW r \in Readers, Answered(r)
  PROVE  AnswerOK(reader[r], seen[r])
BY InvOf DEF Answered, DoneOK

LEMMA HidesNothing ==
  ASSUME HostInv, NEW r \in Readers, Answered(r), reader[r].answer.kind # "listed",
         NEW q, NEW a, NEW s, q = reader[r], a = q.answer, s = seen[r]
  PROVE  /\ a.version # NoVersion => a.version \in s /\ dirs[a.version].whole
         /\ a.kind = "file" => Exact \in InVersion(a.version)
         /\ (\A v \in s : Exact \in InVersion(v)) => a.kind = "file"
         /\ (\A v \in s : q.page \in Offered(v)) => a.kind # "unavailable"
         /\ (\A v \in s : Shell \in InVersion(v)) /\ ~q.extension => a.kind # "missing"
<1>1. AnswerOK(q, s) /\ s \subseteq Link /\ SeenStored(s)
  BY AnsweredOK, InvOf DEF HostInv, ReadersInv
<1>2. \A v \in s : v # NoVersion => dirs[v].whole
  BY <1>1 DEF HostInv, Activity, DiskInv, DirsAreWhole, SeenStored, Link
<1>3. CASE FileOK(a, s)
  BY <1>2, <1>3, FileKind
<1>4. CASE TemplateOK(q, a, s) /\ Missing(s, Exact)
  BY <1>2, <1>4, TemplateKind DEF Missing, Refused
<1>5. CASE ShellOK(q, a, s) /\ Missing(s, Exact)
  BY <1>2, <1>5, ShellKind DEF Missing
<1>6. CASE /\ Missing(s, Exact)
           /\ a = Answer("page", NoVersion, {}) \/ a = Answer("passed on", NoVersion, {})
  BY <1>6, PlainKind DEF Missing, Plain
<1>7. ~ListedOK(a, s)
  BY ListedKind
<1> QED
  BY <1>1, <1>3, <1>4, <1>5, <1>6, <1>7 DEF AnswerOK

(* An activation under a request takes nothing from it, for every number *)
(* of requests, workers, versions and failures.                          *)
THEOREM ActivationHidesNothing == HostSpec => []SwapHidesNothing
<1>1. HostInv => SwapHidesNothing
  BY HidesNothing DEF SwapHidesNothing
<1> QED
  BY <1>1, HostIsSafe, PTL

LEMMA ListIsSeen ==
  ASSUME HostInv, NEW r \in Readers, Answered(r), reader[r].answer.kind = "listed"
  PROVE  LET held == {TemplatesIn(v) : v \in seen[r]}
             names == reader[r].answer.names
         IN  /\ names \subseteq Configured \union UNION held
             /\ \A name \in Templates : (\A s \in held : name \in s) => name \in names
<1>1. AnswerOK(reader[r], seen[r])
  BY AnsweredOK
<1>2. /\ ~FileOK(reader[r].answer, seen[r])
      /\ ~TemplateOK(reader[r], reader[r].answer, seen[r])
      /\ ~ShellOK(reader[r], reader[r].answer, seen[r])
  BY FileKind, TemplateKind, ShellKind
<1>3. ListedOK(reader[r].answer, seen[r])
  BY <1>1, <1>2, PlainKind DEF AnswerOK, Plain
<1>4. reader[r].answer.names \subseteq Templates
      /\ ListOK(reader[r].answer.names, reader[r].answer.names, seen[r])
  BY <1>3, ListedKind
<1> QED
  <2> DEFINE held == {TemplatesIn(v) : v \in seen[r]}
             names == reader[r].answer.names
  <2>1. ASSUME NEW name \in names PROVE name \in Configured \union UNION held
    <3>1. CASE name \in Configured
      BY <3>1
    <3>2. CASE Held(seen[r], name)
      <4>1. PICK v \in seen[r] : name \in TemplatesIn(v)
        BY <3>2 DEF Held
      <4> QED
        BY <4>1
    <3> QED
      BY <1>4, <3>1, <3>2 DEF ListOK
  <2>2. ASSUME NEW name \in Templates, name \notin names PROVE \E s \in held : name \notin s
    <3>1. PICK v \in seen[r] : name \notin TemplatesIn(v)
      BY <1>4, <2>2 DEF ListOK, Lacking
    <3>2. TemplatesIn(v) \in held
      OBVIOUS
    <3> QED
      BY <3>1, <3>2
  <2> QED
    BY <2>1, <2>2

(* The list of templates names what some version held or the host has, and *)
(* all that every version held.                                            *)
THEOREM ListsAreOfSeenVersions == HostSpec => []ListIsOfSeenVersions
<1>1. HostInv => ListIsOfSeenVersions
  BY ListIsSeen DEF ListIsOfSeenVersions
<1> QED
  BY <1>1, HostIsSafe, PTL

LEMMA Steady ==
  ASSUME HostInv, NEW r \in Readers, Answered(r), reader[r].answer.kind # "listed",
         NEW v \in seen[r], seen[r] = {v}
  PROVE  IF reader[r].answer.kind = "passed on"
         THEN Exact \notin InVersion(v)
         ELSE reader[r].answer = AnswerIn(v, reader[r].page, reader[r].extension)
<1> SUFFICES ASSUME NEW q, NEW a, q = reader[r], a = q.answer
             PROVE  IF a.kind = "passed on" THEN Exact \notin InVersion(v)
                    ELSE a = AnswerIn(v, q.page, q.extension)
  OBVIOUS
<1> DEFINE files == InVersion(v)
           good == TemplatesIn(v)
           offered == Offered(v)
<1>1. AnswerOK(q, {v}) /\ v \in Link /\ q.page \in Pages /\ q.extension \in BOOLEAN
  BY AnsweredOK, InvOf DEF Query
<1>2. /\ \A x : Missing({v}, x) <=> x \notin files
      /\ \A x : Refused({v}, x) <=> x \notin offered
  BY DEF Missing, Refused
<1>3. files \subseteq {Exact, Shell} \union Templates
  BY <1>1, InVersionType DEF HostInv, Activity
<1>4. "no page" \notin files /\ NoTemplate \notin files /\ "no page" # NoTemplate
  BY <1>3, HostAssumption DEF Exact, Shell, NoTemplate
<1>5. AnswerIn(v, q.page, q.extension) =
        CASE Exact \in files -> Answer("file", v, {})
          [] Exact \notin files /\ q.page = NoTemplate -> Answer("page", NoVersion, {})
          [] Exact \notin files /\ q.page \in good -> Answer("page", v, {})
          [] Exact \notin files /\ q.page \in Configured \ files -> Answer("page", NoVersion, {})
          [] Exact \notin files /\ q.page \in Templates \ offered -> Answer("unavailable", NoVersion, {})
          [] Exact \notin files /\ q.page = "no page" /\ Shell \in files /\ ~q.extension ->
               Answer("application", v, {})
          [] OTHER -> Answer("missing", NoVersion, {})
  BY DEF AnswerIn
<1>6. /\ good \subseteq files /\ offered = good \union (Configured \ files)
      /\ good \subseteq Templates
      /\ q.page \in Configured => q.page \in Templates
      /\ q.page \in Templates => q.page # "no page" /\ q.page # NoTemplate
  BY HostAssumption DEF TemplatesIn, Offered
<1> HIDE DEF files, good, offered
<1>7. CASE FileOK(a, {v})
  <2>1. Exact \in files /\ a = Answer("file", v, {})
    BY <1>7 DEF FileOK, files
  <2> QED
    BY <1>5, <1>7, <2>1, FileKind
<1>8. CASE Exact \notin files /\ q.page = NoTemplate /\ a = Answer("page", NoVersion, {})
  <2>1. AnswerIn(v, q.page, q.extension) = Answer("page", NoVersion, {})
    BY <1>4, <1>5, <1>6, <1>8
  <2> QED
    BY <1>8, <2>1 DEF Answer
<1>9. CASE Exact \notin files /\ TemplateOK(q, a, {v})
  <2>1. CASE q.page \in Configured /\ q.page \notin files /\ a = Answer("page", NoVersion, {})
    <3>1. AnswerIn(v, q.page, q.extension) = Answer("page", NoVersion, {})
      BY <1>5, <1>6, <1>9, <2>1
    <3> QED
      BY <2>1, <3>1 DEF Answer
  <2>2. CASE q.page \in Templates \ offered /\ a = Answer("unavailable", NoVersion, {})
    <3>1. AnswerIn(v, q.page, q.extension) = Answer("unavailable", NoVersion, {})
      BY <1>5, <1>6, <1>9, <2>2
    <3> QED
      BY <2>2, <3>1 DEF Answer
  <2>3. CASE q.page \in good /\ a = Answer("page", v, {})
    <3>1. AnswerIn(v, q.page, q.extension) = Answer("page", v, {})
      BY <1>5, <1>6, <1>9, <2>3
    <3> QED
      BY <2>3, <3>1 DEF Answer
  <2> QED
    BY <1>2, <1>9, <2>1, <2>2, <2>3 DEF TemplateOK, good
<1>10. CASE Exact \notin files /\ q.page = "no page" /\ ShellOK(q, a, {v})
  <2>1. CASE ~q.extension /\ Shell \in files /\ a = Answer("application", v, {})
    <3>1. AnswerIn(v, q.page, q.extension) = Answer("application", v, {})
      BY <1>4, <1>5, <1>6, <1>10, <2>1
    <3> QED
      BY <2>1, <3>1 DEF Answer
  <2>2. CASE (q.extension \/ Shell \notin files) /\ a = Answer("missing", NoVersion, {})
    <3>1. AnswerIn(v, q.page, q.extension) = Answer("missing", NoVersion, {})
      BY <1>4, <1>5, <1>6, <1>10, <2>2
    <3> QED
      BY <2>2, <3>1 DEF Answer
  <2> QED
    BY <1>2, <1>10, <2>1, <2>2 DEF ShellOK, files
<1>11. CASE Exact \notin files /\ a = Answer("passed on", NoVersion, {})
  BY <1>11, PlainKind DEF files, Plain
<1>12. CASE ListedOK(a, {v})
  BY <1>12, ListedKind
<1> QED
  BY <1>1, <1>2, <1>7, <1>8, <1>9, <1>10, <1>11, <1>12 DEF AnswerOK

(* A request that meets one version only is answered from that version. *)
THEOREM OneVersionOneAnswer == HostSpec => []SteadyReadsAreExact
<1>1. HostInv => SteadyReadsAreExact
  BY Steady DEF SteadyReadsAreExact
<1> QED
  BY <1>1, HostIsSafe, PTL

================================================================================
