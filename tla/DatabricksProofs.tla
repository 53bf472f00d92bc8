-------------------------- MODULE DatabricksProofs --------------------------
(***************************************************************************)
(* Proofs about one Sedona experiment, for every number of libraries,      *)
(* warmup calls, timed calls and tolerated failures.                       *)
(***************************************************************************)
EXTENDS DatabricksCluster, TLAPS

Provisioning == {"create", "install", "awaitCluster", "awaitLibraries", "upload"}
InCall       == {"awaitRun", "fetch"}

\* The process knows how far it is: no call before the cluster is ready, a call in
\* progress is the last one begun, and another one may be begun at "submit".
StageInv ==
  /\ at \in Provisioning => calls = 0 /\ consecutive = 0
  /\ at = "create" => cluster = "none"
  /\ at \in InCall => calls > 0
  /\ at = "submit" => calls < Calls
  /\ at \in InCall \cup {"submit"} => consecutive < MaxConsecutive
  /\ at = "fetch" => runs[calls] = "succeeded"
  /\ \A c \in 1 .. Calls : c > calls => runs[c] = "none"

\* What has been made ready stays ready.
ReadyInv ==
  /\ at \in InCall \cup {"upload", "submit"} => \A l \in Libraries : library[l] = "installed"
  /\ at \in InCall \cup {"submit"} => notebook = "uploaded"

\* The calls behind the process: results are those of runs that succeeded, and as
\* long as calls are made every warmup call has had one.
WarmInv ==
  /\ \A c \in recorded : c <= calls /\ runs[c] = "succeeded"
  /\ at = "submit" => \A w \in 1 .. Warmups : w <= calls => w \in recorded
  /\ at \in InCall => \A w \in 1 .. Warmups : w < calls => w \in recorded

IInv ==
  /\ TypeOK /\ StageInv /\ ReadyInv /\ ReadyBeforeRun
  /\ WarmInv /\ TimedOnWarmCluster /\ NoOrphan /\ OnlyAbandonedRunsOverlap

-----------------------------------------------------------------------------
\* The number of timed calls and the bounds on them are natural numbers.
LEMMA CallsNat == Calls \in Nat \ {0} /\ Warmups \in Nat /\ MaxConsecutive \in Nat \ {0}
BY DatabricksAssumption DEF Calls

\* At first there is no cluster and no call has been made.
LEMMA Initially == Init => IInv
<1> SUFFICES ASSUME Init PROVE IInv
  OBVIOUS
<1> USE CallsNat DEF Init
<1>1. TypeOK
  BY DEF TypeOK
<1>2. StageInv /\ ReadyInv /\ ReadyBeforeRun
  BY DEF StageInv, ReadyInv, ReadyBeforeRun, Provisioning, InCall
<1>3. WarmInv /\ TimedOnWarmCluster
  BY DEF WarmInv, TimedOnWarmCluster, InCall
<1>4. NoOrphan /\ OnlyAbandonedRunsOverlap
  BY DEF NoOrphan, OnlyAbandonedRunsOverlap, ActiveRuns
<1> QED BY <1>1, <1>2, <1>3, <1>4 DEF IInv

\* Before the first call nothing has been run.
LEMMA NothingRun ==
  ASSUME TypeOK, StageInv, at \in Provisioning
  PROVE  calls = 0 /\ consecutive = 0 /\ \A c \in 1 .. Calls : runs[c] = "none"
<1>1. calls = 0 /\ consecutive = 0
  BY DEF StageInv
<1>2. \A c \in 1 .. Calls : c > 0
  BY CallsNat
<1> QED BY <1>1, <1>2 DEF StageInv

\* Everything up to the first call.
LEMMA ProvisioningPreserves ==
  ASSUME IInv,
         \/ CreateCluster \/ InstallLibraries \/ AwaitCluster
         \/ AwaitLibraries \/ UploadNotebook \/ PollRaises
  PROVE  IInv'
<1> USE DEF CreateCluster, InstallLibraries, AwaitCluster, AwaitLibraries, UploadNotebook,
        PollRaises, Goto, clusterVars, history, Happened
<1>0. TypeOK /\ StageInv /\ ReadyInv /\ WarmInv
  BY DEF IInv
<1>1. TypeOK'
  BY <1>0 DEF TypeOK
<1>2. at \in Provisioning
  BY DEF Provisioning
<1>3. /\ calls = 0 /\ consecutive = 0 /\ \A c \in 1 .. Calls : runs[c] = "none"
      /\ UNCHANGED <<calls, consecutive, recorded, runs, abandoned>>
  BY <1>0, <1>2, NothingRun
<1>4. /\ at' \in Provisioning \cup {"submit", "abandon", "ended"}
      /\ at' # "create"
      /\ at' = "upload" => at = "awaitLibraries" /\ AllInstalled /\ UNCHANGED library
      /\ at' = "submit" => at = "upload" /\ notebook' = "uploaded" /\ UNCHANGED library
  BY DEF Provisioning
<1>5. at' = "ended" => cluster' = cluster \/ "lostCreate" \in faults'
  OBVIOUS
<1>6. at' = "ended" => at = "create"
  OBVIOUS
<1> HIDE DEF CreateCluster, InstallLibraries, AwaitCluster, AwaitLibraries, UploadNotebook,
         PollRaises
<1>7. StageInv'
  BY <1>3, <1>4, CallsNat DEF StageInv, Provisioning, InCall
<1>8. ReadyInv'
  BY <1>0, <1>4 DEF ReadyInv, InCall, AllInstalled, Provisioning
<1>9. ReadyBeforeRun'
  BY <1>3 DEF ReadyBeforeRun
<1>10. recorded = {}
  BY <1>0, <1>3 DEF WarmInv, TypeOK
<1>11. WarmInv' /\ TimedOnWarmCluster'
  BY <1>3, <1>4, <1>10 DEF WarmInv, TimedOnWarmCluster, Provisioning, InCall
<1>12. NoOrphan'
  BY <1>0, <1>5, <1>6 DEF NoOrphan, Unreachable, StageInv, Alive
<1>13. OnlyAbandonedRunsOverlap'
  BY <1>3 DEF OnlyAbandonedRunsOverlap, ActiveRuns
<1> QED BY <1>1, <1>7, <1>8, <1>9, <1>11, <1>12, <1>13 DEF IInv

\* Where a call that ends leads to.
LEMMA AfterCall ==
  ASSUME NEW c, NEW streak, EndCall(c, streak)
  PROVE  /\ at' \in {"submit", "record", "terminate"}
         /\ at' = "submit" => /\ c # Calls /\ streak # MaxConsecutive
                              /\ c <= Warmups => ~(streak > 0)
         /\ consecutive' = streak
BY DEF EndCall, MustStop, LastCall, Goto

\* A submitted run finds the cluster the client knows as ready.
LEMMA SubmitPreserves ==
  ASSUME IInv, SubmitRun
  PROVE  IInv'
<1>0. TypeOK /\ StageInv /\ ReadyInv /\ ReadyBeforeRun /\ WarmInv /\ TimedOnWarmCluster
      /\ OnlyAbandonedRunsOverlap
  BY DEF IInv
<1>1. at = "submit" /\ calls' = calls + 1
      /\ UNCHANGED <<cluster, library, notebook, faults>>
  BY DEF SubmitRun, clusterVars
<1>2. calls \in Nat /\ calls + 1 \in 1 .. Calls /\ consecutive \in Nat
      /\ consecutive + 1 \in 1 .. MaxConsecutive
  BY <1>0, <1>1, CallsNat DEF StageInv, TypeOK, InCall
<1>3. \/ /\ at' = "awaitRun" /\ UNCHANGED <<consecutive, recorded, abandoned>>
      \/ /\ \/ abandoned' = abandoned \cup {calls + 1}
            \/ UNCHANGED <<runs, abandoned>>
         /\ at' \in {"submit", "record", "terminate"}
         /\ at' = "submit" => /\ calls + 1 # Calls /\ consecutive + 1 # MaxConsecutive
                              /\ ~(calls + 1 <= Warmups)
         /\ consecutive' = consecutive + 1 /\ UNCHANGED recorded
  BY <1>2, AfterCall DEF SubmitRun, CallRaises, CallAbandons, Goto
<1>4. /\ runs' \in [1 .. Calls -> {"none", "active", "succeeded", "failed"}]
      /\ \A c \in 1 .. Calls : c # calls + 1 => runs'[c] = runs[c]
  BY <1>0, <1>2 DEF TypeOK, SubmitRun
<1>5. TypeOK'
  <2>1. calls' \in 0 .. Calls /\ consecutive' \in 0 .. MaxConsecutive
    BY <1>0, <1>1, <1>2, <1>3, CallsNat DEF TypeOK
  <2>2. recorded' = recorded /\ abandoned' \subseteq 1 .. Calls
    BY <1>0, <1>2, <1>3 DEF TypeOK
  <2> QED BY <1>0, <1>1, <1>3, <1>4, <2>1, <2>2 DEF TypeOK
<1>6. StageInv'
  <2>1. \A c \in 1 .. Calls : c > calls' => runs'[c] = "none"
    BY <1>0, <1>1, <1>2, <1>4 DEF StageInv
  <2>2. at' \in {"awaitRun", "submit", "record", "terminate"}
    BY <1>3
  <2>3. at' = "submit" => calls' < Calls /\ consecutive' < MaxConsecutive
    BY <1>1, <1>2, <1>3, CallsNat
  <2>4. at' = "awaitRun" => calls' > 0 /\ consecutive' < MaxConsecutive
    BY <1>0, <1>1, <1>2, <1>3 DEF StageInv, InCall
  <2> QED BY <2>1, <2>2, <2>3, <2>4 DEF StageInv, Provisioning, InCall
<1>7. ReadyInv' /\ ReadyBeforeRun'
  BY <1>0, <1>1, <1>3 DEF ReadyInv, ReadyBeforeRun, InCall
<1>8. WarmInv'
  <2>1. \A c \in recorded' : c <= calls' /\ runs'[c] = "succeeded"
    <3>1. recorded' = recorded
      BY <1>3
    <3>2. \A c \in recorded : c \in 1 .. Calls /\ c <= calls /\ c # calls + 1
      BY <1>0, <1>2 DEF WarmInv, TypeOK
    <3> QED BY <1>0, <1>1, <1>2, <1>4, <3>1, <3>2 DEF WarmInv
  <2>2. \A w \in 1 .. Warmups : w < calls' => w \in recorded'
    BY <1>0, <1>1, <1>2, <1>3, CallsNat DEF WarmInv
  <2>3. at' = "submit" => \A w \in 1 .. Warmups : w <= calls' => w \in recorded'
    BY <1>1, <1>2, <1>3, <2>2, CallsNat
  <2> QED BY <2>1, <2>2, <2>3 DEF WarmInv
<1>9. TimedOnWarmCluster'
  BY <1>0, <1>3, <1>8 DEF WarmInv, TimedOnWarmCluster
<1>10. NoOrphan'
  BY <1>3 DEF NoOrphan
<1>11. OnlyAbandonedRunsOverlap'
  <2>1. SUFFICES ASSUME NEW c \in ActiveRuns'
                 PROVE  (at' = "awaitRun" /\ c = calls') \/ c \in abandoned'
    BY DEF OnlyAbandonedRunsOverlap
  <2>2. abandoned \subseteq abandoned'
    BY <1>3
  <2>3. CASE c = calls + 1
    <3>1. runs' # runs
      BY <1>0, <1>2, <2>1, <2>3 DEF ActiveRuns, StageInv
    <3> QED BY <1>1, <1>3, <2>3, <3>1
  <2>4. CASE c # calls + 1
    <3>1. c \in ActiveRuns
      BY <1>4, <2>1, <2>4 DEF ActiveRuns
    <3> QED BY <1>0, <1>1, <2>2, <3>1 DEF OnlyAbandonedRunsOverlap
  <2> QED BY <2>3, <2>4
<1> QED BY <1>5, <1>6, <1>7, <1>8, <1>9, <1>10, <1>11 DEF IInv

\* Waiting for the run and fetching its output.
LEMMA CallPreserves ==
  ASSUME IInv, AwaitRun \/ RunPollRaises \/ FetchOutput
  PROVE  IInv'
<1>0. TypeOK /\ StageInv /\ ReadyInv /\ ReadyBeforeRun /\ WarmInv /\ TimedOnWarmCluster
      /\ OnlyAbandonedRunsOverlap
  BY DEF IInv
<1>1. at \in InCall /\ UNCHANGED <<calls, cluster, library, notebook, runs, faults>>
  BY DEF AwaitRun, RunPollRaises, FetchOutput, InCall, clusterVars
<1>2. calls \in 1 .. Calls /\ consecutive \in Nat /\ consecutive + 1 \in 1 .. MaxConsecutive
  BY <1>0, <1>1, CallsNat DEF StageInv, TypeOK
<1>3. \/ /\ at' = "fetch" /\ runs[calls] = "succeeded"
         /\ UNCHANGED <<consecutive, recorded, abandoned>>
      \/ /\ runs[calls] = "succeeded" /\ recorded' = recorded \cup {calls} /\ UNCHANGED abandoned
         /\ at' \in {"submit", "record", "terminate"}
         /\ at' = "submit" => calls # Calls
         /\ consecutive' = 0
      \/ /\ \/ abandoned' = abandoned \cup {calls}
            \/ runs[calls] # "active" /\ UNCHANGED abandoned
         /\ at' \in {"submit", "record", "terminate"}
         /\ at' = "submit" => /\ calls # Calls /\ consecutive + 1 # MaxConsecutive
                              /\ ~(calls <= Warmups)
         /\ consecutive' = consecutive + 1 /\ UNCHANGED recorded
  BY <1>0, <1>2, AfterCall DEF AwaitRun, RunPollRaises, FetchOutput, CallReturns,
     CallRaises, CallAbandons, Goto, StageInv
<1>4. TypeOK'
  <2>1. consecutive' \in 0 .. MaxConsecutive
    BY <1>0, <1>2, <1>3, CallsNat DEF TypeOK
  <2>2. recorded' \subseteq 1 .. Calls /\ abandoned' \subseteq 1 .. Calls
    BY <1>0, <1>2, <1>3 DEF TypeOK
  <2> QED BY <1>0, <1>1, <1>3, <2>1, <2>2 DEF TypeOK
<1>5. StageInv'
  BY <1>0, <1>1, <1>2, <1>3, CallsNat DEF StageInv, Provisioning, InCall
<1>6. ReadyInv' /\ ReadyBeforeRun'
  BY <1>0, <1>1, <1>3 DEF ReadyInv, ReadyBeforeRun, InCall
<1>7. \A c \in recorded' : c <= calls' /\ runs'[c] = "succeeded"
  BY <1>0, <1>1, <1>2, <1>3 DEF WarmInv
<1>8. \A w \in 1 .. Warmups : w < calls => w \in recorded
  BY <1>0, <1>1 DEF WarmInv
<1>9. WarmInv'
  <2>1. at' \in InCall => \A w \in 1 .. Warmups : w < calls' => w \in recorded'
    BY <1>1, <1>3, <1>8 DEF InCall
  <2>2. at' = "submit" => \A w \in 1 .. Warmups : w <= calls' => w \in recorded'
    BY <1>1, <1>2, <1>3, <1>8, CallsNat
  <2> QED BY <1>7, <2>1, <2>2 DEF WarmInv
<1>10. TimedOnWarmCluster'
  <2>1. calls > Warmups => 1 .. Warmups \subseteq recorded
    BY <1>2, <1>8, CallsNat
  <2>2. \A c \in recorded' : c > Warmups => 1 .. Warmups \subseteq recorded'
    BY <1>0, <1>3, <2>1 DEF TimedOnWarmCluster
  <2> QED BY <1>7, <2>2 DEF TimedOnWarmCluster
<1>11. NoOrphan'
  BY <1>3 DEF NoOrphan
<1>12. OnlyAbandonedRunsOverlap'
  BY <1>0, <1>1, <1>3 DEF OnlyAbandonedRunsOverlap, ActiveRuns, InCall
<1> QED BY <1>4, <1>5, <1>6, <1>9, <1>10, <1>11, <1>12 DEF IInv

\* The end of the process, in its finally block, in its handler or from outside.
LEMMA EndPreserves ==
  ASSUME IInv, RecordOutcome \/ TerminateCluster \/ Killed
  PROVE  IInv'
<1> USE CallsNat DEF IInv, RecordOutcome, TerminateCluster, Killed, Goto, clusterVars, RunsAbort,
        history, Happened
<1>1. at' \in {"terminate", "ended", "killed"} /\ UNCHANGED <<calls, recorded, library, notebook, abandoned>>
  OBVIOUS
<1>2. \A c \in 1 .. Calls : runs'[c] = runs[c] \/ (runs[c] = "active" /\ runs'[c] = "failed")
  BY DEF TypeOK
<1>3. TypeOK'
  BY DEF TypeOK
<1>4. StageInv' /\ ReadyInv' /\ ReadyBeforeRun'
  BY <1>1, <1>2 DEF StageInv, ReadyInv, ReadyBeforeRun, Provisioning, InCall
<1>5. WarmInv' /\ TimedOnWarmCluster'
  BY <1>1, <1>2 DEF WarmInv, TimedOnWarmCluster, InCall, TypeOK
<1>6. NoOrphan'
  BY DEF NoOrphan, Unreachable, Alive
<1>7. OnlyAbandonedRunsOverlap'
  BY <1>1, <1>2 DEF OnlyAbandonedRunsOverlap, ActiveRuns
<1> QED BY <1>3, <1>4, <1>5, <1>6, <1>7

\* What happens to the cluster and its runs without the client.
LEMMA DatabricksPreserves ==
  ASSUME IInv, Databricks
  PROVE  IInv'
<1> USE CallsNat DEF IInv, clientVars, history, Happened
<1>1. ASSUME ClusterStarts PROVE IInv'
  BY <1>1 DEF ClusterStarts, TypeOK, StageInv, ReadyInv, ReadyBeforeRun, WarmInv,
     TimedOnWarmCluster, NoOrphan, Unreachable, Alive, OnlyAbandonedRunsOverlap, ActiveRuns
<1>2. ASSUME NEW l \in Libraries, LibraryInstalls(l) PROVE IInv'
  BY <1>2 DEF LibraryInstalls, TypeOK, StageInv, ReadyInv, ReadyBeforeRun, WarmInv,
     TimedOnWarmCluster, NoOrphan, Unreachable, Alive, OnlyAbandonedRunsOverlap, ActiveRuns
<1>3. ASSUME ClusterDies \/ \E c \in 1 .. Calls : RunEnds(c) PROVE IInv'
  <2> USE DEF ClusterDies, RunEnds, RunsAbort, clusterVars
  <2>1. UNCHANGED <<at, calls, consecutive, recorded, library, notebook>>
    BY <1>3
  <2>2. \A c \in 1 .. Calls :
          runs'[c] = runs[c] \/ (runs[c] = "active" /\ runs'[c] \in {"succeeded", "failed"})
    BY <1>3 DEF TypeOK
  <2>3. TypeOK'
    BY <1>3 DEF TypeOK
  <2>4. StageInv'
    BY <1>3, <2>1, <2>2 DEF StageInv, InCall, TypeOK
  <2>5. ReadyInv' /\ ReadyBeforeRun'
    BY <2>1, <2>2 DEF ReadyInv, ReadyBeforeRun
  <2>6. WarmInv' /\ TimedOnWarmCluster'
    BY <2>1, <2>2 DEF WarmInv, TimedOnWarmCluster, TypeOK
  <2>7. NoOrphan'
    BY <1>3 DEF NoOrphan, Unreachable, Alive
  <2>8. OnlyAbandonedRunsOverlap'
    BY <1>3, <2>1, <2>2 DEF OnlyAbandonedRunsOverlap, ActiveRuns
  <2> QED BY <2>3, <2>4, <2>5, <2>6, <2>7, <2>8
<1> QED BY <1>1, <1>2, <1>3 DEF Databricks

\* The invariant of the experiment, over every interleaving with Databricks.
THEOREM Inductive == Spec => []IInv
<1>1. Init => IInv
  BY Initially
<1>2. IInv /\ [Next]_vars => IInv'
  <2> SUFFICES ASSUME IInv, [Next]_vars PROVE IInv'
    OBVIOUS
  <2>1. CASE Next
    BY <2>1, ProvisioningPreserves, SubmitPreserves, CallPreserves, EndPreserves,
       DatabricksPreserves DEF Next, Client
  <2>2. CASE UNCHANGED vars
    BY <2>2 DEF vars, clientVars, clusterVars, history, IInv, TypeOK, StageInv, ReadyInv, ReadyBeforeRun,
       WarmInv, TimedOnWarmCluster, NoOrphan, Unreachable, OnlyAbandonedRunsOverlap, ActiveRuns
  <2> QED BY <2>1, <2>2
<1> QED BY <1>1, <1>2, PTL DEF Spec

-----------------------------------------------------------------------------
\* The state of the experiment stays in its domains: no call past the last one, no
\* streak past its limit.
THEOREM TypeCorrect == Spec => []TypeOK
BY Inductive, PTL DEF IInv

\* No notebook run is ever submitted before the libraries and the notebook are there.
THEOREM RunsFindTheClusterReady == Spec => []ReadyBeforeRun
BY Inductive, PTL DEF IInv

\* Results come from runs that succeeded, timed ones from a warm cluster, whatever
\* Databricks does.
THEOREM ResultsAreWarm == Spec => []TimedOnWarmCluster
BY Inductive, PTL DEF IInv

\* A notebook run nobody waits for is that of a call whose submission lost its reply
\* or whose poll was answered with an error, as long as the process is not killed.
THEOREM CallsBlock == Spec => []OnlyAbandonedRunsOverlap
BY Inductive, PTL DEF IInv

\* The process never ends with its cluster alive, unless the reply of clusters/create
\* was lost or the deletion failed.
THEOREM NothingIsOrphaned == Spec => []NoOrphan
BY Inductive, PTL DEF IInv
=============================================================================
