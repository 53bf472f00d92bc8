------------------------- MODULE DatabricksCluster -------------------------
(***************************************************************************)
(* One Sedona experiment: the container process that provisions a          *)
(* Databricks cluster, submits one notebook run per monitored call and     *)
(* deletes the cluster (_databricks_benchmark_runner.py,                   *)
(* databricks_service.py).                                                 *)
(*                                                                         *)
(* Databricks is the environment: the cluster starts or dies, libraries    *)
(* install or fail, runs end by themselves.  A poll that cannot connect    *)
(* is repeated by the code until it is answered and changes nothing; any   *)
(* other request may be refused, or answered with an error status, and     *)
(* the reply of create or submit may be lost after it took effect.         *)
(***************************************************************************)
EXTENDS Integers, FiniteSets

CONSTANTS
  Libraries,       \* what _install_libraries asks for
  Warmups,         \* warmup_iterations of the monitored function
  Ceiling,         \* BenchmarkIteration.NATIONAL_SCALE_SPATIAL_JOIN
  MaxConsecutive   \* Config.BENCHMARK_MAX_CONSECUTIVE_FAILURES

Calls == Warmups + Ceiling

ASSUME DatabricksAssumption ==
  /\ IsFiniteSet(Libraries)
  /\ Warmups \in Nat /\ Ceiling \in Nat \ {0}
  /\ MaxConsecutive \in Nat \ {0}

VARIABLES
  at,           \* where the process is
  calls,        \* monitored calls begun, warmup calls included
  consecutive,  \* consecutive_failures of the timed calls
  recorded,     \* calls that returned a result
  cluster,      \* the cluster, as Databricks sees it
  library,      \* installation status of each library
  notebook,     \* whether the notebook has been imported into the workspace
  runs,         \* state of the notebook run each call submitted
  abandoned,    \* history: calls that raised without having seen their run end
  faults        \* history: what has gone wrong with the cluster itself

clientVars  == <<at, calls, consecutive, recorded>>
clusterVars == <<cluster, library, notebook>>
history     == <<abandoned, faults>>
vars == <<clientVars, clusterVars, runs, history>>

Happened(fault) == faults' = faults \cup {fault}

Alive == {"pending", "running"}

ActiveRuns == {c \in 1 .. Calls : runs[c] = "active"}

\* Every run that is still active ends with its cluster.
RunsAbort == runs' = [c \in 1 .. Calls |-> IF runs[c] = "active" THEN "failed" ELSE runs[c]]

Goto(label) == at' = label

-----------------------------------------------------------------------------
(***************************************************************************)
(* create_cluster.  Once the id of the cluster is known, every failure     *)
(* goes through "abandon", which deletes the cluster.                      *)
(***************************************************************************)

CreateCluster ==
  /\ at = "create"
  /\ \/ cluster' = "pending" /\ Goto("install") /\ UNCHANGED faults
     \/ cluster' = "pending" /\ Goto("ended") /\ Happened("lostCreate")
     \/ UNCHANGED <<cluster, faults>> /\ Goto("ended")
  /\ UNCHANGED <<calls, consecutive, recorded, library, notebook, runs, abandoned>>

InstallLibraries ==
  /\ at = "install"
  /\ \/ /\ library' = [l \in Libraries |-> "pending"]
        /\ Goto("awaitCluster")
     \/ UNCHANGED library /\ Goto("abandon")
  /\ UNCHANGED <<calls, consecutive, recorded, cluster, notebook, runs, history>>

AwaitCluster ==
  /\ at = "awaitCluster"
  /\ \/ cluster = "running" /\ Goto("awaitLibraries")
     \/ cluster = "terminated" /\ Goto("abandon")
  /\ UNCHANGED <<calls, consecutive, recorded, clusterVars, runs, history>>

\* A mistake: one installed library is enough.
SomeInstalled == \E l \in Libraries : library[l] = "installed"

AllInstalled == \A l \in Libraries : library[l] = "installed"

\* Only the libraries are looked at, not the cluster they are installed on.
AwaitLibraries ==
  /\ at = "awaitLibraries"
  /\ \/ (\A l \in Libraries : library[l] # "failed") /\ AllInstalled /\ Goto("upload")
     \/ (\E l \in Libraries : library[l] = "failed") /\ Goto("abandon")
  /\ UNCHANGED <<calls, consecutive, recorded, clusterVars, runs, history>>

\* A poll of the cluster or of its libraries is answered with an error status.
PollRaises ==
  /\ at \in {"awaitCluster", "awaitLibraries"}
  /\ Goto("abandon")
  /\ UNCHANGED <<calls, consecutive, recorded, clusterVars, runs, history>>

UploadNotebook ==
  /\ at = "upload"
  /\ \/ notebook' = "uploaded" /\ Goto("submit")
     \/ UNCHANGED notebook /\ Goto("abandon")
  /\ UNCHANGED <<calls, consecutive, recorded, cluster, library, runs, history>>

-----------------------------------------------------------------------------
(***************************************************************************)
(* The monitored calls, submit_to_existing_cluster, and the loop around    *)
(* them: one call after another until the ceiling, the cap on the window   *)
(* or a streak of failures (the Monitor module has the loop in detail).    *)
(***************************************************************************)

LastCall(c) == c = Calls

\* A mistake: a failing warmup call is passed over like a timed one.
StreakOnly(c, streak) == LastCall(c) \/ streak = MaxConsecutive

\* No timed call follows a warmup call that raised.
MustStop(c, streak) ==
  \/ LastCall(c)
  \/ streak = MaxConsecutive
  \/ c <= Warmups /\ streak > 0

\* Call c returned or raised, "streak" raises in a row.  The caps on the window and
\* on a warmup call may end the loop after any call; saving the sample may raise.
EndCall(c, streak) ==
  /\ consecutive' = streak
  /\ \/ ~MustStop(c, streak) /\ Goto("submit")
     \/ Goto("record")
     \/ Goto("terminate")

\* It raises knowing that its run has ended, or without knowing it.
CallRaises(c)   == EndCall(c, consecutive + 1) /\ UNCHANGED <<recorded, abandoned>>
CallAbandons(c) == EndCall(c, consecutive + 1) /\ abandoned' = abandoned \cup {c}
                   /\ UNCHANGED recorded
CallReturns(c)  == EndCall(c, 0) /\ recorded' = recorded \cup {c} /\ UNCHANGED abandoned

\* runs/submit.  A cluster that is gone fails the run at once.  When only the reply
\* is lost, the call raises and leaves a run that nobody waits for.
SubmitRun ==
  /\ at = "submit"
  /\ calls' = calls + 1
  /\ \/ /\ runs' = [runs EXCEPT ![calls + 1] =
                       IF cluster = "running" THEN "active" ELSE "failed"]
        /\ \/ Goto("awaitRun") /\ UNCHANGED <<consecutive, recorded, abandoned>>
           \/ CallAbandons(calls + 1)
     \/ UNCHANGED runs /\ CallRaises(calls + 1)
  /\ UNCHANGED <<clusterVars, faults>>

\* A mistake: the client takes a run that is still active for a failed one.
AwaitRunOnce ==
  /\ at = "awaitRun"
  /\ \/ /\ runs[calls] = "succeeded" /\ Goto("fetch")
        /\ UNCHANGED <<consecutive, recorded, abandoned>>
     \/ CallRaises(calls)
  /\ UNCHANGED <<calls, clusterVars, runs, faults>>

\* A mistake: the terminal states of a failed run are not known.
AwaitSuccess ==
  /\ at = "awaitRun"
  /\ runs[calls] = "succeeded" /\ Goto("fetch")
  /\ UNCHANGED <<calls, consecutive, recorded, clusterVars, runs, history>>

AwaitRun ==
  /\ at = "awaitRun"
  /\ \/ /\ runs[calls] = "succeeded" /\ Goto("fetch")
        /\ UNCHANGED <<consecutive, recorded, abandoned>>
     \/ runs[calls] = "failed" /\ CallRaises(calls)
  /\ UNCHANGED <<calls, clusterVars, runs, faults>>

\* _wait_for_run does not retry an error status: it raises with the run still active.
RunPollRaises ==
  /\ at = "awaitRun"
  /\ CallAbandons(calls)
  /\ UNCHANGED <<calls, clusterVars, runs, faults>>

\* _fetch_notebook_output: a failing request and an unusable payload raise alike.
FetchOutput ==
  /\ at = "fetch"
  /\ CallReturns(calls) \/ CallRaises(calls)
  /\ UNCHANGED <<calls, clusterVars, runs, faults>>

\* A mistake: terminate_cluster is not in a finally block.
RecordWithoutFinally ==
  /\ at = "record"
  /\ Goto("terminate") \/ Goto("ended")
  /\ UNCHANGED <<calls, consecutive, recorded, clusterVars, runs, history>>

\* The metadata row and the cost rows, which change nothing here; the finally block
\* comes next whether or not saving them raises.
RecordOutcome ==
  /\ at = "record"
  /\ Goto("terminate")
  /\ UNCHANGED <<calls, consecutive, recorded, clusterVars, runs, history>>

\* terminate_cluster, in the finally block or in create_cluster's handler.
TerminateCluster ==
  /\ at \in {"terminate", "abandon"}
  /\ \/ cluster' = "deleted" /\ RunsAbort /\ UNCHANGED faults
     \/ UNCHANGED <<cluster, runs>> /\ Happened("failedDelete")
  /\ Goto("ended")
  /\ UNCHANGED <<calls, consecutive, recorded, library, notebook, abandoned>>

-----------------------------------------------------------------------------
(***************************************************************************)
(* The environment.                                                        *)
(***************************************************************************)

Killed ==
  /\ at \notin {"ended", "killed"}
  /\ Goto("killed")
  /\ UNCHANGED <<calls, consecutive, recorded, clusterVars, runs, history>>

\* A cluster may fail to start, for want of quota for instance.
ClusterStarts ==
  /\ cluster = "pending"
  /\ cluster' \in {"running", "terminated"}
  /\ UNCHANGED <<clientVars, library, notebook, runs, history>>

ClusterDies ==
  /\ cluster = "running"
  /\ cluster' = "terminated"
  /\ RunsAbort
  /\ Happened("clusterDied")
  /\ UNCHANGED <<clientVars, library, notebook, abandoned>>

LibraryInstalls(l) ==
  /\ cluster = "running" /\ library[l] = "pending"
  /\ \E status \in {"installed", "failed"} : library' = [library EXCEPT ![l] = status]
  /\ UNCHANGED <<clientVars, cluster, notebook, runs, history>>

RunEnds(c) ==
  /\ runs[c] = "active"
  /\ \E state \in {"succeeded", "failed"} : runs' = [runs EXCEPT ![c] = state]
  /\ UNCHANGED <<clientVars, clusterVars, history>>

Init ==
  /\ at = "create" /\ calls = 0 /\ consecutive = 0 /\ recorded = {}
  /\ cluster = "none" /\ notebook = "none"
  /\ library = [l \in Libraries |-> "none"]
  /\ runs = [c \in 1 .. Calls |-> "none"]
  /\ abandoned = {} /\ faults = {}

\* What the process does as long as its polls are answered.
Client ==
  \/ CreateCluster \/ InstallLibraries \/ AwaitCluster \/ AwaitLibraries \/ UploadNotebook
  \/ SubmitRun \/ AwaitRun \/ FetchOutput \/ RecordOutcome
  \/ TerminateCluster

Databricks ==
  \/ ClusterStarts \/ ClusterDies
  \/ \E l \in Libraries : LibraryInstalls(l)
  \/ \E c \in 1 .. Calls : RunEnds(c)

Next == Client \/ PollRaises \/ RunPollRaises \/ Databricks \/ Killed

Spec == Init /\ [][Next]_vars

\* The process runs, a poll is answered in the end, a cluster that is asked for
\* starts or fails, libraries and runs end.  Clusters need not die, nor processes, and
\* no poll has to be answered with an error.
Fairness ==
  /\ WF_vars(Client)
  /\ WF_vars(ClusterStarts)
  /\ \A l \in Libraries : WF_vars(LibraryInstalls(l))
  /\ \A c \in 1 .. Calls : WF_vars(RunEnds(c))

FairSpec == Spec /\ Fairness

-----------------------------------------------------------------------------
(***************************************************************************)
(* Properties                                                              *)
(***************************************************************************)

\* Every variable stays in its domain.
TypeOK ==
  /\ at \in {"create", "install", "awaitCluster", "awaitLibraries", "upload", "submit",
             "awaitRun", "fetch", "record", "terminate", "abandon", "ended", "killed"}
  /\ calls \in 0 .. Calls
  /\ consecutive \in 0 .. MaxConsecutive
  /\ recorded \subseteq 1 .. Calls
  /\ cluster \in {"none", "pending", "running", "terminated", "deleted"}
  /\ library \in [Libraries -> {"none", "pending", "installed", "failed"}]
  /\ notebook \in {"none", "uploaded"}
  /\ runs \in [1 .. Calls -> {"none", "active", "succeeded", "failed"}]
  /\ abandoned \subseteq 1 .. Calls
  /\ faults \subseteq {"lostCreate", "failedDelete", "clusterDied"}

\* submit_to_existing_cluster blocks until the run has ended, so that measured runs
\* never share the cluster: a run that is active and not waited for is that of a call
\* which raised before the run's end was known, by a lost reply or a poll that was
\* answered with an error - unless the process was killed.
OnlyAbandonedRunsOverlap ==
  at # "killed" =>
    \A c \in ActiveRuns : (at = "awaitRun" /\ c = calls) \/ c \in abandoned

\* A cluster survives the process only because its id never arrived, or because its
\* deletion failed.
Unreachable == {"lostCreate", "failedDelete"} \cap faults # {}

\* README.md:276-277: the cluster "is torn down even if the benchmark raises", and
\* databricks_service_interface.py:28-29: a "partially-provisioned cluster is
\* terminated before the exception propagates".
NoOrphan == at = "ended" /\ ~Unreachable => cluster \notin Alive

\* A notebook run is only ever submitted to a cluster on which all libraries were
\* installed and after the notebook was uploaded.
ReadyBeforeRun ==
  \A c \in 1 .. Calls :
    runs[c] # "none" => notebook = "uploaded" /\ \A l \in Libraries : library[l] = "installed"

\* README.md:274-275: "Subsequent iterations see warm executors".  A recorded result
\* is that of a run that succeeded, and when it is a timed one every warmup call
\* had succeeded on the same cluster before.
TimedOnWarmCluster ==
  \A c \in recorded :
    /\ runs[c] = "succeeded"
    /\ c > Warmups => 1 .. Warmups \subseteq recorded

\* A cluster that was created does not stay alive: it is deleted, or dies, unless
\* nobody can delete it any more.
EveryClusterTornDown ==
  cluster \in Alive ~> cluster \notin Alive \/ Unreachable \/ at = "killed"

\* The process comes to an end, unless its cluster dies: the libraries of a dead
\* cluster may stay pending, which is polled for ever.
ProcessEnds == <>(at \in {"ended", "killed"} \/ "clusterDied" \in faults)
=============================================================================
