---------------------------- MODULE Orchestrator ----------------------------
(***************************************************************************)
(* The suite orchestrator, main.py.  The main thread works through the     *)
(* experiments of a benchmark run in shuffled order; each not yet          *)
(* completed experiment is launched together with its related ones, one    *)
(* pool thread per experiment, and the pool is joined before the next.     *)
(* A thread deletes the container group of its experiment, creates it      *)
(* anew with az, polls it until it ends and deletes it again.              *)
(*                                                                         *)
(* Azure is the environment: a container runs and ends by itself, and any  *)
(* az command may fail after the retries _run_cmd makes: a show although   *)
(* the group exists, a delete with or without effect, a create before or   *)
(* after Azure accepted it.                                                *)
(* Only the thread of an experiment (or the main thread while no pool is   *)
(* open) touches its container group, so "show, then delete" is one step.  *)
(***************************************************************************)
EXTENDS Integers, FiniteSets

CONSTANTS
  Experiments,  \* ids in benchmarks.yml
  Related,      \* related_script_ids of each experiment
  RunsLimit,    \* "runs" of each experiment, BENCHMARK_RUNS by default
  Runs,         \* Config.BENCHMARK_RUNS
  Leftover,     \* experiments whose group an earlier suite may have left behind
  MaxWorkers    \* max_workers of the pool

ASSUME OrchestratorAssumption ==
  /\ IsFiniteSet(Experiments)
  /\ Related \in [Experiments -> SUBSET Experiments]
  /\ RunsLimit \in [Experiments -> Nat]
  /\ Runs \in Nat \ {0}
  /\ Leftover \subseteq Experiments
  /\ MaxWorkers \in Nat \ {0}

BatchOf(e) == {e} \cup Related[e]

\* What benchmarks.yml satisfies and main.py relies on without checking it: the
\* related_script_ids make disjoint groups of experiments that name each other,
\* none names itself, and the members of a group have the same "runs".
ASSUME BatchesAreGroups ==
  \A e \in Experiments :
    /\ e \notin Related[e]
    /\ \A f \in Related[e] : BatchOf(f) = BatchOf(e) /\ RunsLimit[f] = RunsLimit[e]

VARIABLES
  run,        \* benchmark_run
  main,       \* where the main thread is
  toClear,    \* groups _clear_all_container_instances has still to delete
  remaining,  \* experiments of the shuffled list not yet visited
  completed,  \* completed_experiments
  batch,      \* experiments_to_run of the present or last batch
  worker,     \* where the pool thread of each experiment is
  result,     \* whether the thread's work raised
  group,      \* state of each container group in Azure
  origin,     \* benchmark run of the command the group last executed, 0 for none
  launched,   \* history: batches of this run an experiment was launched in
  misreported \* history: groups az last gave a wrong answer about

mainVars   == <<run, main, toClear, remaining, completed, batch>>
workerVars == <<worker, result>>
azureVars  == <<group, origin, misreported>>
vars == <<mainVars, workerVars, azureVars, launched>>

-----------------------------------------------------------------------------
(***************************************************************************)
(* Azure container groups.                                                 *)
(***************************************************************************)

GroupStates == {"absent", "running", "succeeded", "failed"}

\* What az says about a group is wrong when a "show" fails on a group that exists,
\* or a "create" fails that Azure accepted.  _run_cmd makes up to three attempts; those
\* of a "show" or a "delete" are one step, as repeating them changes nothing.
Misreport(e) == misreported' = misreported \cup {e}

Truthful(e) == misreported' = misreported \ {e}

\* _container_exists: any failing "show" counts as "does not exist".
SeenMissing(e) == IF group[e] = "absent" THEN Truthful(e) ELSE Misreport(e)

\* _delete_container_instance finds nothing to delete.
DeleteSkipped(e) == SeenMissing(e) /\ UNCHANGED <<group, origin>>

DeleteDone(e) ==
  /\ group[e] # "absent"
  /\ group' = [group EXCEPT ![e] = "absent"]
  /\ Truthful(e)
  /\ UNCHANGED origin

\* The deletion fails; it may have been accepted.
DeleteRaises(e) ==
  /\ group[e] # "absent"
  /\ group' \in {group, [group EXCEPT ![e] = "absent"]}
  /\ UNCHANGED <<origin, misreported>>

\* The container of a group ends by itself (restart policy Never).
ContainerEnds(e) ==
  /\ group[e] = "running"
  /\ \E state \in {"succeeded", "failed"} : group' = [group EXCEPT ![e] = state]
  /\ UNCHANGED <<mainVars, workerVars, origin, launched, misreported>>

-----------------------------------------------------------------------------
(***************************************************************************)
(* A pool thread: _safe_run around _run_container_benchmark.               *)
(***************************************************************************)

Active == {e \in Experiments : worker[e] \notin {"idle", "queued", "ended"}}

Goto(e, label) == worker' = [worker EXCEPT ![e] = label]

\* The thread ends; _safe_run swallows what was raised.
EndWith(e, outcome) ==
  /\ Goto(e, "ended")
  /\ result' = [result EXCEPT ![e] = outcome]

TakeWork(e) ==
  /\ worker[e] = "queued"
  /\ Cardinality(Active) < MaxWorkers
  /\ Goto(e, "delete")
  /\ UNCHANGED <<mainVars, result, azureVars, launched>>

DeleteOld(e) ==
  /\ worker[e] = "delete"
  /\ \/ (DeleteSkipped(e) \/ DeleteDone(e)) /\ Goto(e, "create") /\ UNCHANGED result
     \/ DeleteRaises(e) /\ EndWith(e, "failed")
  /\ UNCHANGED <<mainVars, launched>>

\* The group starts, or is replaced if it exists.
Start(e) ==
  /\ group' = [group EXCEPT ![e] = "running"]
  /\ origin' = [origin EXCEPT ![e] = run]

\* A mistake: a failing create is polled like an accepted one.
CreateSoftly(e) ==
  /\ worker[e] = "create"
  /\ \/ Start(e) /\ Truthful(e)
     \/ UNCHANGED azureVars
  /\ Goto(e, "poll") /\ UNCHANGED result
  /\ UNCHANGED <<mainVars, launched>>

\* _run_cmd: the connection breaks after Azure accepted the command, which is then
\* sent again.  The group may run before, and be replaced by, the next attempt.
CreateRepeats(e) ==
  /\ worker[e] = "create"
  /\ Start(e) /\ Misreport(e)
  /\ UNCHANGED <<mainVars, workerVars, launched>>

\* az container create --no-wait is called before the try block: when it raises,
\* nothing deletes what it may have created.
Create(e) ==
  /\ worker[e] = "create"
  /\ \/ Start(e) /\ Truthful(e) /\ Goto(e, "poll") /\ UNCHANGED result
     \/ Start(e) /\ Misreport(e) /\ EndWith(e, "failed")
     \/ UNCHANGED azureVars /\ EndWith(e, "failed")
  /\ UNCHANGED <<mainVars, launched>>

\* A mistake: the poll loop does not know the "Failed" state.
PollForSuccess(e) ==
  /\ worker[e] = "poll"
  /\ group[e] = "succeeded"
  /\ result' = [result EXCEPT ![e] = "ok"]
  /\ Goto(e, "cleanup")
  /\ UNCHANGED <<mainVars, azureVars, launched>>

\* _check_container_state polls for ever while the container is running; its
\* outcome is kept while the finally block deletes the group.
Poll(e) ==
  /\ worker[e] = "poll"
  /\ \/ /\ group[e] = "succeeded"
        /\ result' = [result EXCEPT ![e] = "ok"]
     \/ /\ group[e] \in {"failed", "absent"}
        /\ result' = [result EXCEPT ![e] = "failed"]
  /\ Truthful(e)
  /\ Goto(e, "cleanup")
  /\ UNCHANGED <<mainVars, group, origin, launched>>

\* A failing "show" is taken for a failure of the container.
PollRaises(e) ==
  /\ worker[e] = "poll" /\ group[e] # "absent"
  /\ Misreport(e)
  /\ result' = [result EXCEPT ![e] = "failed"]
  /\ Goto(e, "cleanup")
  /\ UNCHANGED <<mainVars, group, origin, launched>>

Cleanup(e) ==
  /\ worker[e] = "cleanup"
  /\ \/ (DeleteSkipped(e) \/ DeleteDone(e)) /\ Goto(e, "ended") /\ UNCHANGED result
     \/ DeleteRaises(e) /\ EndWith(e, "failed")
  /\ UNCHANGED <<mainVars, launched>>

\* What a thread does as long as its polls are answered.
Thread(e) == TakeWork(e) \/ DeleteOld(e) \/ Create(e) \/ Poll(e) \/ Cleanup(e)

-----------------------------------------------------------------------------
(***************************************************************************)
(* The main thread.                                                        *)
(***************************************************************************)

\* _clear_all_container_instances, before the first batch ("clear") and after
\* the last one ("sweep") of every run; the order of the groups is immaterial.
ClearGroup(e) ==
  /\ main \in {"clear", "sweep"}
  /\ e \in toClear
  /\ DeleteSkipped(e) \/ DeleteDone(e)
  /\ toClear' = toClear \ {e}
  /\ UNCHANGED <<run, main, remaining, completed, batch, workerVars, launched>>

\* Nothing catches an az failure here: the whole suite ends.
ClearRaises(e) ==
  /\ main \in {"clear", "sweep"}
  /\ e \in toClear
  /\ DeleteRaises(e)
  /\ main' = "aborted"
  /\ UNCHANGED <<run, toClear, remaining, completed, batch, workerVars, launched>>

EnterLoop ==
  /\ main = "clear" /\ toClear = {}
  /\ main' = "loop"
  /\ UNCHANGED <<run, toClear, remaining, completed, batch, workerVars, azureVars, launched>>

\* The next experiment of the shuffled list has been completed already.
SkipCompleted(e) ==
  /\ main = "loop" /\ e \in remaining
  /\ e \in completed
  /\ remaining' = remaining \ {e}
  /\ UNCHANGED <<run, main, toClear, completed, batch, workerVars, azureVars, launched>>

SkipBeyondLimit(e) ==
  /\ main = "loop" /\ e \in remaining
  /\ e \notin completed
  /\ run > RunsLimit[e]
  /\ remaining' = remaining \ {e}
  /\ completed' = completed \cup BatchOf(e)
  /\ UNCHANGED <<run, main, toClear, batch, workerVars, azureVars, launched>>

\* The pool is opened on the experiment and its related ones.
LaunchBatch(e) ==
  /\ main = "loop" /\ e \in remaining
  /\ e \notin completed
  /\ run <= RunsLimit[e]
  /\ remaining' = remaining \ {e}
  /\ batch' = BatchOf(e)
  /\ main' = "batch"
  /\ worker' = [f \in Experiments |-> IF f \in BatchOf(e) THEN "queued" ELSE worker[f]]
  /\ result' = [f \in Experiments |-> IF f \in BatchOf(e) THEN "none" ELSE result[f]]
  /\ launched' = [f \in Experiments |->
                    IF f \in BatchOf(e) THEN launched[f] + 1 ELSE launched[f]]
  /\ UNCHANGED <<run, toClear, completed, azureVars>>

\* A mistake: the pool is left before its threads have ended.
BatchEndsEarly == \E e \in batch : worker[e] = "ended"

BatchEnded == \A e \in batch : worker[e] = "ended"

\* A mistake: a failed member is left to be launched again.
CompletedIfOk == {e \in batch : result[e] = "ok"}

\* Every member counts as completed, also one that failed.
CompletedByBatch == batch

JoinBatch ==
  /\ main = "batch"
  /\ BatchEnded
  /\ completed' = completed \cup CompletedByBatch
  /\ main' = "loop"
  /\ UNCHANGED <<run, toClear, remaining, batch, workerVars, azureVars, launched>>

\* A mistake: the groups of completed experiments are taken to be gone.
UnfinishedGroups == Experiments \ completed

GroupsToClear == Experiments

LeaveLoop ==
  /\ main = "loop" /\ remaining = {}
  /\ main' = "sweep"
  /\ toClear' = GroupsToClear
  /\ UNCHANGED <<run, remaining, completed, batch, workerVars, azureVars, launched>>

MoreRuns == run < Runs

EndRun ==
  /\ main = "sweep" /\ toClear = {}
  /\ IF MoreRuns
     THEN /\ run' = run + 1
          /\ main' = "clear"
          /\ toClear' = Experiments /\ remaining' = Experiments
          /\ completed' = {} /\ batch' = {}
          /\ launched' = [e \in Experiments |-> 0]
     ELSE /\ main' = "done"
          /\ UNCHANGED <<run, toClear, remaining, completed, batch, launched>>
  /\ UNCHANGED <<workerVars, azureVars>>

Init ==
  /\ run = 1 /\ main = "clear"
  /\ toClear = Experiments /\ remaining = Experiments
  /\ completed = {} /\ batch = {}
  /\ worker = [e \in Experiments |-> "idle"]
  /\ result = [e \in Experiments |-> "none"]
  /\ group \in [Experiments -> GroupStates]
  /\ \A e \in Experiments \ Leftover : group[e] = "absent"
  /\ origin = [e \in Experiments |-> 0]
  /\ launched = [e \in Experiments |-> 0]
  /\ misreported = {}

Main ==
  \/ \E e \in Experiments :
       \/ ClearGroup(e) \/ ClearRaises(e)
       \/ SkipCompleted(e) \/ SkipBeyondLimit(e) \/ LaunchBatch(e)
  \/ EnterLoop
  \/ JoinBatch
  \/ LeaveLoop
  \/ EndRun

Next ==
  \/ Main
  \/ \E e \in Experiments : Thread(e) \/ CreateRepeats(e) \/ PollRaises(e) \/ ContainerEnds(e)

Spec == Init /\ [][Next]_vars

\* The main thread and the pool threads keep running while their calls are answered.
\* Nothing promises that a container ever ends.
Fairness == WF_vars(Main) /\ \A e \in Experiments : WF_vars(Thread(e))

FairSpec == Spec /\ Fairness

-----------------------------------------------------------------------------
(***************************************************************************)
(* Properties                                                              *)
(***************************************************************************)

\* Every variable stays in its domain.
TypeOK ==
  /\ run \in 1 .. Runs
  /\ main \in {"clear", "loop", "batch", "sweep", "done", "aborted"}
  /\ toClear \subseteq Experiments /\ remaining \subseteq Experiments
  /\ completed \subseteq Experiments /\ batch \subseteq Experiments
  /\ worker \in [Experiments ->
       {"idle", "queued", "delete", "create", "poll", "cleanup", "ended"}]
  /\ result \in [Experiments -> {"none", "ok", "failed"}]
  /\ group \in [Experiments -> GroupStates]
  /\ origin \in [Experiments -> 0 .. Runs]
  /\ launched \in [Experiments -> Nat]
  /\ misreported \subseteq Experiments

\* In one benchmark run an experiment is launched at most once, and when the
\* run is over every experiment has been launched exactly as often as its
\* "runs" limit asks for - whatever fails and in whatever order the shuffled
\* list and the batches cross.
LaunchedOncePerRun ==
  \A e \in Experiments :
    /\ launched[e] <= 1
    /\ main \in {"sweep", "done"} => (launched[e] = 1 <=> run <= RunsLimit[e])

\* README.md:299-300: "At any moment one batch is in flight": a container outside
\* the present batch runs only if az was last wrong about its group - a create
\* that failed after it was accepted, a show that failed - whatever else fails.
OneBatchInFlight ==
  main = "batch" =>
    \A e \in Experiments \ batch : group[e] = "running" => e \in misreported

\* main.py:26: the suite "cleans up container groups before and after": a group is
\* left before the first or after the last batch only if az was last wrong about it.
CleanedUp ==
  main = "done" \/ (main = "loop" /\ remaining = Experiments) =>
    \A e \in Experiments : group[e] # "absent" => e \in misreported

\* An experiment counts as successful only when the container that was seen to
\* succeed executed the command of this benchmark run, never on the strength of
\* a group that an earlier run left behind.
SuccessIsOfThisRun ==
  \A e \in batch : main = "batch" /\ result[e] = "ok" => origin[e] = run

\* The suite ends, completed or aborted by a failing clean-up, unless a thread polls for
\* ever (main.py:464) a container that never ends: no other failure and no order of the
\* batches keeps it waiting.
SuiteEnds ==
  \/ <>(main \in {"done", "aborted"})
  \/ \E e \in Experiments : <>[](worker[e] = "poll" /\ group[e] = "running")

\* The orchestrator implements the abstract schedule of batches.
Schedule == INSTANCE BatchSchedule WITH
  pending  <- Experiments \ (completed \cup (IF main = "batch" THEN batch ELSE {})),
  inFlight <- IF main = "batch" THEN batch ELSE {}

ImplementsSchedule == Schedule!Spec
=============================================================================
