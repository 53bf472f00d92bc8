------------------------ MODULE OrchestratorProofs ------------------------
(***************************************************************************)
(* Proofs about the orchestrator, for every benchmarks.yml whose related   *)
(* ids form groups, every pool size and every failure of az; first by      *)
(* itself, then with the processes its containers run (BenchmarkSuite):    *)
(* what a success stands for, that the containers use the table of         *)
(* metadata as MetadataStore says, and what its theorems say of a suite.   *)
(***************************************************************************)
EXTENDS BenchmarkSuite, TLAPS

InFlight == IF main = "batch" THEN batch ELSE {}

\* Only the threads of the present batch are at work.
ThreadsInv ==
  \A e \in Experiments :
    worker[e] \notin {"idle", "ended"} => main = "batch" /\ e \in batch

\* How far the main thread is, by its label.
PhaseInv ==
  /\ main = "clear" => completed = {} /\ remaining = Experiments
  /\ Experiments \ remaining \subseteq completed \cup InFlight
  /\ main \in {"sweep", "done"} => remaining = {}

\* Groups are completed as a whole, and the present batch is a group.
GroupInv ==
  /\ \A e \in completed : BatchOf(e) \subseteq completed
  /\ main = "batch" =>
       /\ batch \cap completed = {}
       /\ batch # {}
       /\ \A e \in batch : batch = BatchOf(e) /\ run <= RunsLimit[e]
       /\ batch \ remaining # {}

\* What has been launched in this run.
LaunchInv ==
  \A e \in Experiments :
    launched[e] = IF e \in completed \cup InFlight /\ run <= RunsLimit[e] THEN 1 ELSE 0

\* A thread that polls, or has seen success, does so on its own container; success is
\* seen by polls only.
SuccessInv ==
  main = "batch" =>
    \A e \in batch :
      /\ worker[e] = "poll" \/ result[e] = "ok" => origin[e] = run
      /\ result[e] = "ok" => worker[e] \in {"cleanup", "ended"}

\* Clearing leaves only groups az was last wrong about.
ClearInv ==
  /\ main \in {"clear", "sweep"} =>
       \A e \in Experiments : group[e] # "absent" => e \in toClear \cup misreported
  /\ main = "done" \/ (main = "loop" /\ remaining = Experiments) =>
       \A e \in Experiments : group[e] # "absent" => e \in misreported

\* Once the run has begun, every other running container has a thread that polls it.
RunningInv ==
  main \in {"loop", "batch"} =>
    \A e \in Experiments :
      group[e] = "running" => worker[e] = "poll" \/ e \in misreported

IInv ==
  /\ TypeOK /\ ThreadsInv /\ PhaseInv /\ GroupInv /\ LaunchInv
  /\ SuccessInv /\ ClearInv /\ RunningInv

-----------------------------------------------------------------------------
\* A group none of whose members is completed, seen from an experiment that is not.
LEMMA GroupPending ==
  ASSUME NEW done, done \subseteq Experiments,
         \A f \in done : BatchOf(f) \subseteq done,
         NEW e \in Experiments, e \notin done
  PROVE  /\ BatchOf(e) \subseteq Experiments
         /\ BatchOf(e) \cap done = {}
         /\ \A f \in BatchOf(e) : BatchOf(f) = BatchOf(e) /\ RunsLimit[f] = RunsLimit[e]
<1>1. BatchOf(e) \subseteq Experiments
  BY OrchestratorAssumption DEF BatchOf
<1>2. \A f \in BatchOf(e) : BatchOf(f) = BatchOf(e) /\ RunsLimit[f] = RunsLimit[e]
  BY BatchesAreGroups DEF BatchOf
<1>3. e \in BatchOf(e)
  BY DEF BatchOf
<1> QED BY <1>1, <1>2, <1>3

\* At first no batch has begun.
LEMMA Initially == Init => IInv
<1> SUFFICES ASSUME Init PROVE IInv
  OBVIOUS
<1> USE OrchestratorAssumption DEF Init
<1>1. TypeOK
  BY DEF TypeOK, GroupStates
<1>2. ThreadsInv /\ PhaseInv /\ GroupInv /\ LaunchInv
  BY DEF ThreadsInv, PhaseInv, GroupInv, LaunchInv, InFlight
<1>3. SuccessInv /\ ClearInv /\ RunningInv
  BY DEF SuccessInv, ClearInv, RunningInv
<1> QED BY <1>1, <1>2, <1>3 DEF IInv

-----------------------------------------------------------------------------
(***************************************************************************)
(* Preservation: the threads and Azure first, then the main thread.        *)
(***************************************************************************)

\* What every step of a thread or of a container leaves alone.
LEMMA MainPartPreserved ==
  ASSUME IInv, UNCHANGED <<mainVars, launched>>
  PROVE  PhaseInv' /\ GroupInv' /\ LaunchInv'
BY DEF IInv, mainVars, PhaseInv, GroupInv, LaunchInv, InFlight, BatchOf

\* The threads of a batch work on its own groups only.
LEMMA ThreadPreserves ==
  ASSUME IInv, NEW e \in Experiments, Thread(e) \/ CreateRepeats(e) \/ PollRaises(e)
  PROVE  IInv'
<1> USE DEF IInv, mainVars, workerVars, azureVars, Goto, EndWith
<1>1. UNCHANGED <<mainVars, launched>>
  BY DEF Thread, TakeWork, DeleteOld, Create, CreateRepeats, Poll, PollRaises, Cleanup
<1>2. PhaseInv' /\ GroupInv' /\ LaunchInv'
  BY <1>1, MainPartPreserved
<1>3. main = "batch" /\ e \in batch
  BY DEF Thread, TakeWork, DeleteOld, Create, CreateRepeats, Poll, PollRaises, Cleanup,
         ThreadsInv, TypeOK
<1>4. CASE TakeWork(e)
  <2>1. TypeOK' /\ ThreadsInv'
    BY <1>3, <1>4 DEF TakeWork, TypeOK, ThreadsInv
  <2>2. SuccessInv' /\ ClearInv' /\ RunningInv'
    BY <1>3, <1>4 DEF TakeWork, TypeOK, SuccessInv, ClearInv, RunningInv
  <2> QED BY <1>2, <2>1, <2>2
<1>5. CASE DeleteOld(e) \/ Cleanup(e)
  <2> USE DEF DeleteOld, Cleanup, DeleteSkipped, DeleteDone, DeleteRaises,
               SeenMissing, Truthful, Misreport
  <2>1. TypeOK'
    BY <1>3, <1>5 DEF TypeOK, GroupStates
  <2>2. ThreadsInv'
    BY <1>3, <1>5 DEF TypeOK, ThreadsInv
  <2>3. SuccessInv'
    BY <1>3, <1>5 DEF TypeOK, SuccessInv
  <2>4. ClearInv' 
    BY <1>3, <1>5 DEF TypeOK, ClearInv
  <2>5. RunningInv'
    BY <1>3, <1>5 DEF TypeOK, RunningInv
  <2> QED BY <1>2, <2>1, <2>2, <2>3, <2>4, <2>5
<1>6. CASE Create(e) \/ CreateRepeats(e)
  <2> USE DEF Create, CreateRepeats, Start, Truthful, Misreport
  <2>1. TypeOK'
    BY <1>3, <1>6 DEF TypeOK, GroupStates
  <2>2. ThreadsInv'
    BY <1>3, <1>6 DEF TypeOK, ThreadsInv
  <2>3. SuccessInv'
    BY <1>3, <1>6 DEF TypeOK, SuccessInv
  <2>4. ClearInv' 
    BY <1>3, <1>6 DEF TypeOK, ClearInv
  <2>5. RunningInv'
    BY <1>3, <1>6 DEF TypeOK, RunningInv
  <2> QED BY <1>2, <2>1, <2>2, <2>3, <2>4, <2>5
<1>7. CASE Poll(e) \/ PollRaises(e)
  <2> USE DEF Poll, PollRaises, Truthful, Misreport
  <2>1. TypeOK' /\ ThreadsInv'
    BY <1>3, <1>7 DEF TypeOK, ThreadsInv
  <2>2. SuccessInv' /\ ClearInv' /\ RunningInv'
    BY <1>3, <1>7 DEF TypeOK, SuccessInv, ClearInv, RunningInv
  <2> QED BY <1>2, <2>1, <2>2
<1> QED BY <1>4, <1>5, <1>6, <1>7 DEF Thread

\* A container that ends leaves the main thread and the others alone.
LEMMA ContainerPreserves ==
  ASSUME IInv, NEW e \in Experiments, ContainerEnds(e)
  PROVE  IInv'
<1> USE DEF IInv, ContainerEnds, mainVars, workerVars
<1>1. PhaseInv' /\ GroupInv' /\ LaunchInv'
  BY MainPartPreserved
<1>2. TypeOK' /\ ThreadsInv'
  BY DEF TypeOK, GroupStates, ThreadsInv
<1>3. SuccessInv' /\ ClearInv' /\ RunningInv'
  BY DEF TypeOK, SuccessInv, ClearInv, RunningInv
<1> QED BY <1>1, <1>2, <1>3

\* The main thread clears, launches, completes and sweeps.
LEMMA MainPreserves ==
  ASSUME IInv, Main
  PROVE  IInv'
<1> USE DEF IInv, mainVars, workerVars, azureVars
<1>1. ASSUME NEW e \in Experiments, ClearGroup(e) \/ ClearRaises(e)
      PROVE  IInv'
  <2> USE DEF ClearGroup, ClearRaises, DeleteSkipped, DeleteDone, DeleteRaises,
               SeenMissing, Truthful, Misreport
  <2>1. TypeOK'
    BY <1>1 DEF TypeOK, GroupStates
  <2>2. ThreadsInv' /\ PhaseInv' /\ GroupInv' /\ LaunchInv'
    BY <1>1 DEF ThreadsInv, PhaseInv, GroupInv, LaunchInv, InFlight, BatchOf
  <2>3. SuccessInv' /\ RunningInv'
    BY <1>1 DEF SuccessInv, RunningInv
  <2>4. ClearInv'
    BY <1>1 DEF ClearInv, TypeOK
  <2> QED BY <2>1, <2>2, <2>3, <2>4
<1>2. ASSUME EnterLoop PROVE IInv'
  <2> USE DEF EnterLoop
  <2>1. TypeOK' /\ ThreadsInv' /\ PhaseInv' /\ GroupInv' /\ LaunchInv'
    BY <1>2 DEF TypeOK, ThreadsInv, PhaseInv, GroupInv, LaunchInv, InFlight, BatchOf
  <2>2. SuccessInv' /\ ClearInv' /\ RunningInv'
    BY <1>2 DEF SuccessInv, ClearInv, RunningInv
  <2> QED BY <2>1, <2>2
<1>3. ASSUME NEW e \in Experiments, SkipCompleted(e) PROVE IInv'
  <2> USE DEF SkipCompleted
  <2>1. TypeOK' /\ ThreadsInv' /\ PhaseInv' /\ GroupInv' /\ LaunchInv'
    BY <1>3 DEF TypeOK, ThreadsInv, PhaseInv, GroupInv, LaunchInv, InFlight, BatchOf
  <2>2. SuccessInv' /\ ClearInv' /\ RunningInv'
    BY <1>3 DEF SuccessInv, ClearInv, RunningInv, TypeOK
  <2> QED BY <2>1, <2>2
<1>4. ASSUME NEW e \in Experiments, SkipBeyondLimit(e) PROVE IInv'
  <2> USE DEF SkipBeyondLimit
  <2>1. /\ BatchOf(e) \subseteq Experiments
        /\ BatchOf(e) \cap completed = {}
        /\ \A f \in BatchOf(e) : BatchOf(f) = BatchOf(e) /\ RunsLimit[f] = RunsLimit[e]
        /\ e \in BatchOf(e)
    BY <1>4, GroupPending DEF TypeOK, GroupInv, BatchOf
  <2>2. TypeOK' /\ ThreadsInv'
    BY <1>4, <2>1 DEF TypeOK, ThreadsInv
  <2>3. PhaseInv'
    BY <1>4, <2>1 DEF PhaseInv, InFlight
  <2>4. GroupInv'
    <3>1. \A f \in completed' : BatchOf(f) \subseteq completed'
      BY <1>4, <2>1 DEF GroupInv
    <3> QED BY <1>4, <3>1 DEF GroupInv, BatchOf
  <2>5. LaunchInv'
    BY <1>4, <2>1, OrchestratorAssumption DEF LaunchInv, InFlight, TypeOK
  <2>6. SuccessInv' /\ ClearInv' /\ RunningInv'
    BY <1>4 DEF SuccessInv, ClearInv, RunningInv, TypeOK
  <2> QED BY <2>2, <2>3, <2>4, <2>5, <2>6
<1>5. ASSUME NEW e \in Experiments, LaunchBatch(e) PROVE IInv'
  <2> USE DEF LaunchBatch
  <2>1. /\ BatchOf(e) \subseteq Experiments
        /\ BatchOf(e) \cap completed = {}
        /\ \A f \in BatchOf(e) : BatchOf(f) = BatchOf(e) /\ RunsLimit[f] = RunsLimit[e]
        /\ e \in BatchOf(e)
    BY <1>5, GroupPending DEF TypeOK, GroupInv, BatchOf
  <2>2. TypeOK'
    BY <1>5, <2>1 DEF TypeOK
  <2>3. ThreadsInv'
    BY <1>5, <2>1 DEF TypeOK, ThreadsInv
  <2>4. PhaseInv'
    BY <1>5, <2>1 DEF PhaseInv, InFlight
  <2>5. GroupInv'
    <3>1. \A f \in completed' : BatchOf(f) \subseteq completed'
      BY <1>5 DEF GroupInv, BatchOf
    <3>2. /\ batch' \cap completed' = {} /\ batch' # {} /\ batch' \ remaining' # {}
          /\ \A f \in batch' : batch' = BatchOf(f) /\ run' <= RunsLimit[f]
      BY <1>5, <2>1
    <3> QED BY <3>1, <3>2 DEF GroupInv, BatchOf
  <2>6. LaunchInv'
    BY <1>5, <2>1, OrchestratorAssumption DEF LaunchInv, InFlight, TypeOK
  <2>7. SuccessInv' /\ ClearInv'
    BY <1>5, <2>1 DEF SuccessInv, ClearInv, TypeOK
  <2>8. RunningInv'
    BY <1>5, <2>1 DEF RunningInv, ThreadsInv, TypeOK
  <2> QED BY <2>2, <2>3, <2>4, <2>5, <2>6, <2>7, <2>8
<1>6. ASSUME JoinBatch PROVE IInv'
  <2> USE DEF JoinBatch, CompletedByBatch
  <2>1. TypeOK' /\ PhaseInv' /\ LaunchInv'
    BY <1>6 DEF TypeOK, PhaseInv, LaunchInv, InFlight
  <2>2. ThreadsInv'
    BY <1>6 DEF BatchEnded, ThreadsInv
  <2>3. GroupInv'
    <3>1. \A f \in completed' : BatchOf(f) \subseteq completed'
      BY <1>6 DEF GroupInv
    <3> QED BY <1>6, <3>1 DEF GroupInv, BatchOf
  <2>4. SuccessInv' /\ ClearInv' /\ RunningInv'
    BY <1>6 DEF SuccessInv, ClearInv, RunningInv, GroupInv, TypeOK
  <2> QED BY <2>1, <2>2, <2>3, <2>4
<1>7. ASSUME LeaveLoop PROVE IInv'
  <2> USE DEF LeaveLoop, GroupsToClear
  <2>1. TypeOK' /\ ThreadsInv' /\ PhaseInv' /\ GroupInv' /\ LaunchInv'
    BY <1>7 DEF TypeOK, ThreadsInv, PhaseInv, GroupInv, LaunchInv, InFlight, BatchOf
  <2>2. SuccessInv' /\ ClearInv' /\ RunningInv'
    BY <1>7 DEF SuccessInv, ClearInv, RunningInv
  <2> QED BY <2>1, <2>2
<1>8. ASSUME EndRun PROVE IInv'
  <2> USE DEF EndRun, MoreRuns
  <2>1. TypeOK'
    BY <1>8, OrchestratorAssumption DEF TypeOK
  <2>2. ThreadsInv' /\ PhaseInv' /\ GroupInv'
    BY <1>8 DEF ThreadsInv, PhaseInv, GroupInv, InFlight, BatchOf
  <2>3. LaunchInv'
    BY <1>8 DEF LaunchInv, InFlight
  <2>4. SuccessInv' /\ ClearInv' /\ RunningInv'
    BY <1>8 DEF SuccessInv, ClearInv, RunningInv
  <2> QED BY <2>1, <2>2, <2>3, <2>4
<1> QED BY <1>1, <1>2, <1>3, <1>4, <1>5, <1>6, <1>7, <1>8 DEF Main

\* Every step keeps the invariant.
LEMMA Preserved == IInv /\ [Next]_vars => IInv'
<1> SUFFICES ASSUME IInv, [Next]_vars PROVE IInv'
  OBVIOUS
<1>1. CASE Next
  BY <1>1, MainPreserves, ThreadPreserves, ContainerPreserves DEF Next
<1>2. CASE UNCHANGED vars
  BY <1>2 DEF vars, mainVars, workerVars, azureVars, IInv, TypeOK, ThreadsInv, PhaseInv,
       GroupInv, LaunchInv, SuccessInv, ClearInv, RunningInv, InFlight, BatchOf
<1> QED BY <1>1, <1>2

\* The invariant of the orchestrator, over every interleaving of threads, containers
\* and az failures.
THEOREM Inductive == Spec => []IInv
BY Initially, Preserved, PTL DEF Spec

-----------------------------------------------------------------------------
\* The types of main.py's state never go wrong.
THEOREM TypeCorrect == Spec => []TypeOK
BY Inductive, PTL DEF IInv

\* No experiment is launched twice in a benchmark run, and none is forgotten,
\* whatever az does and in whatever order the list was shuffled.
THEOREM LaunchedOnce == Spec => []LaunchedOncePerRun
<1>1. IInv => LaunchedOncePerRun
  BY DEF IInv, TypeOK, PhaseInv, LaunchInv, InFlight, LaunchedOncePerRun
<1> QED BY <1>1, Inductive, PTL

\* The success of a batch member is always that of the container which the
\* present benchmark run created.
THEOREM SuccessIsOwn == Spec => []SuccessIsOfThisRun
<1>1. IInv => SuccessIsOfThisRun
  BY DEF IInv, SuccessInv, SuccessIsOfThisRun
<1> QED BY <1>1, Inductive, PTL

\* A container outside the batch in flight runs only if az was last wrong about it.
THEOREM OneBatchAtATime == Spec => []OneBatchInFlight
<1>1. IInv => OneBatchInFlight
  BY DEF IInv, ThreadsInv, RunningInv, OneBatchInFlight
<1> QED BY <1>1, Inductive, PTL

\* A group is left before the first batch or after the last one only if az was last
\* wrong about it.
THEOREM ClearingClears == Spec => []CleanedUp
<1>1. IInv => CleanedUp
  BY DEF IInv, ClearInv, CleanedUp
<1> QED BY <1>1, Inductive, PTL

-----------------------------------------------------------------------------
(***************************************************************************)
(* The orchestrator implements BatchSchedule.                              *)
(***************************************************************************)

\* The orchestrator begins as its schedule does.
LEMMA ScheduleInit == Init => Schedule!Init
BY DEF Init, Schedule!Init

\* The experiments the schedule still has to deal with.
Pending == Experiments \ (completed \cup (IF main = "batch" THEN batch ELSE {}))

\* A visited experiment that is not completed starts a whole pending group.
LEMMA NextGroup ==
  ASSUME IInv, NEW e \in Experiments, main = "loop", e \notin completed
  PROVE  e \in Pending /\ BatchOf(e) \subseteq Pending /\ Schedule!BatchOf(e) = BatchOf(e)
BY GroupPending DEF IInv, TypeOK, GroupInv, Pending, BatchOf, Schedule!BatchOf

\* Every step is one of the schedule, or none of its business.
LEMMA ScheduleStep == IInv /\ [Next]_vars => [Schedule!Next]_Schedule!vars
<1> SUFFICES ASSUME IInv, [Next]_vars PROVE [Schedule!Next]_Schedule!vars
  OBVIOUS
<1> USE DEF Schedule!vars, mainVars, workerVars, azureVars
<1>1. CASE UNCHANGED <<run, main, completed, batch>>
  BY <1>1
<1>2. ASSUME NEW e \in Experiments, SkipBeyondLimit(e) PROVE Schedule!Next
  <2>1. e \in Pending /\ BatchOf(e) \subseteq Pending /\ Schedule!BatchOf(e) = BatchOf(e)
    BY <1>2, NextGroup DEF SkipBeyondLimit
  <2>2. Schedule!PassOver(e)
    BY <1>2, <2>1 DEF SkipBeyondLimit, Schedule!PassOver, Pending
  <2> QED BY <2>1, <2>2 DEF Schedule!Next, Pending
<1>3. ASSUME NEW e \in Experiments, LaunchBatch(e) PROVE Schedule!Next
  <2>1. e \in Pending /\ BatchOf(e) \subseteq Pending /\ Schedule!BatchOf(e) = BatchOf(e)
    BY <1>3, NextGroup DEF LaunchBatch
  <2>2. Schedule!Launch(e)
    BY <1>3, <2>1 DEF LaunchBatch, Schedule!Launch, Pending
  <2> QED BY <2>1, <2>2 DEF Schedule!Next, Pending
<1>4. ASSUME JoinBatch PROVE Schedule!Next
  BY <1>4 DEF JoinBatch, CompletedByBatch, IInv, GroupInv, Schedule!Next, Schedule!Complete
<1>5. ASSUME EndRun, MoreRuns PROVE Schedule!Next
  BY <1>5 DEF EndRun, MoreRuns, IInv, PhaseInv, InFlight, TypeOK,
     Schedule!Next, Schedule!NextRun
<1>6. ASSUME \/ EnterLoop \/ LeaveLoop \/ (EndRun /\ ~MoreRuns)
             \/ \E e \in Experiments :
                  ClearGroup(e) \/ ClearRaises(e) \/ SkipCompleted(e)
      PROVE  UNCHANGED Schedule!vars
  BY <1>6 DEF EnterLoop, LeaveLoop, EndRun, ClearGroup, ClearRaises, SkipCompleted
<1>7. ASSUME NEW e \in Experiments,
             Thread(e) \/ CreateRepeats(e) \/ PollRaises(e) \/ ContainerEnds(e)
      PROVE  UNCHANGED Schedule!vars
  BY <1>7 DEF Thread, TakeWork, DeleteOld, Create, CreateRepeats, Poll, PollRaises, Cleanup,
              ContainerEnds
<1> QED BY <1>1, <1>2, <1>3, <1>4, <1>5, <1>6, <1>7 DEF Next, Main, vars

\* Threads, containers, failing commands and clean-up only ever stutter in the
\* schedule of batches; the main thread's other steps are its steps.
THEOREM Refinement == Spec => ImplementsSchedule
<1>1. Init => Schedule!Init
  BY ScheduleInit
<1>2. IInv /\ [Next]_vars => [Schedule!Next]_Schedule!vars
  BY ScheduleStep
<1> QED BY <1>1, <1>2, Inductive, PTL DEF Spec, ImplementsSchedule, Schedule!Spec

-----------------------------------------------------------------------------
(***************************************************************************)
(* The orchestrator with its containers (BenchmarkSuite): first, which     *)
(* container a group last executed.                                        *)
(***************************************************************************)

\* A group executes a command of this run from the create of its thread on; before, only
\* if a create is being repeated.
OriginInv ==
  \A e \in Experiments :
    /\ origin[e] <= run /\ origin[e] <= RunsLimit[e]
    /\ launched[e] = 0 \/ worker[e] \in {"queued", "delete"} => origin[e] < run
    /\ worker[e] = "create" => origin[e] < run \/ e \in misreported
    /\ worker[e] \in {"poll", "cleanup"} => origin[e] = run
    /\ launched[e] > 0 => worker[e] # "idle"

\* Groups left by earlier suites are of run 0.
LEMMA OriginInitially == Init => OriginInv
BY OrchestratorAssumption DEF Init, OriginInv

\* The start of a container by the thread of its experiment.
Started(e) ==
  /\ worker[e] = "create" /\ main = "batch" /\ e \in batch
  /\ group'[e] = "running" /\ origin'[e] = run

\* A group is of a run that has begun.
LEMMA OriginPreserved == IInv /\ OriginInv /\ [Next]_vars => OriginInv'
<1> SUFFICES ASSUME IInv, OriginInv, [Next]_vars PROVE OriginInv'
  OBVIOUS
<1> USE DEF mainVars, workerVars, azureVars
<1>1. TypeOK /\ ThreadsInv /\ GroupInv /\ LaunchInv
  BY DEF IInv
<1>2. ASSUME NEW e \in Experiments, Thread(e) \/ CreateRepeats(e) \/ PollRaises(e)
      PROVE  OriginInv'
  <2>1. UNCHANGED <<run, launched>> /\ main = "batch" /\ e \in batch
    BY <1>1, <1>2 DEF Thread, TakeWork, DeleteOld, Create, CreateRepeats, Poll, PollRaises,
                      Cleanup, ThreadsInv, TypeOK, Goto, EndWith
  <2>2. run \in Nat /\ run <= RunsLimit[e] /\ launched[e] = 1
    BY <1>1, <2>1 DEF TypeOK, GroupInv, LaunchInv, InFlight
  <2>3. \A f \in Experiments \ {e} : /\ worker'[f] = worker[f] /\ origin'[f] = origin[f]
                                     /\ f \in misreported' <=> f \in misreported
    BY <1>1, <1>2 DEF Thread, TakeWork, DeleteOld, Create, CreateRepeats, Poll, PollRaises,
                      Cleanup, Goto, EndWith, Start, DeleteSkipped, DeleteDone, DeleteRaises,
                      SeenMissing, Truthful, Misreport, TypeOK
  <2>4. /\ origin'[e] <= run /\ origin'[e] <= RunsLimit[e]
        /\ worker'[e] \in {"queued", "delete"} => origin'[e] < run
        /\ worker'[e] = "create" => origin'[e] < run \/ e \in misreported'
        /\ worker'[e] \in {"poll", "cleanup"} => origin'[e] = run
        /\ worker'[e] # "idle"
    <3> USE DEF Goto, EndWith, TypeOK, OriginInv
    <3>1. CASE TakeWork(e)
      BY <1>1, <3>1 DEF TakeWork
    <3>2. CASE DeleteOld(e)
      BY <1>1, <3>2 DEF DeleteOld, DeleteSkipped, DeleteDone, DeleteRaises
    <3>3. CASE Create(e) \/ CreateRepeats(e)
      BY <1>1, <2>2, <3>3 DEF Create, CreateRepeats, Start, Misreport
    <3>4. CASE Poll(e) \/ PollRaises(e)
      BY <1>1, <3>4 DEF Poll, PollRaises
    <3>5. CASE Cleanup(e)
      BY <1>1, <3>5 DEF Cleanup, DeleteSkipped, DeleteDone, DeleteRaises
    <3> QED BY <1>2, <3>1, <3>2, <3>3, <3>4, <3>5 DEF Thread
  <2> QED BY <2>1, <2>2, <2>3, <2>4 DEF OriginInv
<1>3. ASSUME UNCHANGED <<run, launched, worker, origin>>,
             UNCHANGED misreported \/ main # "batch"
      PROVE  OriginInv'
  BY <1>1, <1>3 DEF OriginInv, ThreadsInv
<1>4. ASSUME NEW e \in Experiments, LaunchBatch(e)
      PROVE  OriginInv'
  <2>1. \A f \in BatchOf(e) : f \in Experiments => launched[f] = 0
    BY <1>1, <1>4, GroupPending DEF LaunchBatch, LaunchInv, InFlight, GroupInv, TypeOK
  <2> QED BY <1>1, <1>4, <2>1 DEF LaunchBatch, OriginInv, TypeOK
<1>5. ASSUME EndRun PROVE OriginInv'
  BY <1>1, <1>5, OrchestratorAssumption DEF EndRun, OriginInv, TypeOK, ThreadsInv
<1>6. ASSUME NEW e \in Experiments,
             \/ ClearGroup(e) \/ ClearRaises(e) \/ SkipCompleted(e) \/ SkipBeyondLimit(e)
             \/ ContainerEnds(e)
      PROVE  /\ UNCHANGED <<run, launched, worker, origin>>
             /\ UNCHANGED misreported \/ main # "batch"
  BY <1>6 DEF ClearGroup, ClearRaises, SkipCompleted, SkipBeyondLimit, ContainerEnds,
              DeleteSkipped, DeleteDone, DeleteRaises
<1>7. EnterLoop \/ JoinBatch \/ LeaveLoop \/ UNCHANGED vars =>
        UNCHANGED <<run, launched, worker, origin, misreported>>
  BY DEF EnterLoop, JoinBatch, LeaveLoop, vars
<1> QED BY <1>2, <1>3, <1>4, <1>5, <1>6, <1>7 DEF Next, Main

-----------------------------------------------------------------------------
(***************************************************************************)
(* What the steps of the orchestrator and of Azure do to a container.      *)
(***************************************************************************)

\* A step either starts a container in the group of an experiment, or leaves its
\* command alone and at most ends or deletes what is there.
LEMMA GroupStep ==
  ASSUME IInv, Next, NEW e \in Experiments
  PROVE  \/ Started(e)
         \/ /\ origin'[e] = origin[e]
            /\ \/ group'[e] = group[e]
               \/ group'[e] \in {"absent", "failed"}
               \/ group[e] = "running" /\ group'[e] = "succeeded"
<1> USE DEF azureVars
<1>1. TypeOK /\ ThreadsInv
  BY DEF IInv
<1>2. CASE UNCHANGED <<group, origin>>
  BY <1>2
<1>3. ASSUME NEW f \in Experiments, DeleteDone(f) \/ DeleteRaises(f) \/ DeleteSkipped(f)
      PROVE  origin'[e] = origin[e] /\ (group'[e] = group[e] \/ group'[e] = "absent")
  BY <1>1, <1>3 DEF DeleteDone, DeleteRaises, DeleteSkipped, TypeOK
<1>4. ASSUME NEW f \in Experiments, Create(f) \/ CreateRepeats(f), ~ UNCHANGED <<group, origin>>
      PROVE  \/ Started(e)
             \/ origin'[e] = origin[e] /\ group'[e] = group[e]
  <2>1. worker[f] = "create" /\ Start(f)
    BY <1>4 DEF Create, CreateRepeats
  <2>2. main = "batch" /\ f \in batch
    BY <1>1, <2>1 DEF ThreadsInv
  <2> QED BY <1>1, <2>1, <2>2 DEF Start, Started, TypeOK
<1>5. ASSUME NEW f \in Experiments, ContainerEnds(f)
      PROVE  /\ origin'[e] = origin[e]
             /\ \/ group'[e] = group[e]
                \/ group'[e] = "failed"
                \/ group[e] = "running" /\ group'[e] = "succeeded"
  BY <1>1, <1>5 DEF ContainerEnds, TypeOK
<1>6. ASSUME NEW f \in Experiments,
             \/ ClearGroup(f) \/ ClearRaises(f) \/ DeleteOld(f) \/ Cleanup(f)
      PROVE  DeleteDone(f) \/ DeleteRaises(f) \/ DeleteSkipped(f)
  BY <1>6 DEF ClearGroup, ClearRaises, DeleteOld, Cleanup
<1>7. ASSUME NEW f \in Experiments,
             \/ SkipCompleted(f) \/ SkipBeyondLimit(f) \/ LaunchBatch(f)
             \/ TakeWork(f) \/ Poll(f) \/ PollRaises(f)
      PROVE  UNCHANGED <<group, origin>>
  BY <1>7 DEF SkipCompleted, SkipBeyondLimit, LaunchBatch, TakeWork, Poll, PollRaises
<1>8. EnterLoop \/ JoinBatch \/ LeaveLoop \/ EndRun => UNCHANGED <<group, origin>>
  BY DEF EnterLoop, JoinBatch, LeaveLoop, EndRun
<1> QED BY <1>2, <1>3, <1>4, <1>5, <1>6, <1>7, <1>8 DEF Next, Main, Thread

-----------------------------------------------------------------------------
(***************************************************************************)
(* The invariant of the suite.                                             *)
(***************************************************************************)

Places == {"none", "recorded", "dead"} \cup Alive

SuiteTypes ==
  /\ process \in [Writers -> Places]
  /\ table \subseteq Writers
  /\ copy \in [Writers -> SUBSET Writers]
  /\ misreported \subseteq doubtful

\* A process lives exactly as long as its container.
ProcessInv ==
  \A w \in Writers :
    /\ process[w] \in Alive => Running(w)
    /\ Running(w) => process[w] \in Alive \cup {"recorded"}
    /\ process[w] \in {"none", "started", "dead"} => copy[w] = {}
    /\ process[w] # "none" => w[2] <= origin[w[1]]
    /\ w[2] > 0 /\ w[2] = origin[w[1]] => process[w] # "none"

\* A group that shows success executed a command that recorded its row.
RecordedInv ==
  \A w \in Writers :
    w[2] > 0 /\ w[2] = origin[w[1]] /\ group[w[1]] = "succeeded" => process[w] = "recorded"

SuiteInv ==
  /\ IInv /\ OriginInv
  /\ SuiteTypes /\ ProcessInv /\ RecordedInv /\ SuccessIsRecorded

\* A writer is an experiment in a run.
LEMMA WriterParts ==
  ASSUME NEW w \in Writers
  PROVE  w[1] \in Experiments /\ w[2] \in Nat /\ w = <<w[1], w[2]>>
BY OrchestratorAssumption DEF Writers

\* At first only containers of earlier suites run.
LEMMA SuiteInitially == SuiteInit => SuiteInv
<1> SUFFICES ASSUME SuiteInit PROVE SuiteInv
  OBVIOUS
<1>1. Init
  BY DEF SuiteInit
<1>2. IInv /\ OriginInv
  BY <1>1, Initially, OriginInitially
<1>3. SuiteTypes
  BY <1>1 DEF SuiteInit, Init, SuiteTypes, Places, Alive
<1>4. \A w \in Writers : origin[w[1]] = 0
  BY <1>1, WriterParts DEF Init
<1>5. ProcessInv
  BY <1>4, WriterParts DEF SuiteInit, ProcessInv, Alive, Running
<1>6. RecordedInv /\ SuccessIsRecorded
  BY <1>1, <1>4 DEF Init, RecordedInv, SuccessIsRecorded
<1> QED BY <1>2, <1>3, <1>5, <1>6 DEF SuiteInv

\* What a step of the orchestrator can do to a writer: nothing, start its container for
\* the first time, end it, or start it anew while its create is repeated.
Untouched(w) == process'[w] = process[w] /\ (Running(w)' <=> Running(w))

Starts(w) ==
  /\ Started(w[1]) /\ w[2] = run
  /\ process[w] = "none" /\ process'[w] = "started"

Stops(w) ==
  /\ Running(w) /\ ~Running(w)'
  /\ process'[w] = IF process[w] = "recorded" THEN "recorded" ELSE "dead"

Restarts(w) ==
  /\ worker[w[1]] = "create" /\ origin[w[1]] = run /\ w[2] = run
  /\ Running(w)' /\ process'[w] = "started"

\* A step of the orchestrator or of Azure leaves a process alone, starts or stops it.
LEMMA ProcessStep ==
  ASSUME SuiteInv, Step, NEW w \in Writers
  PROVE  Untouched(w) \/ Starts(w) \/ Stops(w) \/ Restarts(w)
<1>1. PICK restarted \in SUBSET Restartable :
        process' = [v \in Writers |-> IF v \in restarted THEN "started" ELSE ProcessAfter(v)]
  BY DEF Step
<1>2. /\ process[w] \in Alive => Running(w)
      /\ Running(w) => process[w] \in Alive \cup {"recorded"}
      /\ process[w] # "none" => w[2] <= origin[w[1]]
      /\ process[w] \in Places
  BY DEF SuiteInv, ProcessInv, SuiteTypes
<1>3. CASE w \in restarted
  BY <1>1, <1>3 DEF Restartable, Restarts
<1>4. ASSUME w \notin restarted PROVE process'[w] = ProcessAfter(w)
  BY <1>1, <1>4
<1>5. CASE w \notin restarted /\ Running(w) /\ Running(w)'
  BY <1>4, <1>5 DEF ProcessAfter, Untouched
<1>6. CASE w \notin restarted /\ ~Running(w) /\ ~Running(w)'
  BY <1>2, <1>4, <1>6 DEF ProcessAfter, Untouched, Alive
<1>7. CASE w \notin restarted /\ Running(w) /\ ~Running(w)'
  BY <1>2, <1>4, <1>7 DEF ProcessAfter, Stops, Alive
<1>8. CASE w \notin restarted /\ ~Running(w) /\ Running(w)'
  <2>1. process'[w] = "started"
    BY <1>4, <1>8 DEF ProcessAfter
  <2>2. group'[w[1]] = "running" /\ origin'[w[1]] = w[2]
    BY <1>8 DEF Running
  <2>3. Started(w[1]) /\ w[2] = run
    <3>1. Started(w[1])
      BY <1>8, <2>2, WriterParts, GroupStep DEF Running, SuiteInv, Step
    <3> QED BY <2>2, <3>1 DEF Started
  <2>4. origin[w[1]] \in Nat /\ run \in Nat /\ origin[w[1]] <= run
    BY WriterParts DEF SuiteInv, IInv, TypeOK, OriginInv
  <2>5. CASE process[w] = "none"
    BY <2>1, <2>3, <2>5 DEF Starts
  <2>6. CASE process[w] # "none"
    BY <1>2, <1>8, <2>1, <2>3, <2>4, <2>6 DEF Restarts, Started
  <2> QED BY <2>5, <2>6
<1> QED BY <1>3, <1>5, <1>6, <1>7, <1>8

\* A create is repeated only while az has been wrong about its group.
LEMMA QuietStep ==
  ASSUME SuiteInv, Step, misreported = {}, NEW w \in Writers
  PROVE  Untouched(w) \/ Starts(w) \/ Stops(w)
<1>1. w[1] \in Experiments /\ run \in Nat
  BY WriterParts DEF SuiteInv, IInv, TypeOK
<1>2. ~Restarts(w)
  BY <1>1 DEF Restarts, SuiteInv, OriginInv
<1> QED BY <1>2, ProcessStep

\* A group never goes back to the command of an earlier run.
LEMMA OriginStep ==
  ASSUME SuiteInv, Step, NEW e \in Experiments
  PROVE  origin'[e] = origin[e] \/ (Started(e) /\ origin'[e] = run)
BY GroupStep DEF SuiteInv, Step, Started

\* Success is only ever seen by the thread that polls.
LEMMA ResultStep ==
  ASSUME IInv, Next, main' = "batch", NEW e \in batch', result'[e] = "ok"
  PROVE  /\ main = "batch" /\ e \in batch /\ run' = run
         /\ result[e] = "ok" \/ (worker[e] = "poll" /\ group[e] = "succeeded")
<1> USE DEF mainVars, workerVars, azureVars, Goto, EndWith
<1>1. TypeOK /\ ThreadsInv
  BY DEF IInv
<1>2. ASSUME NEW f \in Experiments, LaunchBatch(f) PROVE FALSE
  BY <1>1, <1>2, OrchestratorAssumption DEF LaunchBatch, BatchOf
<1>3. ASSUME NEW f \in Experiments, Thread(f) \/ CreateRepeats(f) \/ PollRaises(f)
      PROVE  /\ UNCHANGED mainVars
             /\ result[e] = "ok" \/ (worker[e] = "poll" /\ group[e] = "succeeded")
  BY <1>1, <1>3 DEF Thread, TakeWork, DeleteOld, Create, CreateRepeats, Poll, PollRaises,
                    Cleanup, TypeOK
<1>4. ASSUME NEW f \in Experiments, SkipCompleted(f) \/ SkipBeyondLimit(f) PROVE FALSE
  BY <1>4 DEF SkipCompleted, SkipBeyondLimit
<1>5. ASSUME NEW f \in Experiments, ClearGroup(f) \/ ClearRaises(f) \/ ContainerEnds(f)
      PROVE  UNCHANGED <<run, batch, result>> /\ main = "batch"
  BY <1>5 DEF ClearGroup, ClearRaises, ContainerEnds
<1>6. ~EnterLoop /\ ~JoinBatch /\ ~LeaveLoop /\ ~EndRun
  BY <1>1 DEF EnterLoop, JoinBatch, LeaveLoop, EndRun, TypeOK
<1> QED BY <1>2, <1>3, <1>4, <1>5, <1>6 DEF Next, Main

\* A process that has recorded stays so, whatever happens to its container, unless that
\* starts anew.
LEMMA RecordedStays ==
  ASSUME SuiteInv, Step, NEW w \in Writers, process[w] = "recorded",
         worker[w[1]] # "create" \/ ~Running(w)'
  PROVE  process'[w] = "recorded"
BY ProcessStep DEF Untouched, Starts, Stops, Restarts

\* The steps of the orchestrator and of Azure keep the invariant of the suite.
LEMMA StepPreserves ==
  ASSUME SuiteInv, Step
  PROVE  SuiteInv'
<1>1. IInv' /\ OriginInv'
  BY Preserved, OriginPreserved DEF SuiteInv, Step
<1>2. SuiteTypes'
  <2>1. process' \in [Writers -> Places]
    <3>1. \A w \in Writers : ProcessAfter(w) \in Places
      BY DEF ProcessAfter, SuiteInv, SuiteTypes, Places, Alive
    <3>2. "started" \in Places
      BY DEF Places, Alive
    <3> QED BY <3>1, <3>2 DEF Step
  <2>2. copy' \in [Writers -> SUBSET Writers]
    BY DEF Step, SuiteInv, SuiteTypes
  <2> QED BY <2>1, <2>2 DEF Step, SuiteInv, SuiteTypes
<1>3. ASSUME NEW w \in Writers
      PROVE  /\ process'[w] \in Alive => Running(w)'
             /\ Running(w)' => process'[w] \in Alive \cup {"recorded"}
             /\ process'[w] \in {"none", "started", "dead"} => copy'[w] = {}
  <2>1. copy'[w] = IF process'[w] \in {"started", "dead"} THEN {} ELSE copy[w]
    BY DEF Step
  <2>2. Starts(w) => Running(w)'
    BY DEF Starts, Started, Running
  <2> QED BY <2>1, <2>2, ProcessStep
      DEF SuiteInv, ProcessInv, Untouched, Starts, Stops, Restarts, Alive
<1>4. ASSUME NEW w \in Writers
      PROVE  /\ process'[w] # "none" => w[2] <= origin'[w[1]]
             /\ w[2] > 0 /\ w[2] = origin'[w[1]] => process'[w] # "none"
  <2>1. /\ w[1] \in Experiments /\ w[2] \in Nat
        /\ origin[w[1]] \in Nat /\ run \in Nat /\ origin[w[1]] <= run
    BY WriterParts DEF SuiteInv, IInv, TypeOK, OriginInv
  <2>2. origin'[w[1]] = origin[w[1]] \/ (Started(w[1]) /\ origin'[w[1]] = run)
    BY <2>1, OriginStep
  <2>3. process'[w] # "none" => w[2] <= origin'[w[1]]
    <3>1. CASE process[w] # "none"
      BY <2>1, <2>2, <3>1 DEF SuiteInv, ProcessInv
    <3>2. CASE process[w] = "none"
      BY <2>1, <3>2, ProcessStep DEF Untouched, Starts, Stops, Restarts, Started, Running,
                                     SuiteInv, ProcessInv, Alive
    <3> QED BY <3>1, <3>2
  <2>4. ASSUME w[2] > 0, w[2] = origin'[w[1]], process'[w] = "none" PROVE FALSE
    <3>1. process[w] = "none" /\ ~Running(w)'
      BY <1>3, <2>4, ProcessStep DEF Untouched, Starts, Stops, Restarts, Alive
    <3>2. origin'[w[1]] # origin[w[1]]
      BY <2>4, <3>1 DEF SuiteInv, ProcessInv
    <3> QED BY <2>2, <2>4, <3>1, <3>2 DEF Started, Running
  <2> QED BY <2>3, <2>4
<1>5. ProcessInv'
  BY <1>3, <1>4 DEF ProcessInv, Writers
<1>6. RecordedInv'
  <2>1. ASSUME NEW w \in Writers, w[2] > 0, w[2] = origin'[w[1]],
               group'[w[1]] = "succeeded"
        PROVE  process'[w] = "recorded"
    <3>1. w[1] \in Experiments /\ Next /\ IInv
      BY WriterParts DEF Step, SuiteInv
    <3>2. ~Started(w[1])
      BY <2>1 DEF Started
    <3>3. /\ origin'[w[1]] = origin[w[1]]
          /\ group[w[1]] = "succeeded" \/ group[w[1]] = "running"
      BY <2>1, <3>1, <3>2, GroupStep
    <3>4. ~Running(w)'
      BY <2>1 DEF Running
    <3>5. CASE group[w[1]] = "succeeded"
      BY <2>1, <3>3, <3>4, <3>5, RecordedStays DEF SuiteInv, RecordedInv
    <3>6. CASE group[w[1]] = "running"
      BY <2>1, <3>3, <3>4, <3>6, RecordedStays DEF Step, ExitReported, Running
    <3> QED BY <3>3, <3>5, <3>6
  <2> QED BY <2>1 DEF RecordedInv, Writers
<1>7. SuccessIsRecorded'
  <2>1. ASSUME NEW e \in batch', main' = "batch", result'[e] = "ok"
        PROVE  process'[<<e, run'>>] = "recorded"
    <3>1. /\ main = "batch" /\ e \in batch /\ run' = run
          /\ result[e] = "ok" \/ (worker[e] = "poll" /\ group[e] = "succeeded")
      BY <2>1, ResultStep DEF SuiteInv, Step
    <3>2. e \in Experiments /\ run \in 1 .. Runs /\ <<e, run>> \in Writers
      BY <3>1, OrchestratorAssumption DEF SuiteInv, IInv, TypeOK, Writers
    <3>3. CASE result[e] = "ok"
      <4>1. worker[e] # "create"
        BY <3>1, <3>3 DEF SuiteInv, IInv, SuccessInv
      <4> QED BY <3>1, <3>2, <3>3, <4>1, RecordedStays DEF SuiteInv, SuccessIsRecorded
    <3>4. CASE worker[e] = "poll" /\ group[e] = "succeeded"
      <4>1. origin[e] = run
        BY <3>1, <3>4 DEF SuiteInv, IInv, SuccessInv
      <4>2. process[<<e, run>>] = "recorded"
        BY <3>2, <3>4, <4>1 DEF SuiteInv, RecordedInv
      <4> QED BY <3>1, <3>2, <3>4, <4>2, RecordedStays
    <3> QED BY <3>1, <3>3, <3>4
  <2> QED BY <2>1 DEF SuccessIsRecorded
<1> QED BY <1>1, <1>2, <1>5, <1>6, <1>7 DEF SuiteInv

\* The steps of a container leave the orchestrator and Azure alone.
LEMMA ContainerStepPreserves ==
  ASSUME SuiteInv, NEW u \in Writers, BeginRow(u) \/ DownloadTable(u) \/ UploadTable(u)
  PROVE  SuiteInv'
<1>1. UNCHANGED <<vars, doubtful>>
  BY DEF BeginRow, DownloadTable, UploadTable
<1>2. IInv' /\ OriginInv'
  BY <1>1, Preserved, OriginPreserved DEF SuiteInv
<1>3. UNCHANGED <<run, main, batch, result, group, origin, misreported, doubtful>>
  BY <1>1 DEF vars, mainVars, workerVars, azureVars
<1>4. process[u] \in Alive /\ process' \in {[process EXCEPT ![u] = "download"],
                                            [process EXCEPT ![u] = "upload"],
                                            [process EXCEPT ![u] = "recorded"]}
  BY DEF BeginRow, DownloadTable, UploadTable, Enter, Alive
<1>5. SuiteTypes'
  BY <1>3, <1>4 DEF BeginRow, DownloadTable, UploadTable, Merged, SuiteInv, SuiteTypes,
                    Places,
                   Alive
<1>6. \A w \in Writers : w # u => process'[w] = process[w] /\ copy'[w] = copy[w]
  BY <1>4 DEF BeginRow, DownloadTable, UploadTable, SuiteInv, SuiteTypes
<1>7. process'[u] \in {"download", "upload", "recorded"}
  BY <1>4 DEF SuiteInv, SuiteTypes
<1>8. ProcessInv'
  <2>1. \A w \in Writers : Running(w)' <=> Running(w)
    BY <1>3 DEF Running
  <2> QED BY <1>3, <1>4, <1>6, <1>7, <2>1 DEF SuiteInv, ProcessInv, Alive, Writers
<1>9. \A w \in Writers : process[w] = "recorded" => process'[w] = "recorded"
  BY <1>4, <1>6 DEF Alive
<1>10. RecordedInv'
  BY <1>3, <1>9 DEF SuiteInv, RecordedInv, Writers
<1>11. SuccessIsRecorded'
  <2>1. \A e \in batch : e \in Experiments /\ <<e, run>> \in Writers
    BY OrchestratorAssumption DEF SuiteInv, IInv, TypeOK, Writers
  <2> QED BY <1>3, <1>9, <2>1 DEF SuiteInv, SuccessIsRecorded
<1> QED BY <1>2, <1>5, <1>8, <1>10, <1>11 DEF SuiteInv

\* Every step keeps the invariant of the suite.
LEMMA SuitePreserved == SuiteInv /\ [SuiteNext]_suiteVars => SuiteInv'
<1> SUFFICES ASSUME SuiteInv, [SuiteNext]_suiteVars PROVE SuiteInv'
  OBVIOUS
<1>1. CASE UNCHANGED suiteVars
  <2>1. IInv' /\ OriginInv'
    BY <1>1, Preserved, OriginPreserved DEF suiteVars, SuiteInv
  <2> QED BY <1>1, <2>1 DEF suiteVars, vars, mainVars, workerVars, azureVars, SuiteInv,
       SuiteTypes, ProcessInv, Running, RecordedInv, SuccessIsRecorded
<1> QED BY <1>1, StepPreserves, ContainerStepPreserves DEF SuiteNext

\* Processes live as long as their containers, and what the threads count as success
\* has recorded (_run_container_benchmark, benchmark_runner.py).
THEOREM SuiteInductive == SuiteSpec => []SuiteInv
BY SuiteInitially, SuitePreserved, PTL DEF SuiteSpec

\* Whatever group az shows to a polling thread and whenever a container dies, an
\* experiment counted as successful has uploaded its row in this benchmark run.
THEOREM SuccessRecorded == SuiteSpec => []SuccessIsRecorded
<1>1. SuiteInv => SuccessIsRecorded
  BY DEF SuiteInv
<1> QED BY <1>1, SuiteInductive, PTL

\* The suite's orchestrator is the orchestrator: what is proved about it holds of the
\* suite, with its bound on the groups az is wrong about.
THEOREM SuiteRunsOrchestrator == SuiteSpec => Spec
<1>1. SuiteInit => Init
  BY DEF SuiteInit
<1>2. [SuiteNext]_suiteVars => [Next]_vars
  BY DEF SuiteNext, suiteVars, Step, BeginRow, DownloadTable, UploadTable
<1> QED BY <1>1, <1>2, PTL DEF SuiteSpec, Spec

-----------------------------------------------------------------------------
(***************************************************************************)
(* As long as az tells the truth, the suite implements MetadataStore: the  *)
(* steps of a container are its Record steps, a batch is launched when     *)
(* every writer launched before has ended, and every other step of the     *)
(* orchestrator or of Azure is the end of one writer at most.              *)
(***************************************************************************)

EndedPcs == {"done", "raised"}

\* What the steps below leave alone of who has been launched.
SameRun == run' = run /\ launched' = launched

\* Within a run no writer is launched by the steps of a thread or a container.
LEMMA SameWriters ==
  ASSUME SameRun
  PROVE  /\ Writers' = Writers
         /\ \A w \in Writers : LaunchedWriter(w)' <=> LaunchedWriter(w)
         /\ {w \in Writers : LaunchedWriter(w)}' = {w \in Writers : LaunchedWriter(w)}
BY DEF SameRun, LaunchedWriter, Writers

\* Only a writer that has been launched has a process.
LEMMA ProcessIsLaunched ==
  ASSUME SuiteInv, NEW w \in Writers, process[w] # "none"
  PROVE  LaunchedWriter(w)
<1>1. w[1] \in Experiments /\ w[2] \in Nat
  BY WriterParts
<1>2. /\ w[2] <= origin[w[1]] /\ origin[w[1]] \in Nat /\ run \in Nat
      /\ launched[w[1]] \in Nat /\ RunsLimit[w[1]] \in Nat
  BY <1>1, OrchestratorAssumption DEF SuiteInv, ProcessInv, IInv, TypeOK
<1>3. /\ origin[w[1]] <= run /\ origin[w[1]] <= RunsLimit[w[1]]
      /\ launched[w[1]] = 0 => origin[w[1]] < run
  BY <1>1 DEF SuiteInv, OriginInv
<1>4. CASE w[2] = run
  BY <1>1, <1>2, <1>3, <1>4 DEF LaunchedWriter
<1>5. CASE w[2] # run
  BY <1>1, <1>2, <1>3, <1>5 DEF LaunchedWriter
<1> QED BY <1>4, <1>5

\* A writer that neither stops nor is given up is where it was.
LEMMA PcKept ==
  ASSUME SuiteInv, Step, SameRun, misreported = {}, NEW w \in Writers,
         ~Stops(w) \/ process[w] = "recorded",
         \/ (worker'[w[1]] = "ended" <=> worker[w[1]] = "ended")
         \/ w[2] # run
         \/ process[w] # "none"
  PROVE  StorePc(w)' = StorePc(w) /\ copy'[w] = copy[w]
<1>1. run' = run /\ (LaunchedWriter(w)' <=> LaunchedWriter(w))
  BY SameWriters DEF SameRun
<1>2. w[2] \in Nat /\ run \in Nat
  BY WriterParts DEF SuiteInv, IInv, TypeOK
<1>3. CASE process'[w] = process[w]
  <2>1. copy'[w] = copy[w]
    BY <1>3 DEF Step, SuiteInv, ProcessInv
  <2>2. NeverStarts(w)' <=> NeverStarts(w)
    <3>1. CASE process[w] # "none"
      BY <1>3, <3>1 DEF NeverStarts
    <3>2. CASE process[w] = "none" /\ w[2] # run
      <4>1. ~LaunchedWriter(w) \/ w[2] < run
        BY <1>2, <3>2, WriterParts, OrchestratorAssumption
        DEF LaunchedWriter, SuiteInv, IInv, TypeOK
      <4> QED BY <1>1, <1>3, <4>1 DEF NeverStarts
    <3>3. CASE worker'[w[1]] = "ended" <=> worker[w[1]] = "ended"
      BY <1>1, <1>3, <3>3 DEF NeverStarts
    <3> QED BY <3>1, <3>2, <3>3
  <2> QED BY <1>3, <2>1, <2>2 DEF StorePc
<1>4. CASE Starts(w)
  <2>1. process[w] = "none" /\ process'[w] = "started" /\ w[2] = run
        /\ worker[w[1]] = "create"
    BY <1>4 DEF Starts, Started
  <2>2. ~NeverStarts(w) /\ ~NeverStarts(w)'
    BY <1>2, <2>1 DEF NeverStarts
  <2>3. copy'[w] = copy[w]
    BY <2>1 DEF Step, SuiteInv, ProcessInv
  <2> QED BY <2>1, <2>2, <2>3 DEF StorePc
<1> QED BY <1>3, <1>4, QuietStep DEF Untouched, Stops

\* A writer whose container is stopped or ends before its row is uploaded.
LEMMA PcStopped ==
  ASSUME SuiteInv, Step, NEW w \in Writers, Stops(w), process[w] # "recorded"
  PROVE  /\ LaunchedWriter(w)
         /\ StorePc(w) \notin EndedPcs /\ StorePc(w)' = "raised" /\ copy'[w] = {}
<1>1. process[w] \in Alive /\ process'[w] = "dead"
  BY DEF Stops, SuiteInv, ProcessInv
<1>2. ~NeverStarts(w)
  BY <1>1 DEF NeverStarts, Alive
<1> QED BY <1>1, <1>2, ProcessIsLaunched DEF StorePc, Alive, EndedPcs, Step

\* A writer whose thread ends without ever having started it.
LEMMA PcGivenUp ==
  ASSUME SuiteInv, Step, SameRun, NEW w \in Writers,
         w[2] = run, launched[w[1]] > 0, process[w] = "none", process'[w] = "none",
         worker[w[1]] # "ended", worker'[w[1]] = "ended"
  PROVE  /\ LaunchedWriter(w)
         /\ StorePc(w) \notin EndedPcs /\ StorePc(w)' = "raised" /\ copy'[w] = {}
<1>1. run \in Nat
  BY DEF SuiteInv, IInv, TypeOK
<1>2. LaunchedWriter(w) /\ LaunchedWriter(w)'
  BY SameWriters DEF LaunchedWriter
<1>3. ~NeverStarts(w) /\ NeverStarts(w)'
  BY <1>1, <1>2 DEF NeverStarts, SameRun
<1> QED BY <1>2, <1>3 DEF StorePc, EndedPcs, Step, SuiteInv, ProcessInv

\* A step that moves no writer is a stutter of the store.
LEMMA NobodyMoves ==
  ASSUME SuiteInv, Step, SameRun,
         \A w \in Writers : StorePc(w)' = StorePc(w) /\ copy'[w] = copy[w]
  PROVE  UNCHANGED Store!vars
<1>1. copy' = copy
  BY DEF Step, SuiteInv, SuiteTypes
<1>2. [w \in Writers |-> StorePc(w)]' = [w \in Writers |-> StorePc(w)]
  BY SameWriters
<1> QED BY <1>1, <1>2, SameWriters DEF Store!vars, Step

\* A step that ends one process before its row is uploaded is a death in the store.
LEMMA OneDies ==
  ASSUME SuiteInv, Step, SameRun, NEW u \in Writers,
         LaunchedWriter(u), StorePc(u) \notin EndedPcs, StorePc(u)' = "raised",
         copy'[u] = {},
         \A w \in Writers \ {u} : StorePc(w)' = StorePc(w) /\ copy'[w] = copy[w]
  PROVE  Store!Next
<1> DEFINE pcs == [w \in Writers |-> StorePc(w)]
<1>1. copy' = [copy EXCEPT ![u] = {}]
  BY DEF Step, SuiteInv, SuiteTypes
<1>2. pcs' = [pcs EXCEPT ![u] = "raised"]
  BY SameWriters
<1>3. Store!Die(u)
  BY <1>1, <1>2, SameWriters
  DEF Store!Die, Store!End, Store!Goto, Store!Ended, EndedPcs, Step
<1> QED BY <1>3 DEF Store!Next

\* A step of a thread: no container is stopped, because its group was cleared and az
\* told the truth; a thread that ends before it has started one gives its writer up.
LEMMA ThreadMoves ==
  ASSUME SuiteInv, Step, misreported = {}, misreported' = {},
         NEW f \in Experiments, Thread(f) \/ PollRaises(f)
  PROVE  Store!Next \/ UNCHANGED Store!vars
<1> USE DEF mainVars, workerVars, azureVars
<1>1. /\ TypeOK /\ ThreadsInv /\ GroupInv /\ LaunchInv /\ RunningInv
      /\ OriginInv /\ ProcessInv /\ IInv /\ Next
  BY DEF SuiteInv, IInv, Step
<1>2. SameRun /\ main = "batch" /\ f \in batch
  BY <1>1 DEF Thread, TakeWork, DeleteOld, Create, Poll, PollRaises, Cleanup,
              ThreadsInv, TypeOK, Goto, EndWith, SameRun
<1>3. launched[f] = 1 /\ run \in Nat \ {0} /\ <<f, run>> \in Writers
  BY <1>1, <1>2 DEF TypeOK, GroupInv, LaunchInv, InFlight, Writers
<1>u. PICK u \in Writers : u = <<f, run>>
  BY <1>3
<1>4. \A e \in Experiments \ {f} :
        worker'[e] = worker[e] /\ group'[e] = group[e] /\ origin'[e] = origin[e]
  BY <1>1 DEF Thread, TakeWork, DeleteOld, Create, Poll, PollRaises, Cleanup, Goto,
              EndWith, Start, DeleteSkipped, DeleteDone, DeleteRaises, TypeOK
<1>5. ASSUME NEW w \in Writers PROVE ~Stops(w)
  <2>1. CASE w[1] # f
    BY <1>4, <2>1, WriterParts DEF Stops, Running
  <2>2. CASE w[1] = f
    <3>1. group[f] = "running" => worker[f] = "poll"
      BY <1>1, <1>2 DEF RunningInv
    <3>2. worker[f] = "poll" => UNCHANGED <<group, origin>>
      BY DEF Thread, TakeWork, DeleteOld, Create, Poll, PollRaises, Cleanup
    <3> QED BY <2>2, <3>1, <3>2 DEF Stops, Running
  <2> QED BY <2>1, <2>2
<1>6. \A w \in Writers : w[1] # f \/ w[2] # run \/ process[w] # "none"
                           => StorePc(w)' = StorePc(w) /\ copy'[w] = copy[w]
  BY <1>2, <1>4, <1>5, PcKept, WriterParts
<1>7. CASE worker'[f] = "ended" /\ process[u] = "none"
  <2>1. worker[f] # "ended"
    BY DEF Thread, TakeWork, DeleteOld, Create, Poll, PollRaises, Cleanup
  <2>2. ~Started(f)
    <3>1. CASE worker[f] = "create" /\ Create(f)
      BY <1>1, <1>7, <3>1 DEF Create, Started, Start, Misreport, TypeOK, OriginInv, Goto,
                              EndWith
    <3>2. CASE worker[f] # "create"
      BY <3>2 DEF Started
    <3> QED BY <3>1, <3>2 DEF Thread, TakeWork, DeleteOld, Poll, PollRaises, Cleanup
  <2>3. process'[u] = "none"
    BY <1>u, <1>5, <1>7, <2>2, QuietStep DEF Untouched, Starts
  <2>4. LaunchedWriter(u) /\ StorePc(u) \notin EndedPcs /\ StorePc(u)' = "raised"
        /\ copy'[u] = {}
    <3>1. /\ u[2] = run /\ launched[u[1]] > 0
          /\ worker[u[1]] # "ended" /\ worker'[u[1]] = "ended"
      BY <1>3, <1>u, <1>7, <2>1
    <3> QED BY <1>2, <1>7, <2>3, <3>1, PcGivenUp
  <2>5. \A w \in Writers \ {u} : w[1] # f \/ w[2] # run
    BY <1>u, WriterParts
  <2>6. \A w \in Writers \ {u} : StorePc(w)' = StorePc(w) /\ copy'[w] = copy[w]
    BY <1>6, <2>5
  <2> QED BY <1>2, <2>4, <2>6, OneDies
<1>8. CASE worker'[f] # "ended"
  <2>1. worker[f] # "ended"
    BY DEF Thread, TakeWork, DeleteOld, Create, Poll, PollRaises, Cleanup
  <2>2. \A w \in Writers : worker'[w[1]] = "ended" <=> worker[w[1]] = "ended"
    BY <1>4, <1>8, <2>1, WriterParts
  <2>3. \A w \in Writers : StorePc(w)' = StorePc(w) /\ copy'[w] = copy[w]
    BY <1>2, <1>5, <2>2, PcKept
  <2> QED BY <1>2, <2>3, NobodyMoves
<1>9. CASE process[u] # "none"
  <2>1. \A w \in Writers : w[1] # f \/ w[2] # run \/ process[w] # "none"
    BY <1>9, <1>u, WriterParts
  <2> QED BY <1>2, <1>6, <2>1, NobodyMoves
<1> QED BY <1>7, <1>8, <1>9

\* What happens to a group outside its thread ends at most the writer in it.
LEMMA GroupMoves ==
  ASSUME SuiteInv, Step, misreported = {}, NEW f \in Experiments,
         ContainerEnds(f) \/ ClearGroup(f) \/ ClearRaises(f)
  PROVE  Store!Next \/ UNCHANGED Store!vars
<1> USE DEF mainVars, workerVars, azureVars
<1>1. SameRun /\ UNCHANGED <<worker, origin>>
  BY DEF ContainerEnds, ClearGroup, ClearRaises, DeleteDone, DeleteSkipped, DeleteRaises,
         SameRun
<1>2. \A e \in Experiments \ {f} : group'[e] = group[e]
  BY DEF ContainerEnds, ClearGroup, ClearRaises, DeleteDone, DeleteSkipped, DeleteRaises,
         SuiteInv, IInv, TypeOK
<1>3. ASSUME NEW w \in Writers, Stops(w) PROVE w = <<f, origin[f]>>
  BY <1>1, <1>2, <1>3, WriterParts DEF Stops, Running
<1>4. ASSUME NEW w \in Writers, ~Stops(w) \/ process[w] = "recorded"
      PROVE  StorePc(w)' = StorePc(w) /\ copy'[w] = copy[w]
  BY <1>1, <1>4, PcKept
<1>5. ASSUME NEW u \in Writers, Stops(u), process[u] # "recorded"
      PROVE  Store!Next
  <2>1. \A w \in Writers \ {u} : ~Stops(w)
    BY <1>3, <1>5
  <2> QED BY <1>1, <1>4, <1>5, <2>1, PcStopped, OneDies
<1>6. CASE \A w \in Writers : ~Stops(w) \/ process[w] = "recorded"
  BY <1>1, <1>4, <1>6, NobodyMoves
<1> QED BY <1>5, <1>6

\* The main thread between the batches of a run.
LEMMA MainStutters ==
  ASSUME SuiteInv, Step, SameRun, misreported = {}, UNCHANGED <<worker, group, origin>>
  PROVE  UNCHANGED Store!vars
<1>1. \A w \in Writers : ~Stops(w)
  BY DEF Stops, Running
<1>2. \A w \in Writers : StorePc(w)' = StorePc(w) /\ copy'[w] = copy[w]
  BY <1>1, PcKept
<1> QED BY <1>2, NobodyMoves

\* Between two runs: what was launched in this run is launched for ever, and a writer
\* its thread did not start will never be.
LEMMA EndRunStutters ==
  ASSUME SuiteInv, Step, misreported = {}, EndRun
  PROVE  UNCHANGED Store!vars
<1> USE DEF workerVars, azureVars
<1>1. UNCHANGED <<worker, group, origin>>
  BY DEF EndRun
<1>2. CASE ~MoreRuns
  BY <1>1, <1>2, MainStutters DEF EndRun, SameRun
<1>3. CASE MoreRuns
  <2>1. /\ run' = run + 1 /\ launched' = [e \in Experiments |-> 0] /\ main = "sweep"
        /\ TypeOK /\ ThreadsInv /\ OriginInv /\ PhaseInv /\ LaunchInv
    BY <1>3 DEF EndRun, SuiteInv, IInv
  <2>2. \A e \in Experiments :
          /\ launched[e] > 0 <=> run <= RunsLimit[e]
          /\ launched[e] > 0 => worker[e] = "ended"
    BY <2>1 DEF PhaseInv, LaunchInv, InFlight, ThreadsInv, OriginInv, TypeOK
  <2>3. ASSUME NEW w \in Writers
        PROVE  /\ LaunchedWriter(w)' <=> LaunchedWriter(w)
               /\ StorePc(w)' = StorePc(w) /\ copy'[w] = copy[w]
    <3>1. /\ w[1] \in Experiments /\ w[2] \in Nat /\ run \in Nat \ {0}
          /\ RunsLimit[w[1]] \in Nat /\ launched'[w[1]] = 0
      BY <2>1, WriterParts, OrchestratorAssumption DEF TypeOK
    <3>2. LaunchedWriter(w)' <=> LaunchedWriter(w)
      <4>1. CASE w[2] = run
        BY <2>1, <2>2, <3>1, <4>1 DEF LaunchedWriter
      <4>2. CASE w[2] = run + 1
        BY <2>1, <3>1, <4>2 DEF LaunchedWriter
      <4>3. CASE w[2] # run /\ w[2] # run + 1
        BY <2>1, <3>1, <4>3 DEF LaunchedWriter
      <4> QED BY <4>1, <4>2, <4>3
    <3>3. process'[w] = process[w]
      <4>1. Running(w)' <=> Running(w)
        BY <1>1 DEF Running
      <4> QED BY <2>1, <4>1, QuietStep DEF Untouched, Starts, Started, Stops
    <3>4. copy'[w] = copy[w]
      BY <3>3 DEF Step, SuiteInv, ProcessInv
    <3>5. NeverStarts(w)' <=> NeverStarts(w)
      <4>1. LaunchedWriter(w) => w[2] <= run
        BY <3>1 DEF LaunchedWriter
      <4>2. LaunchedWriter(w) /\ w[2] = run => worker[w[1]] = "ended"
        BY <2>2, <3>1 DEF LaunchedWriter
      <4> QED BY <2>1, <3>1, <3>2, <3>3, <4>1, <4>2 DEF NeverStarts
    <3> QED BY <3>2, <3>3, <3>4, <3>5 DEF StorePc
  <2>4. copy' = copy
    BY <2>3 DEF Step, SuiteInv, SuiteTypes
  <2> QED BY <2>3, <2>4 DEF Store!vars, Step, Writers
<1> QED BY <1>2, <1>3

\* The writers of a batch are its members in the store's sense.
LEMMA BatchMembers ==
  ASSUME NEW u \in Writers, u[2] > 0
  PROVE  Store!Members(u) = {w \in Writers : w[1] \in BatchOf(u[1]) /\ w[2] = u[2]}
<1>1. ASSUME NEW w \in Writers
      PROVE  BatchOfWriter(w) = BatchOfWriter(u) <=> w[1] \in BatchOf(u[1]) /\ w[2] = u[2]
  <2>1. u[1] \in Experiments /\ w[1] \in Experiments
    BY WriterParts
  <2>2. BatchOf(w[1]) = BatchOf(u[1]) <=> w[1] \in BatchOf(u[1])
    BY <2>1, BatchesAreGroups DEF BatchOf
  <2>3. BatchOfWriter(u) = <<BatchOf(u[1]), u[2]>>
    BY DEF BatchOfWriter
  <2>4. CASE w[2] = u[2]
    BY <2>2, <2>3, <2>4 DEF BatchOfWriter
  <2>5. CASE w[2] # u[2]
    BY <2>3, <2>5 DEF BatchOfWriter
  <2> QED BY <2>4, <2>5
<1>2. {w \in Writers : BatchOfWriter(w) = BatchOfWriter(u)}
        = {w \in Writers : w[1] \in BatchOf(u[1]) /\ w[2] = u[2]}
  BY <1>1
<1> QED BY <1>2 DEF Store!Members

\* Between two batches no writer is left that has been launched and has not ended,
\* unless az was last wrong about its group.
LEMMA LoopAllEnded ==
  ASSUME SuiteInv, misreported = {}, main = "loop",
         NEW w \in Writers, LaunchedWriter(w)
  PROVE  StorePc(w) \in EndedPcs
<1>1. TypeOK /\ ThreadsInv /\ RunningInv /\ OriginInv
  BY DEF SuiteInv, IInv
<1>2. w[1] \in Experiments /\ run \in Nat \ {0} /\ w[2] \in Nat /\ process[w] \in Places
  BY <1>1, WriterParts DEF TypeOK, SuiteInv, SuiteTypes
<1>3. worker[w[1]] \in {"idle", "ended"}
  BY <1>1, <1>2 DEF ThreadsInv
<1>4. process[w] \notin Alive
  BY <1>1, <1>2, <1>3 DEF RunningInv, SuiteInv, ProcessInv, Running
<1>5. CASE process[w] = "none"
  <2>1. w[2] < run \/ worker[w[1]] = "ended"
    <3>1. CASE w[2] = run
      <4>1. launched[w[1]] > 0
        BY <1>2, <3>1 DEF LaunchedWriter
      <4> QED BY <1>1, <1>2, <1>3, <4>1 DEF OriginInv
    <3>2. CASE w[2] # run
      BY <1>2, <3>2 DEF LaunchedWriter
    <3> QED BY <3>1, <3>2
  <2>2. NeverStarts(w)
    BY <1>5, <2>1 DEF NeverStarts
  <2> QED BY <1>5, <2>2 DEF StorePc, EndedPcs
<1>6. CASE process[w] \in {"recorded", "dead"}
  BY <1>6 DEF StorePc, EndedPcs
<1> QED BY <1>2, <1>4, <1>5, <1>6 DEF Places

\* The orchestrator's launch of a batch is the store's: all of its members at once,
\* when every writer launched before has ended.
LEMMA LaunchMoves ==
  ASSUME SuiteInv, Step, misreported = {}, NEW e \in Experiments, LaunchBatch(e)
  PROVE  Store!Next
<1> USE DEF azureVars
<1>1. TypeOK /\ ThreadsInv /\ RunningInv /\ OriginInv /\ GroupInv /\ LaunchInv
  BY DEF SuiteInv, IInv
<1>2. /\ main = "loop" /\ e \notin completed /\ run' = run /\ run <= RunsLimit[e]
      /\ worker' = [f \in Experiments |-> IF f \in BatchOf(e) THEN "queued" ELSE worker[f]]
      /\ launched' = [f \in Experiments |->
                        IF f \in BatchOf(e) THEN launched[f] + 1 ELSE launched[f]]
      /\ UNCHANGED <<group, origin>>
  BY DEF LaunchBatch
<1>3. BatchOf(e) \subseteq Experiments /\ \A f \in BatchOf(e) : launched[f] = 0
  BY <1>1, <1>2, GroupPending DEF LaunchInv, InFlight, GroupInv, TypeOK
<1>4. run \in Nat \ {0} /\ <<e, run>> \in Writers
  BY <1>1 DEF TypeOK, Writers
<1>5. PICK u \in Writers : u = <<e, run>>
  BY <1>4
<1>6. ASSUME NEW w \in Writers
      PROVE  LaunchedWriter(w)' <=> LaunchedWriter(w) \/ w \in Store!Members(u)
  <2>1. w \in Store!Members(u) <=> w[1] \in BatchOf(e) /\ w[2] = run
    BY <1>4, <1>5, BatchMembers
  <2>2. CASE w[2] = run
    BY <1>1, <1>2, <1>3, <1>4, <2>1, <2>2, WriterParts DEF LaunchedWriter, TypeOK
  <2>3. CASE w[2] # run
    BY <1>2, <2>1, <2>3 DEF LaunchedWriter
  <2> QED BY <2>2, <2>3
<1>7. ~LaunchedWriter(u)
  <2>1. e \in BatchOf(e)
    BY DEF BatchOf
  <2> QED BY <1>3, <1>4, <1>5, <2>1 DEF LaunchedWriter
<1>8. ASSUME NEW w \in Writers
      PROVE  StorePc(w)' = StorePc(w) /\ process'[w] = process[w] /\ copy'[w] = copy[w]
  <2>1. process'[w] = process[w]
    <3>1. Running(w)' <=> Running(w)
      BY <1>2 DEF Running
    <3> QED BY <1>1, <1>2, <3>1, WriterParts, QuietStep
        DEF Untouched, Starts, Started, Stops
  <2>2. copy'[w] = copy[w]
    BY <2>1 DEF Step, SuiteInv, ProcessInv
  <2>3. NeverStarts(w)' <=> NeverStarts(w)
    <3>1. CASE w \in Store!Members(u)
      <4>1. w[1] \in BatchOf(e) /\ w[2] = run
        BY <1>4, <1>5, <3>1, BatchMembers
      <4>2. ~LaunchedWriter(w)
        BY <1>3, <1>4, <4>1 DEF LaunchedWriter
      <4>3. worker'[w[1]] = "queued"
        BY <1>2, <1>3, <4>1
      <4> QED BY <1>2, <1>4, <4>1, <4>2, <4>3 DEF NeverStarts
    <3>2. CASE w \notin Store!Members(u)
      <4>1. w[1] \notin BatchOf(e) \/ w[2] # run
        BY <1>4, <1>5, <3>2, BatchMembers
      <4>2. CASE w[2] # run
        <5>1. LaunchedWriter(w) => w[2] < run
          BY <1>4, <4>2, WriterParts DEF LaunchedWriter
        <5> QED BY <1>2, <1>6, <2>1, <3>2, <5>1 DEF NeverStarts
      <4>3. CASE w[1] \notin BatchOf(e)
        <5>1. worker'[w[1]] = worker[w[1]]
          BY <1>2, <4>3, WriterParts
        <5> QED BY <1>2, <1>6, <2>1, <3>2, <5>1 DEF NeverStarts
      <4> QED BY <4>1, <4>2, <4>3
    <3> QED BY <3>1, <3>2
  <2> QED BY <2>1, <2>2, <2>3 DEF StorePc
<1>9. copy' = copy
  BY <1>8 DEF Step, SuiteInv, SuiteTypes
<1>10. Writers' = Writers
  BY DEF Writers
<1>11. {w \in Writers : LaunchedWriter(w)}'
         = {w \in Writers : LaunchedWriter(w)} \cup Store!Members(u)
  <2>1. Store!Members(u) \subseteq Writers
    BY DEF Store!Members
  <2> QED BY <1>6, <1>10, <2>1
<1>12. [w \in Writers |-> StorePc(w)]' = [w \in Writers |-> StorePc(w)]
  BY <1>8, <1>10
<1>13. Store!AllEnded
  BY <1>2, LoopAllEnded DEF Store!AllEnded, Store!Ended, EndedPcs
<1>14. Store!LaunchBatch(u)
  BY <1>7, <1>9, <1>11, <1>12, <1>13 DEF Store!LaunchBatch, Step
<1> QED BY <1>14 DEF Store!Next

\* A step of a container is a Record step of its writer.
LEMMA RecordMoves ==
  ASSUME SuiteInv, NEW u \in Writers, BeginRow(u) \/ DownloadTable(u) \/ UploadTable(u)
  PROVE  Store!Next
<1> DEFINE pcs == [w \in Writers |-> StorePc(w)]
           who == {w \in Writers : LaunchedWriter(w)}
<1>1. UNCHANGED vars /\ process[u] \in {"started", "download", "upload"}
  BY DEF BeginRow, DownloadTable, UploadTable
<1>2. UNCHANGED <<run, worker, launched>>
  BY <1>1 DEF vars, mainVars, workerVars
<1>3. Writers' = Writers /\ who' = who
  BY <1>2 DEF LaunchedWriter, Writers
<1>4. ASSUME NEW w \in Writers, process'[w] = process[w]
      PROVE  StorePc(w)' = StorePc(w)
  BY <1>2, <1>4 DEF StorePc, NeverStarts, LaunchedWriter
<1>5. \A w \in Writers \ {u} : process'[w] = process[w]
  BY DEF BeginRow, DownloadTable, UploadTable, Enter, SuiteInv, SuiteTypes
<1>6. ASSUME StorePc(u)' = "download" \/ StorePc(u)' = "upload" \/ StorePc(u)' = "done"
      PROVE  pcs' = [pcs EXCEPT ![u] = StorePc(u)']
  BY <1>3, <1>4, <1>5
<1>7. u \in who
  BY <1>1, ProcessIsLaunched
<1>8. CASE BeginRow(u)
  <2>1. process[u] = "started" /\ process'[u] = "download"
    BY <1>8 DEF BeginRow, Enter, SuiteInv, SuiteTypes
  <2>2. pcs[u] = "ready" /\ StorePc(u)' = "download"
    BY <2>1 DEF StorePc, NeverStarts
  <2>3. Store!FindStorage(u)
    BY <1>3, <1>6, <1>7, <1>8, <2>2 DEF Store!FindStorage, Store!Goto, BeginRow
  <2> QED BY <2>3 DEF Store!Next, Store!Record
<1>9. CASE DownloadTable(u)
  <2>1. process[u] = "download" /\ process'[u] = "upload"
    BY <1>9 DEF DownloadTable, Enter, SuiteInv, SuiteTypes
  <2>2. pcs[u] = "download" /\ StorePc(u)' = "upload"
    BY <2>1 DEF StorePc, NeverStarts
  <2>3. Store!Download(u)
    BY <1>3, <1>6, <1>9, <2>2 DEF Store!Download, Store!Goto, DownloadTable
  <2> QED BY <2>3 DEF Store!Next, Store!Record
<1>10. CASE UploadTable(u)
  <2>1. process[u] = "upload" /\ process'[u] = "recorded"
    BY <1>10 DEF UploadTable, Enter, SuiteInv, SuiteTypes
  <2>2. pcs[u] = "upload" /\ StorePc(u)' = "done"
    BY <2>1 DEF StorePc, NeverStarts
  <2>3. Store!Upload(u)
    BY <1>3, <1>6, <1>10, <2>2
    DEF Store!Upload, Store!Merged, Store!End, Store!Goto, UploadTable, Merged
  <2> QED BY <2>3 DEF Store!Next, Store!Record
<1> QED BY <1>8, <1>9, <1>10

\* An earlier suite's containers are the store's first batch; nobody else is launched.
LEMMA StoreInit == SuiteInit => Store!Init
<1> SUFFICES ASSUME SuiteInit PROVE Store!Init
  OBVIOUS
<1> DEFINE pcs == [w \in Writers |-> StorePc(w)]
           who == {w \in Writers : LaunchedWriter(w)}
<1>1. run = 1 /\ launched = [e \in Experiments |-> 0]
      /\ worker = [e \in Experiments |-> "idle"]
  BY DEF SuiteInit, Init
<1>2. \A w \in Writers : LaunchedWriter(w) <=> w[2] = 0
  BY <1>1, WriterParts DEF LaunchedWriter
<1>3. who \in {{}} \cup {Store!Members(w) : w \in Writers}
  <2>1. CASE Experiments = {}
    BY <2>1 DEF Writers
  <2>2. CASE Experiments # {}
    <3>1. PICK e \in Experiments : TRUE
      BY <2>2
    <3>2. PICK u \in Writers : u = <<e, 0>>
      <4>1. <<e, 0>> \in Writers
        BY OrchestratorAssumption DEF Writers
      <4> QED BY <4>1
    <3>3. \A w \in Writers : BatchOfWriter(w) = BatchOfWriter(u) <=> w[2] = 0
      BY <3>2 DEF BatchOfWriter
    <3>4. Store!Members(u) = who
      BY <1>2, <3>3 DEF Store!Members
    <3> QED BY <3>4
  <2> QED BY <2>1, <2>2
<1>4. ASSUME NEW w \in Writers
      PROVE  /\ pcs[w] \in {"ready", "raised"}
             /\ w \notin who => pcs[w] = "ready"
  <2>1. process[w] \in {"started", "dead", "none"} /\ (process[w] = "dead" => w[2] = 0)
    BY DEF SuiteInit
  <2>2. process[w] = "none" => w[2] # 0
    BY DEF SuiteInit
  <2> QED BY <1>2, <2>1, <2>2 DEF StorePc, NeverStarts
<1>5. pcs \in [Writers -> {"ready", "raised"}] /\ \A w \in Writers \ who : pcs[w] = "ready"
  BY <1>4
<1> QED BY <1>3, <1>5 DEF Store!Init, SuiteInit

\* Until az is first wrong, every step is one of the store or a stutter.
LEMMA StoreStep ==
  SuiteInv /\ [SuiteNext]_suiteVars => [doubtful' = {} => Store!Next]_(Store!vars)
<1> SUFFICES ASSUME SuiteInv, [SuiteNext]_suiteVars, doubtful' = {}
             PROVE  Store!Next \/ UNCHANGED Store!vars
  OBVIOUS
<1>1. CASE Step
  <2>1. misreported = {} /\ misreported' = {}
    BY <1>1 DEF Step, SuiteInv, SuiteTypes
  <2>2. ASSUME NEW e \in Experiments, Thread(e) \/ CreateRepeats(e) \/ PollRaises(e)
        PROVE  Store!Next \/ UNCHANGED Store!vars
    <3>1. ~CreateRepeats(e)
      BY <2>1 DEF CreateRepeats, Misreport
    <3> QED BY <1>1, <2>1, <2>2, <3>1, ThreadMoves
  <2>3. ASSUME NEW e \in Experiments, ContainerEnds(e) \/ ClearGroup(e) \/ ClearRaises(e)
        PROVE  Store!Next \/ UNCHANGED Store!vars
    BY <1>1, <2>1, <2>3, GroupMoves
  <2>4. ASSUME NEW e \in Experiments, LaunchBatch(e)
        PROVE  Store!Next
    BY <1>1, <2>1, <2>4, LaunchMoves
  <2>5. ASSUME NEW e \in Experiments, SkipCompleted(e) \/ SkipBeyondLimit(e)
        PROVE  UNCHANGED Store!vars
    BY <1>1, <2>1, <2>5, MainStutters DEF SkipCompleted, SkipBeyondLimit, SameRun, workerVars,
       azureVars
  <2>6. ASSUME EnterLoop \/ JoinBatch \/ LeaveLoop
        PROVE  UNCHANGED Store!vars
    BY <1>1, <2>1, <2>6, MainStutters DEF EnterLoop, JoinBatch, LeaveLoop, SameRun,
                                          workerVars,
       azureVars
  <2>7. EndRun => UNCHANGED Store!vars
    BY <1>1, <2>1, EndRunStutters
  <2> QED BY <1>1, <2>2, <2>3, <2>4, <2>5, <2>6, <2>7 DEF Step, Next, Main
<1>2. ASSUME NEW u \in Writers, BeginRow(u) \/ DownloadTable(u) \/ UploadTable(u)
      PROVE  Store!Next
  BY <1>2, RecordMoves
<1>3. CASE UNCHANGED suiteVars
  BY <1>3 DEF suiteVars, vars, mainVars, workerVars, azureVars, Store!vars, StorePc,
     NeverStarts, LaunchedWriter, Writers
<1> QED BY <1>1, <1>2, <1>3 DEF SuiteNext

\* Until az is first wrong about a group, whatever else fails, the orchestrator's
\* batches and barriers and the containers' steps are those MetadataStore allows.
THEOREM StoreRefinement == SuiteSpec => ImplementsStore
<1>1. SuiteInit => Store!Init
  BY StoreInit
<1>2. SuiteInv /\ [SuiteNext]_suiteVars => [doubtful' = {} => Store!Next]_(Store!vars)
  BY StoreStep
<1> QED BY <1>1, <1>2, SuiteInductive, PTL DEF SuiteSpec, ImplementsStore

-----------------------------------------------------------------------------
(***************************************************************************)
(* What MetadataStoreProofs shows of the table is therefore true of the    *)
(* suite's, until az is first wrong.                                       *)
(***************************************************************************)

StoreProofs == INSTANCE MetadataStoreProofs WITH
  Batch    <- [w \in Writers |-> BatchOfWriter(w)],
  launched <- {w \in Writers : LaunchedWriter(w)},
  pc       <- [w \in Writers |-> StorePc(w)],
  storage  <- TRUE

\* The store the suite refines is the one the theorems about MetadataStore are of.
LEMMA SameStore ==
  /\ Store!Init <=> StoreProofs!Init
  /\ Store!Next <=> StoreProofs!Next
  /\ Store!vars = StoreProofs!vars /\ Store!vars' = StoreProofs!vars'
<1> USE DEF Store!Members, StoreProofs!Members, Store!Ended, StoreProofs!Ended,
            Store!Goto, StoreProofs!Goto, Store!End, StoreProofs!End
<1>1. Store!Init <=> StoreProofs!Init
  BY DEF Store!Init, StoreProofs!Init
<1>2. ASSUME NEW w \in Writers
      PROVE  /\ Store!LaunchBatch(w) <=> StoreProofs!LaunchBatch(w)
             /\ Store!Record(w) <=> StoreProofs!Record(w)
             /\ Store!Die(w) <=> StoreProofs!Die(w)
  <2>1. Store!LaunchBatch(w) <=> StoreProofs!LaunchBatch(w)
    BY DEF Store!LaunchBatch, StoreProofs!LaunchBatch, Store!AllEnded, StoreProofs!AllEnded
  <2>2. Store!Record(w) <=> StoreProofs!Record(w)
    <3>1. /\ Store!FindStorageMissing(w) <=> StoreProofs!FindStorageMissing(w)
          /\ Store!FindStorage(w) <=> StoreProofs!FindStorage(w)
      BY DEF Store!FindStorageMissing, StoreProofs!FindStorageMissing,
             Store!FindStorage, StoreProofs!FindStorage
    <3>2. /\ Store!CreateStorage(w) <=> StoreProofs!CreateStorage(w)
          /\ Store!CreateRefused(w) <=> StoreProofs!CreateRefused(w)
      BY DEF Store!CreateStorage, StoreProofs!CreateStorage,
             Store!CreateRefused, StoreProofs!CreateRefused
    <3>3. Store!Download(w) <=> StoreProofs!Download(w)
      BY DEF Store!Download, StoreProofs!Download
    <3>4. Store!Upload(w) <=> StoreProofs!Upload(w)
      BY DEF Store!Upload, StoreProofs!Upload, Store!Merged, StoreProofs!Merged
    <3> QED BY <3>1, <3>2, <3>3, <3>4 DEF Store!Record, StoreProofs!Record
  <2>3. Store!Die(w) <=> StoreProofs!Die(w)
    BY DEF Store!Die, StoreProofs!Die
  <2> QED BY <2>1, <2>2, <2>3
<1>3. Store!Next <=> StoreProofs!Next
  BY <1>2 DEF Store!Next, StoreProofs!Next
<1>4. Store!vars = StoreProofs!vars /\ Store!vars' = StoreProofs!vars'
  BY DEF Store!vars, StoreProofs!vars
<1> QED BY <1>1, <1>3, <1>4

TableInv == doubtful = {} => StoreProofs!IInv

\* The invariant of MetadataStore holds at first.
LEMMA TableInitially == SuiteInit => TableInv
<1>1. DOMAIN [w \in Writers |-> BatchOfWriter(w)] = Writers
  OBVIOUS
<1> QED BY <1>1, StoreInit, SameStore, StoreProofs!StoreInitially DEF TableInv

\* The invariant of MetadataStore holds as long as az has been right.
LEMMA TablePreserved == SuiteInv /\ TableInv /\ [SuiteNext]_suiteVars => TableInv'
<1> SUFFICES ASSUME SuiteInv, TableInv, [SuiteNext]_suiteVars, doubtful' = {}
             PROVE  StoreProofs!IInv'
  BY DEF TableInv
<1>1. doubtful = {}
  BY DEF SuiteNext, Step, BeginRow, DownloadTable, UploadTable, suiteVars
<1>2. [StoreProofs!Next]_(StoreProofs!vars)
  BY StoreStep, SameStore
<1>3. DOMAIN [w \in Writers |-> BatchOfWriter(w)] = Writers
  OBVIOUS
<1> QED BY <1>1, <1>2, <1>3, StoreProofs!StepInv DEF TableInv

\* Until az is first wrong about a group, every batch that recorded anything has a row
\* of its run in the table, and an experiment without related ones its own.
THEOREM RowsSurvive == SuiteSpec => []BatchLeavesRow
<1>1. SuiteInv /\ TableInv => BatchLeavesRow
  <2> SUFFICES ASSUME SuiteInv, StoreProofs!IInv,
                      NEW w \in Writers, w[2] > 0, process[w] = "recorded"
               PROVE  \E e \in BatchOf(w[1]) : <<e, w[2]>> \in table
    BY DEF TableInv, BatchLeavesRow
  <2>1. StorePc(w) = "done"
    BY DEF StorePc, NeverStarts
  <2>2. PICK v \in StoreProofs!Members(w) \cup {w} : v \in table
    BY <2>1 DEF StoreProofs!IInv, StoreProofs!SomeRowOfBatchSurvives, StoreProofs!Peers
  <2>3. v \in Writers /\ v[1] \in BatchOf(w[1]) /\ v[2] = w[2]
    <3>1. StoreProofs!Members(w) = Store!Members(w)
      BY DEF StoreProofs!Members, Store!Members
    <3>2. w[1] \in BatchOf(w[1])
      BY DEF BatchOf
    <3> QED BY <2>2, <3>1, <3>2, BatchMembers
  <2>4. v = <<v[1], w[2]>>
    BY <2>3, WriterParts
  <2> QED BY <2>2, <2>3, <2>4
<1>2. SuiteSpec => []TableInv
  BY TableInitially, TablePreserved, SuiteInductive, PTL DEF SuiteSpec
<1> QED BY <1>1, <1>2, SuiteInductive, PTL
=============================================================================
