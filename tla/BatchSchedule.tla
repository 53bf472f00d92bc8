--------------------------- MODULE BatchSchedule ---------------------------
(***************************************************************************)
(* What the orchestrator promises about the order of experiments, without  *)
(* threads, containers or failures: in every benchmark run the batches of  *)
(* related experiments are run one after another, each experiment at most  *)
(* once, and the next run starts when none is left.                        *)
(***************************************************************************)
EXTENDS Integers, FiniteSets

CONSTANTS
  Experiments,  \* ids in benchmarks.yml
  Related,      \* related_script_ids of each experiment
  RunsLimit,    \* "runs" of each experiment
  Runs          \* Config.BENCHMARK_RUNS

VARIABLES
  run,       \* the benchmark run in progress
  pending,   \* experiments this run has not dealt with
  inFlight   \* the batch being run, {} between batches

vars == <<run, pending, inFlight>>

BatchOf(e) == {e} \cup Related[e]

Init == run = 1 /\ pending = Experiments /\ inFlight = {}

\* The next batch is launched, all of its members at once.
Launch(e) ==
  /\ inFlight = {}
  /\ BatchOf(e) \subseteq pending
  /\ run <= RunsLimit[e]
  /\ inFlight' = BatchOf(e)
  /\ pending' = pending \ BatchOf(e)
  /\ UNCHANGED run

\* A batch whose experiments have been run often enough is passed over.
PassOver(e) ==
  /\ inFlight = {}
  /\ BatchOf(e) \subseteq pending
  /\ run > RunsLimit[e]
  /\ pending' = pending \ BatchOf(e)
  /\ UNCHANGED <<run, inFlight>>

Complete ==
  /\ inFlight # {}
  /\ inFlight' = {}
  /\ UNCHANGED <<run, pending>>

NextRun ==
  /\ inFlight = {} /\ pending = {}
  /\ run < Runs
  /\ run' = run + 1
  /\ pending' = Experiments
  /\ UNCHANGED inFlight

Next ==
  \/ \E e \in pending : Launch(e) \/ PassOver(e)
  \/ Complete
  \/ NextRun

Spec == Init /\ [][Next]_vars
=============================================================================
