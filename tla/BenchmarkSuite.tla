--------------------------- MODULE BenchmarkSuite ---------------------------
(***************************************************************************)
(* The orchestrator together with what runs inside its containers: the     *)
(* benchmark runner (benchmark_runner.py), which runs one benchmark and    *)
(* appends its row to the shared metadata table.                           *)
(*                                                                         *)
(* A writer is the container of an experiment in one benchmark run; run 0  *)
(* stands for an earlier suite, whose containers may still be alive.  A    *)
(* writer lives as long as its container group runs: deleting the group or *)
(* starting another container under its name kills it wherever it is.      *)
(* The measured loop is one step here (Monitor has it in detail), and the  *)
(* storage container of the table exists.                                  *)
(***************************************************************************)
EXTENDS Orchestrator

CONSTANTS
  Entrypoints,  \* experiments benchmark_runner has a function for
  Skipped,      \* experiments with a "skip" entry in benchmarks.yml
  MaxDoubtful   \* bound: container groups az is ever wrong about

ASSUME SuiteAssumption ==
  /\ Entrypoints \subseteq Experiments /\ Skipped \subseteq Experiments
  /\ MaxDoubtful \in Nat

VARIABLES
  process,  \* where the process of each writer is
  table,    \* rows of benchmark_metadata.parquet, named by their writers
  copy,     \* rows each writer downloaded
  doubtful  \* history: groups az has been wrong about at some time in this suite

suiteVars == <<vars, process, table, copy, doubtful>>

Writers == Experiments \X (0 .. Runs)

Alive == {"started", "download", "upload"}

\* The container of w is the one that runs in the group of its experiment.
Running(w) == group[w[1]] = "running" /\ origin[w[1]] = w[2]

-----------------------------------------------------------------------------
(***************************************************************************)
(* Inside a container.                                                     *)
(***************************************************************************)

Enter(w, label) == process' = [process EXCEPT ![w] = label]

\* benchmark_runner: a skipped experiment records a row without iterations; an
\* unknown id raises; everything else runs, and records when its loop is over.
Dispatches(e) == e \in Skipped \/ e \in Entrypoints

BeginRow(w) ==
  /\ process[w] = "started" /\ Dispatches(w[1])
  /\ Enter(w, "download")
  /\ UNCHANGED <<vars, table, copy, doubtful>>

DownloadTable(w) ==
  /\ process[w] = "download"
  /\ copy' = [copy EXCEPT ![w] = table]
  /\ Enter(w, "upload")
  /\ UNCHANGED <<vars, table, doubtful>>

\* A mistake: the uploaded table holds only the new entry.
EntryOnly(w) == {w}

Merged(w) == copy[w] \cup {w}

UploadTable(w) ==
  /\ process[w] = "upload"
  /\ table' = Merged(w)
  /\ copy' = [copy EXCEPT ![w] = {}]
  /\ Enter(w, "recorded")
  /\ UNCHANGED <<vars, doubtful>>

-----------------------------------------------------------------------------
(***************************************************************************)
(* What a step of the orchestrator, or of Azure, does to the containers.   *)
(***************************************************************************)

\* The containers that may start anew: the command that creates them is repeated.
Restartable ==
  {w \in Writers : /\ worker[w[1]] = "create" /\ origin[w[1]] = run /\ w[2] = run
                   /\ Running(w)'}

\* The process of w after the step, unless its container starts anew.
ProcessAfter(w) ==
  IF Running(w)' THEN IF Running(w) THEN process[w] ELSE "started"
  ELSE IF process[w] \in Alive THEN "dead" ELSE process[w]

\* A mistake: the container exits with zero whatever happened inside.
ExitIgnored(w) == TRUE

\* The exit code is zero only if benchmark_runner returned, with the row uploaded.
\* After that it may still fail, while it queries the costs.
ExitReported(w) == group'[w[1]] = "succeeded" => process[w] = "recorded"

Step ==
  /\ Next
  /\ \A w \in Writers : Running(w) => ExitReported(w)
  /\ \E restarted \in SUBSET Restartable :
       process' = [w \in Writers |-> IF w \in restarted THEN "started" ELSE ProcessAfter(w)]
  /\ copy' = [w \in Writers |-> IF process'[w] \in {"started", "dead"} THEN {} ELSE copy[w]]
  /\ doubtful' = doubtful \cup misreported'
  /\ Cardinality(doubtful') <= MaxDoubtful
  /\ UNCHANGED table

SuiteInit ==
  /\ Init
  /\ process = [w \in Writers |-> IF Running(w) THEN "started"
                                  ELSE IF w[2] = 0 THEN "dead" ELSE "none"]
  /\ table = {}
  /\ copy = [w \in Writers |-> {}]
  /\ doubtful = {}

SuiteNext ==
  \/ Step
  \/ \E w \in Writers : BeginRow(w) \/ DownloadTable(w) \/ UploadTable(w)

SuiteSpec == SuiteInit /\ [][SuiteNext]_suiteVars

-----------------------------------------------------------------------------
(***************************************************************************)
(* Properties                                                              *)
(***************************************************************************)

\* An experiment the orchestrator counts as successful has uploaded its row in
\* this benchmark run, whatever group az showed to the thread that polled it.
SuccessIsRecorded ==
  \A e \in batch : main = "batch" /\ result[e] = "ok" => process[<<e, run>>] = "recorded"

\* The batch a writer was launched with; what an earlier suite left behind counts
\* as one batch.
BatchOfWriter(w) == <<IF w[2] = 0 THEN Experiments ELSE BatchOf(w[1]), w[2]>>

\* As long as az has told the truth, the containers use the table as MetadataStore
\* says: the barrier between batches that OnlyPeersLoseRows,
\* SomeRowOfBatchSurvives and SettledRowsStay rest on is the orchestrator's.
LaunchedWriter(w) ==
  CASE w[2] = run -> launched[w[1]] > 0
    [] w[2] = 0   -> TRUE
    [] OTHER      -> w[2] < run /\ w[2] <= RunsLimit[w[1]]

NeverStarts(w) == process[w] = "none" /\ LaunchedWriter(w)
                  /\ (w[2] < run \/ worker[w[1]] = "ended")

StorePc(w) ==
  CASE process[w] = "recorded"                  -> "done"
    [] process[w] = "dead" \/ NeverStarts(w)    -> "raised"
    [] process[w] \in {"download", "upload"}    -> process[w]
    [] OTHER                                    -> "ready"

Store == INSTANCE MetadataStore WITH
  Batch    <- [w \in Writers |-> BatchOfWriter(w)],
  launched <- {w \in Writers : LaunchedWriter(w)},
  pc       <- [w \in Writers |-> StorePc(w)],
  storage  <- TRUE

ImplementsStore == Store!Init /\ [][doubtful' = {} => Store!Next]_(Store!vars)

\* As long as az has told the truth, a batch that recorded anything in a run has a
\* row of that run in the table, through all later batches and runs and whatever
\* else fails: an experiment without related ones keeps its own row.
BatchLeavesRow ==
  doubtful = {} =>
    \A w \in Writers : w[2] > 0 /\ process[w] = "recorded" =>
      \E e \in BatchOf(w[1]) : <<e, w[2]>> \in table
=============================================================================
