------------------------------ MODULE Monitor ------------------------------
(***************************************************************************)
(* The measurement loop of the @monitor decorator (monitor.py): for every  *)
(* benchmark run it makes the warmup calls, then timed calls until a       *)
(* stopping rule fires, saving one sample blob per timed call; then it     *)
(* writes the metadata row and one cost row per configured component.      *)
(*                                                                         *)
(* Clocks are abstracted to the time spent inside the measured calls, in   *)
(* whole units: a call lasts some d \in Durations.  The bootstrapped       *)
(* confidence interval is abstracted to its verdict, a free Boolean.       *)
(* Every benchmark run is a process of its own (a container), which may    *)
(* die at any step: an exception that no handler catches (a failing blob   *)
(* upload, a failing metrics query) or a deleted container.                *)
(***************************************************************************)
EXTENDS Integers, FiniteSets

CONSTANTS
  Runs,               \* benchmark runs sharing one run_id
  Warmups,            \* effective_warmup_iterations, 0 for skip_warmup
  Ceiling,            \* benchmark_iteration.value
  Kinds,              \* kinds of benchmarks
  MinIterations,      \* Config.BENCHMARK_MIN_ITERATIONS
  MinWindow,          \* Config.BENCHMARK_MIN_TIMED_WINDOW_SECONDS
  MaxTimedWindow,     \* Config.BENCHMARK_MAX_TIMED_WINDOW_SECONDS
  MaxFixedWindow,     \* Config.BENCHMARK_MAX_FIXED_WINDOW_SECONDS
  MaxIteration,       \* Config.BENCHMARK_MAX_ITERATION_SECONDS
  MaxConsecutive,     \* Config.BENCHMARK_MAX_CONSECUTIVE_FAILURES
  Durations,          \* how long one measured call may last
  CostComponents      \* components the CostConfiguration includes

\* How the entrypoints parameterise the decorator: query benchmarks stop
\* sequentially, the national-scale joins make a fixed number of calls, and those
\* that run as a notebook report their own elapsed time.
AllKinds == {"query", "join", "notebook"}

ComponentOrder == [aci |-> 1, blob |-> 2, postgres |-> 3, databricks |-> 4]

ASSUME MonitorAssumption ==
  /\ Runs \in Nat
  /\ Warmups \in Nat
  /\ Ceiling \in Nat \ {0}
  /\ Kinds \subseteq AllKinds
  /\ MinIterations \in Nat \ {0}
  /\ MinWindow \in Nat
  /\ MaxTimedWindow \in Nat /\ MaxFixedWindow \in Nat /\ MaxIteration \in Nat
  /\ MaxConsecutive \in Nat \ {0}
  /\ Durations \subseteq Nat \ {0}
  /\ CostComponents \subseteq DOMAIN ComponentOrder

VARIABLES
  kind,         \* the kind of benchmark the run_id is about
  run,          \* the benchmark run in progress or just ended, 0 before the first
  phase,        \* where the wrapper is
  warmed,       \* warmup calls that returned
  warmTime,     \* time since start_time spent in warmup calls
  window,       \* time since timed_loop_start
  iteration,    \* timed calls made
  achieved,     \* len(elapsed_samples)
  failed,       \* failed_iterations
  consecutive,  \* consecutive_failures
  failure,      \* a warmup call raised
  stop,         \* the reason the loops ended with
  overrun,      \* history: some call of this run lasted MaxIteration or more
  samples,      \* sample blobs in the benchmarks container
  rows,         \* metadata rows
  costs         \* cost blobs

loopVars == <<warmed, warmTime, window, iteration, achieved, failed,
              consecutive, failure, stop, overrun>>
blobVars == <<samples, rows, costs>>
vars == <<kind, run, phase, loopVars, blobVars>>

Live  == {"warmup", "timed", "finish", "record", "cost"}
Ended == {"returned", "dead"}

LoopStops   == {"precision", "ceiling", "fixed", "timeout", "failed"}
StopReasons == LoopStops \cup {"partial"}

Sequential == kind = "query"          \* use_sequential_stopping

ElapsedFromResult == kind = "notebook"   \* elapsed_from_result

MaxWindow == IF Sequential THEN MaxTimedWindow ELSE MaxFixedWindow

(***************************************************************************)
(* Sample blobs.  The blob path holds the benchmark run and the global     *)
(* iteration; "of" stands for the content, the call that was measured.     *)
(* An upload with overwrite=True replaces the blob with the same path.     *)
(***************************************************************************)
GlobalIteration(r, i) == i + Ceiling * (r - 1)

\* A mistake: the blob path without its benchmark_run part.
SamplePathOfIterationOnly(r, i) == <<1, GlobalIteration(r, i)>>

SamplePath(r, i) == <<r, GlobalIteration(r, i)>>

Sample(r, i, status) ==
  [path |-> SamplePath(r, i), of |-> <<r, i>>, status |-> status]

\* A mistake: only successful iterations are uploaded.
SaveRunOfSuccess(i, status) ==
  IF status = "success" THEN samples' = samples \cup {Sample(run, i, status)}
  ELSE UNCHANGED samples

SaveRun(i, status) ==
  samples' = {s \in samples : s.path # SamplePath(run, i)}
               \cup {Sample(run, i, status)}

(***************************************************************************)
(* The wrapper is entered; range(0) makes no warmup call.                  *)
(***************************************************************************)
StartRun ==
  /\ phase \in Ended \cup {"idle"}
  /\ run < Runs
  /\ run' = run + 1
  /\ phase' = IF Warmups = 0 THEN "timed" ELSE "warmup"
  /\ warmed' = 0 /\ warmTime' = 0 /\ window' = 0 /\ iteration' = 0
  /\ achieved' = 0 /\ failed' = 0 /\ consecutive' = 0
  /\ failure' = FALSE /\ overrun' = FALSE
  /\ stop' = "none"
  /\ UNCHANGED <<kind, blobVars>>

\* Time passes inside a warmup call that lasts d.
SpendWarmup(d) ==
  /\ warmTime' = warmTime + d
  /\ overrun' = (overrun \/ d >= MaxIteration)

\* A raising warmup call skips the timed iterations, however long it took.
WarmupRaises(d) ==
  /\ phase = "warmup"
  /\ SpendWarmup(d)
  /\ failure' = TRUE
  /\ phase' = "finish"
  /\ UNCHANGED <<kind, run, warmed, window, iteration, achieved, failed,
                 consecutive, stop, blobVars>>

WarmupReturns(d) ==
  /\ phase = "warmup"
  /\ SpendWarmup(d)
  /\ warmed' = warmed + 1
  /\ \/ /\ d >= MaxIteration
        /\ stop' = "timeout" /\ phase' = "finish"
     \/ /\ d < MaxIteration
        /\ stop' = stop
        /\ phase' = IF warmed + 1 = Warmups THEN "timed" ELSE "warmup"
  /\ UNCHANGED <<kind, run, window, iteration, achieved, failed, consecutive,
                 failure, blobVars>>

(***************************************************************************)
(* The end of the loop body: the checks every timed call that neither      *)
(* broke the failure streak limit nor the per-iteration limit goes on to.  *)
(* n calls made, a of them successful, w the timed window; "none" means    *)
(* the loop goes round again.                                              *)
(***************************************************************************)
FixedStop(n) == IF n >= Ceiling THEN "fixed" ELSE "none"

\* A mistake: the ceiling ends the loop before the window floor is met.
SequentialStopHardCeiling(n, a, w, precise) ==
  IF a >= MinIterations /\ w >= MinWindow /\ precise THEN "precision"
  ELSE IF n >= Ceiling THEN "ceiling"
  ELSE "none"

SequentialStop(n, a, w, precise) ==
  IF a >= MinIterations /\ w >= MinWindow /\ precise THEN "precision"
  ELSE IF n >= Ceiling /\ w >= MinWindow THEN "ceiling"
  ELSE "none"

\* A mistake: the cap must be exceeded, not reached.
WindowStopPastCap(n, a, w, precise) ==
  IF w > MaxWindow THEN "timeout"
  ELSE IF Sequential THEN SequentialStop(n, a, w, precise)
  ELSE FixedStop(n)

WindowStop(n, a, w, precise) ==
  IF w >= MaxWindow THEN "timeout"
  ELSE IF Sequential THEN SequentialStop(n, a, w, precise)
  ELSE FixedStop(n)

\* Counters and clocks of a timed call that lasts d, and where it leads.
EndIteration(d, reason) ==
  /\ iteration' = iteration + 1
  /\ window' = window + d
  /\ overrun' = (overrun \/ d >= MaxIteration)
  /\ stop' = reason
  /\ phase' = IF reason = "none" THEN "timed" ELSE "finish"
  /\ UNCHANGED <<kind, run, warmed, warmTime, failure, rows, costs>>

StreakAfterFailure == consecutive + 1
\* A mistake: a success does not reset the streak.
StreakNeverReset == consecutive

StreakAfterSuccess == 0

FailureStop(d, precise) ==
  IF StreakAfterFailure >= MaxConsecutive THEN "failed"
  ELSE WindowStop(iteration + 1, achieved, window + d, precise)

IterationRaises(d, precise) ==
  /\ phase = "timed"
  /\ failed' = failed + 1
  /\ consecutive' = StreakAfterFailure
  /\ achieved' = achieved
  /\ SaveRun(iteration + 1, "failed")
  /\ EndIteration(d, FailureStop(d, precise))

\* The elapsed time a successful call counts as: the wall clock's, or what
\* the notebook reports, which leaves its queueing and polling out.
ElapsedTimes(d) ==
  IF ElapsedFromResult THEN {e \in Durations : e <= d} ELSE {d}

\* A mistake: the limit of a call is checked after those of the window.
SuccessStopWindowFirst(d, elapsed, precise) ==
  IF WindowStop(iteration + 1, achieved + 1, window + d, precise) # "none"
  THEN WindowStop(iteration + 1, achieved + 1, window + d, precise)
  ELSE IF elapsed >= MaxIteration THEN "timeout" ELSE "none"

SuccessStop(d, elapsed, precise) ==
  IF elapsed >= MaxIteration THEN "timeout"
  ELSE WindowStop(iteration + 1, achieved + 1, window + d, precise)

IterationReturns(d, elapsed, precise) ==
  /\ phase = "timed"
  /\ achieved' = achieved + 1
  /\ consecutive' = StreakAfterSuccess
  /\ failed' = failed
  /\ SaveRun(iteration + 1, "success")
  /\ EndIteration(d, SuccessStop(d, elapsed, precise))

(***************************************************************************)
(* After the loops.  A warmup failure leaves one failed sample, numbered   *)
(* "failure_iteration or 1" where failure_iteration is 0.                  *)
(***************************************************************************)
\* A mistake: costs are computed before the metadata row is written.
FinishWithCosts ==
  /\ phase = "finish"
  /\ phase' = "cost"
  /\ IF failure THEN SaveRun(1, "failed") ELSE UNCHANGED samples
  /\ UNCHANGED <<kind, run, loopVars, rows, costs>>

Finish ==
  /\ phase = "finish"
  /\ phase' = "record"
  /\ IF failure THEN SaveRun(1, "failed") ELSE UNCHANGED samples
  /\ UNCHANGED <<kind, run, loopVars, rows, costs>>

\* A mistake: an isolated failure is not turned into PARTIAL.
FinalReasonWithoutPartial == IF failure THEN "failed" ELSE stop

FinalReason ==
  IF failure THEN "failed"
  ELSE IF stop # "failed" /\ failed > 0 THEN "partial"
  ELSE stop

SaveRunMetadata ==
  /\ phase = "record"
  /\ phase' = "cost"
  /\ rows' = rows \cup
       {[run |-> run, achieved |-> achieved, failed |-> failed, stop |-> FinalReason]}
  /\ UNCHANGED <<kind, run, loopVars, samples, costs>>

Written == {c.component : c \in {x \in costs : x.run = run}}

\* Components still to be computed and written, in the code's order.
Due == CostComponents \ Written

\* Seconds between start_time and end_time.
CostSeconds == warmTime + window

SaveCost(c) ==
  /\ phase = "cost"
  /\ c \in Due
  /\ \A b \in Due : ComponentOrder[c] <= ComponentOrder[b]
  /\ costs' = costs \cup
       {[run |-> run, component |-> c, seconds |-> CostSeconds, timed |-> window]}
  /\ UNCHANGED <<kind, run, phase, loopVars, samples, rows>>

Return ==
  /\ phase = "cost"
  /\ Due = {}
  /\ phase' = "returned"
  /\ UNCHANGED <<kind, run, loopVars, blobVars>>

\* The process ends between two steps; what was uploaded stays.
Die ==
  /\ phase \in Live
  /\ phase' = "dead"
  /\ UNCHANGED <<kind, run, loopVars, blobVars>>

Init ==
  /\ kind \in Kinds
  /\ run = 0 /\ phase = "idle"
  /\ warmed = 0 /\ warmTime = 0 /\ window = 0 /\ iteration = 0
  /\ achieved = 0 /\ failed = 0 /\ consecutive = 0
  /\ failure = FALSE /\ overrun = FALSE
  /\ stop = "none"
  /\ samples = {} /\ rows = {} /\ costs = {}

MeasuredCall ==
  \E d \in Durations :
    \/ WarmupRaises(d)
    \/ WarmupReturns(d)
    \/ \E precise \in BOOLEAN :
         \/ IterationRaises(d, precise)
         \/ \E elapsed \in ElapsedTimes(d) : IterationReturns(d, elapsed, precise)

Step ==
  \/ StartRun
  \/ MeasuredCall
  \/ Finish
  \/ SaveRunMetadata
  \/ \E c \in CostComponents : SaveCost(c)
  \/ Return

Next == Step \/ Die

Spec == Init /\ [][Next]_vars

-----------------------------------------------------------------------------
(***************************************************************************)
(* Properties                                                              *)
(***************************************************************************)

\* Every variable stays in its domain; a metadata row holds a StopReason value.
TypeOK ==
  /\ kind \in Kinds
  /\ run \in 0 .. Runs
  /\ phase \in Live \cup Ended \cup {"idle"}
  /\ warmed \in 0 .. Warmups
  /\ warmTime \in Nat /\ window \in Nat /\ iteration \in Nat
  /\ achieved \in Nat /\ failed \in Nat /\ consecutive \in Nat
  /\ failure \in BOOLEAN /\ overrun \in BOOLEAN
  /\ stop \in LoopStops \cup {"none"}
  /\ samples \subseteq [path : (1 .. Runs) \X Nat, of : (1 .. Runs) \X Nat,
                        status : {"success", "failed"}]
  /\ rows \subseteq [run : 1 .. Runs, achieved : Nat, failed : Nat, stop : StopReasons]
  /\ costs \subseteq [run : 1 .. Runs, component : CostComponents,
                      seconds : Nat, timed : Nat]

\* What the present run has recorded so far.
OwnRows    == {r \in rows : r.run = run}
OwnCosts   == {c \in costs : c.run = run}
OwnSamples == {s \in samples : s.of[1] = run}

\* Whenever the loop goes round again, no limit is reached: the window is below
\* its hard cap, the failure streak below its limit, and the iteration count
\* below the ceiling unless the window is still below its floor (the soft
\* ceiling of sequential stopping).  So every run is bounded by the clock.
LoopWithinLimits ==
  phase = "timed" /\ iteration > 0 =>
    /\ window < MaxWindow
    /\ consecutive < MaxConsecutive
    /\ iteration < Ceiling \/ (Sequential /\ window < MinWindow)

\* The stop reason in a run's metadata row is backed by what the loop did:
\* "precision" and "ceiling" only with clean, long enough measurements,
\* "fixed" only with exactly the configured number of successes, "partial" only
\* with an isolated failure, "failed" only after a failure streak or a failed
\* warmup, "timeout" only when a call or the window reached its limit.
StopReasonIsEarned ==
  \A r \in OwnRows :
    /\ r.stop \in {"precision", "ceiling", "fixed"} => failed = 0 /\ ~failure
    /\ r.stop = "precision" => achieved >= MinIterations /\ window >= MinWindow
    /\ r.stop = "ceiling" => achieved >= Ceiling /\ window >= MinWindow
    /\ r.stop = "fixed" => achieved = Ceiling
    /\ r.stop = "partial" => failed > 0 /\ consecutive < MaxConsecutive
    /\ r.stop = "failed" => failure \/ consecutive >= MaxConsecutive
    /\ r.stop = "timeout" => overrun \/ window >= MaxWindow

\* A call that reached the limit of one call leaves its mark, wherever in the run it
\* was: it is the last call, unless it raised, in which case the limit is not even
\* looked at, and the row of its run never says that the measurement ended as planned.
\* Notebooks are judged by the time they report, not by that of the call.
CallOverLimitIsTold ==
  overrun /\ ~ElapsedFromResult =>
    /\ phase \in {"warmup", "timed"} => failed > 0
    /\ \A r \in OwnRows : r.stop \in {"timeout", "partial", "failed"}

\* A run that is recorded as failed, though its warmup succeeded, ended in
\* MaxConsecutive failed samples: a success in between starts the count anew.
FailedAfterStreak ==
  \A r \in OwnRows : r.stop = "failed" /\ ~failure =>
    \A k \in 1 .. MaxConsecutive :
      \E s \in OwnSamples : /\ s.of[2] = r.achieved + r.failed + 1 - k
                            /\ s.status = "failed"

\* A metadata row accounts for every sample blob of its run: the samples are
\* numbered 1 .. achieved + failed without a gap, as many of them are successes
\* as the row says; only a failed warmup leaves one failed sample and a row of
\* zero iterations.
RowAccountsForSamples ==
  \A r \in OwnRows :
    IF failure
    THEN /\ r.achieved = 0 /\ r.failed = 0
         /\ OwnSamples = {Sample(run, 1, "failed")}
    ELSE /\ {s.of[2] : s \in OwnSamples} = 1 .. (r.achieved + r.failed)
         /\ Cardinality({s \in OwnSamples : s.status = "success"}) = r.achieved

\* A cost blob never comes before the metadata row of its run, and a run has at
\* most one row: whatever dies on the way, costs can be joined to metadata.
CostsFollowRow ==
  /\ \A c \in costs : \E r \in rows : r.run = c.run
  /\ \A r, q \in rows : r.run = q.run => r = q

\* The window a sequential benchmark is costed over holds a usable data point of
\* the one-minute metric buckets: whenever the loop stopped because it was
\* precise enough or had enough iterations, also past some failures, the timed
\* part of the costed window reaches the floor (the reason for the soft ceiling).
CostWindowReachesFloor ==
  stop \in {"precision", "ceiling"} => \A c \in OwnCosts : c.timed >= MinWindow

\* README.md:199-200: "Cost analytics are computed once per benchmark over the
\* wall-clock window that covers the timed iterations only.  Warmup is excluded."
CostsExcludeWarmup == \A c \in costs : c.timed > 0 => c.seconds = c.timed

\* No upload ever replaces a sample: the paths of all iterations of all runs
\* differ, even where the soft ceiling lets the global iteration numbers of
\* two benchmark runs overlap.
SamplesNeverOverwritten == [][samples \subseteq samples']_vars

=============================================================================
