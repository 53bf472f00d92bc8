--------------------------- MODULE MonitorProofs ---------------------------
(***************************************************************************)
(* Theorems about Monitor, for every value of its constants.               *)
(*                                                                         *)
(* The inductive invariant IInv ties the row a run has written to the      *)
(* counters the loop left (RowInv), the loop's stop reason to the same     *)
(* counters (LoopInv) and every sample blob to the iteration it measured   *)
(* (SampleInv).  On top of it, OwnInv counts the samples of the present    *)
(* run, and JoinInv follows the order of its rows.                         *)
(***************************************************************************)
EXTENDS Monitor, FiniteSetTheorems, TLAPS

\* No row of the present run exists before SaveRunMetadata, and from then on
\* the loop's counters and stop reason are the ones the row was made of.
RowInv ==
  \A r \in rows :
    /\ r.run <= run
    /\ r.run = run =>
         /\ phase \in {"cost", "returned", "dead"}
         /\ failure \/ stop # "none"
         /\ r.achieved = achieved /\ r.failed = failed /\ r.stop = FinalReason

\* Where the wrapper is: a benchmark run is in progress once it was entered, a
\* warmup call is still to be made in the warmup loop, and the metadata step is
\* reached only with a reason to record.
PhaseInv ==
  /\ phase # "idle" => run \in 1 .. Runs
  /\ phase = "warmup" => warmed < Warmups
  /\ phase \in {"finish", "record", "cost", "returned"} => failure \/ stop # "none"

\* What the counters say about the loop, and what its stop reason says about them.
LoopInv ==
  /\ iteration = achieved + failed
  /\ phase \in {"warmup", "idle"} => iteration = 0 /\ stop = "none" /\ ~failure
  /\ phase = "timed" => stop = "none" /\ ~failure /\ consecutive < MaxConsecutive
  /\ iteration = 0 => consecutive = 0
  /\ consecutive > 0 => failed > 0
  /\ failure => iteration = 0 /\ stop = "none"
  /\ stop = "precision" => achieved >= MinIterations /\ window >= MinWindow
  /\ stop = "ceiling" => iteration >= Ceiling /\ window >= MinWindow
  /\ stop = "fixed" => iteration = Ceiling
  /\ stop = "failed" <=> consecutive >= MaxConsecutive
  /\ stop = "timeout" => overrun \/ window >= MaxWindow

\* A sample blob lies at the path of the call it measured, and that call has
\* been made: the next iteration's path is free.
SampleInv ==
  \A s \in samples :
    /\ s.of[1] <= run
    /\ s.path = SamplePath(s.of[1], s.of[2])
    /\ s.of[1] = run =>
         s.of[2] <= iteration \/ (failure /\ phase \notin {"warmup", "timed", "finish"})

\* A cost blob of the present run holds the loop's final window.
CostInv ==
  \A c \in costs :
    /\ c.run <= run
    /\ c.run = run => phase \in {"cost", "returned", "dead"} /\ c.timed = window

IInv == TypeOK /\ PhaseInv /\ LoopWithinLimits /\ LoopInv /\ RowInv /\ SampleInv /\ CostInv

-----------------------------------------------------------------------------
\* The paths of two calls of one run coincide only if the calls do: the global
\* iteration number is injective within a run.  (GlobalIteration, SamplePath.)
LEMMA PathInjective ==
  ASSUME NEW r \in Nat, NEW q \in Nat, NEW i \in Nat, NEW j \in Nat,
         SamplePath(r, i) = SamplePath(q, j)
  PROVE  r = q /\ i = j
<1>1. r = q /\ i + Ceiling * (r - 1) = j + Ceiling * (q - 1)
  BY DEF SamplePath, GlobalIteration
<1>2. Ceiling * (r - 1) \in Int
  BY MonitorAssumption
<1> QED
  BY <1>1, <1>2

\* What the checks at the end of the loop body can answer.
LEMMA WindowStopMeaning ==
  ASSUME NEW n \in Nat, NEW a \in Nat, NEW w \in Nat, NEW precise \in BOOLEAN,
         NEW reason, reason = WindowStop(n, a, w, precise)
  PROVE  /\ reason \in {"none", "precision", "ceiling", "fixed", "timeout"}
         /\ reason = "none" => /\ w < MaxWindow
                               /\ n < Ceiling \/ (Sequential /\ w < MinWindow)
         /\ reason = "precision" => a >= MinIterations /\ w >= MinWindow
         /\ reason = "ceiling" => n >= Ceiling /\ w >= MinWindow
         /\ reason = "fixed" => ~Sequential /\ n >= Ceiling
         /\ reason = "timeout" => w >= MaxWindow
  BY MonitorAssumption DEF WindowStop, SequentialStop, FixedStop, MaxWindow

-----------------------------------------------------------------------------
\* Uploading the sample of a call keeps the sample blobs well typed.
LEMMA SaveRunType ==
  ASSUME TypeOK, NEW i \in Nat, NEW status \in {"success", "failed"},
         run \in 1 .. Runs, SaveRun(i, status)
  PROVE  samples' \subseteq [path : (1 .. Runs) \X Nat, of : (1 .. Runs) \X Nat,
                             status : {"success", "failed"}]
<1>1. GlobalIteration(run, i) \in Nat
  <2>1. run - 1 \in Nat
    OBVIOUS
  <2>2. Ceiling * (run - 1) \in Nat
    BY <2>1, MonitorAssumption
  <2> QED
    BY <2>2 DEF GlobalIteration
<1> QED
  BY <1>1 DEF SaveRun, Sample, SamplePath, TypeOK

\* The domains stay what TypeOK says: one step per action of the loop.
LEMMA TypeStep ==
  ASSUME TypeOK, PhaseInv, Step \/ Die
  PROVE  TypeOK' /\ PhaseInv'
<1> USE MonitorAssumption DEF TypeOK, PhaseInv, Live, Ended, LoopStops
<1>1. CASE StartRun
  <2>1. run' \in 1 .. Runs
    BY <1>1 DEF StartRun
  <2>2. phase' = "timed" \/ (phase' = "warmup" /\ warmed' < Warmups)
    BY <1>1 DEF StartRun
  <2>3. failure' \in BOOLEAN /\ overrun' \in BOOLEAN
    BY <1>1 DEF StartRun
  <2> QED
    BY <1>1, <2>1, <2>2, <2>3 DEF StartRun, blobVars
<1>2. ASSUME NEW d \in Durations, WarmupRaises(d)
      PROVE  TypeOK' /\ PhaseInv'
  BY <1>2 DEF WarmupRaises, SpendWarmup, blobVars
<1>3. ASSUME NEW d \in Durations, WarmupReturns(d)
      PROVE  TypeOK' /\ PhaseInv'
  BY <1>3 DEF WarmupReturns, SpendWarmup, blobVars
<1>4. ASSUME NEW d \in Durations, NEW precise \in BOOLEAN, IterationRaises(d, precise)
      PROVE  TypeOK' /\ PhaseInv'
  <2>1. FailureStop(d, precise) \in LoopStops \cup {"none"}
    BY <1>4, WindowStopMeaning DEF FailureStop
  <2>2. samples' \subseteq [path : (1 .. Runs) \X Nat, of : (1 .. Runs) \X Nat,
                            status : {"success", "failed"}]
    BY <1>4, SaveRunType DEF IterationRaises
  <2> QED
    BY <1>4, <2>1, <2>2 DEF IterationRaises, EndIteration, StreakAfterFailure
<1>5. ASSUME NEW d \in Durations, NEW elapsed \in ElapsedTimes(d),
             NEW precise \in BOOLEAN, IterationReturns(d, elapsed, precise)
      PROVE  TypeOK' /\ PhaseInv'
  <2>1. SuccessStop(d, elapsed, precise) \in LoopStops \cup {"none"}
    BY <1>5, WindowStopMeaning DEF SuccessStop
  <2>2. samples' \subseteq [path : (1 .. Runs) \X Nat, of : (1 .. Runs) \X Nat,
                            status : {"success", "failed"}]
    BY <1>5, SaveRunType DEF IterationReturns
  <2> QED
    BY <1>5, <2>1, <2>2 DEF IterationReturns, EndIteration, StreakAfterSuccess
<1>6. CASE Finish
  <2>1. samples' \subseteq [path : (1 .. Runs) \X Nat, of : (1 .. Runs) \X Nat,
                            status : {"success", "failed"}]
    BY <1>6, SaveRunType DEF Finish
  <2> QED
    BY <1>6, <2>1 DEF Finish, loopVars
<1>7. CASE SaveRunMetadata
  <2>1. FinalReason \in StopReasons
    BY <1>7 DEF SaveRunMetadata, FinalReason, StopReasons
  <2> QED
    BY <1>7, <2>1 DEF SaveRunMetadata, loopVars
<1>8. ASSUME NEW c \in CostComponents, SaveCost(c)
      PROVE  TypeOK' /\ PhaseInv'
  BY <1>8 DEF SaveCost, CostSeconds, loopVars
<1>9. CASE Return
  BY <1>9 DEF Return, loopVars, blobVars
<1>10. CASE Die
  BY <1>10 DEF Die, loopVars, blobVars
<1> QED
  BY <1>1, <1>2, <1>3, <1>4, <1>5, <1>6, <1>7, <1>8, <1>9, <1>10 DEF Step, MeasuredCall

\* Stuttering keeps the types.
LEMMA TypeStutter ==
  ASSUME TypeOK, PhaseInv, UNCHANGED vars
  PROVE  TypeOK' /\ PhaseInv'
BY DEF TypeOK, PhaseInv, vars, loopVars, blobVars

-----------------------------------------------------------------------------
\* The limits and the meaning of the loop's stop reason are preserved: only the
\* two ends of a timed call and a long warmup call set the reason.
LEMMA LoopStep ==
  ASSUME TypeOK, PhaseInv, LoopWithinLimits, LoopInv, Step \/ Die
  PROVE  LoopWithinLimits' /\ LoopInv'
<1> USE MonitorAssumption DEF LoopWithinLimits, LoopInv, Sequential, MaxWindow
<1>1. CASE StartRun
  BY <1>1 DEF StartRun
<1>2. ASSUME NEW d \in Durations, WarmupRaises(d)
      PROVE  LoopWithinLimits' /\ LoopInv'
  BY <1>2 DEF WarmupRaises, SpendWarmup
<1>3. ASSUME NEW d \in Durations, WarmupReturns(d)
      PROVE  LoopWithinLimits' /\ LoopInv'
  <2>1. d >= MaxIteration => overrun'
    BY <1>3, Zenon DEF WarmupReturns, SpendWarmup
  <2>2. \/ stop' = "timeout" /\ d >= MaxIteration /\ phase' = "finish"
        \/ stop' = stop /\ phase' \in {"timed", "warmup"}
    BY <1>3 DEF WarmupReturns
  <2>3. phase = "warmup" /\ UNCHANGED <<window, iteration, achieved, failed, consecutive, failure>>
    BY <1>3 DEF WarmupReturns
  <2> QED
    BY <2>1, <2>2, <2>3 DEF TypeOK
<1>4. ASSUME NEW d \in Durations, NEW precise \in BOOLEAN, IterationRaises(d, precise)
      PROVE  LoopWithinLimits' /\ LoopInv'
  <2> DEFINE reason == FailureStop(d, precise)
             checked == WindowStop(iteration + 1, achieved, window + d, precise)
  <2>1. /\ iteration' = iteration + 1 /\ window' = window + d
        /\ achieved' = achieved /\ failed' = failed + 1
        /\ consecutive' = consecutive + 1
        /\ failure' = failure /\ stop' = reason /\ kind' = kind
        /\ phase' = IF reason = "none" THEN "timed" ELSE "finish"
    BY <1>4 DEF IterationRaises, EndIteration, StreakAfterFailure
  <2>2. reason = IF consecutive' >= MaxConsecutive THEN "failed" ELSE checked
    BY <2>1 DEF FailureStop, StreakAfterFailure
  <2>3. /\ iteration \in Nat /\ window \in Nat /\ achieved \in Nat /\ failed \in Nat
        /\ consecutive \in Nat /\ d \in Nat \ {0}
    BY DEF TypeOK
  <2>4. /\ phase = "timed" /\ ~failure /\ stop = "none"
        /\ consecutive < MaxConsecutive /\ iteration = achieved + failed
        /\ ~Sequential => iteration < Ceiling
    BY <1>4, <2>3 DEF IterationRaises
  <2>5. /\ checked \in {"none", "precision", "ceiling", "fixed", "timeout"}
        /\ checked = "none" => /\ window' < MaxWindow
                               /\ iteration' < Ceiling \/ (Sequential /\ window' < MinWindow)
        /\ checked = "precision" => achieved >= MinIterations /\ window' >= MinWindow
        /\ checked = "ceiling" => iteration' >= Ceiling /\ window' >= MinWindow
        /\ checked = "fixed" => ~Sequential /\ iteration' >= Ceiling
        /\ checked = "timeout" => window' >= MaxWindow
    BY <2>1, <2>3, WindowStopMeaning
  <2> HIDE DEF reason, checked
  <2>6. LoopWithinLimits'
    BY <2>1, <2>2, <2>3, <2>4, <2>5
  <2>7. LoopInv'
    BY <2>1, <2>2, <2>3, <2>4, <2>5
  <2> QED
    BY <2>6, <2>7
<1>5. ASSUME NEW d \in Durations, NEW elapsed \in ElapsedTimes(d),
             NEW precise \in BOOLEAN, IterationReturns(d, elapsed, precise)
      PROVE  LoopWithinLimits' /\ LoopInv'
  <2> DEFINE reason == SuccessStop(d, elapsed, precise)
             checked == WindowStop(iteration + 1, achieved + 1, window + d, precise)
  <2>1. /\ iteration' = iteration + 1 /\ window' = window + d
        /\ achieved' = achieved + 1 /\ failed' = failed
        /\ consecutive' = 0
        /\ failure' = failure /\ stop' = reason /\ kind' = kind
        /\ phase' = IF reason = "none" THEN "timed" ELSE "finish"
        /\ overrun' = (overrun \/ d >= MaxIteration)
    BY <1>5 DEF IterationReturns, EndIteration, StreakAfterSuccess
  <2>2. reason = IF elapsed >= MaxIteration THEN "timeout" ELSE checked
    BY DEF SuccessStop
  <2>3. /\ iteration \in Nat /\ window \in Nat /\ achieved \in Nat /\ failed \in Nat
        /\ elapsed \in Nat /\ d \in Nat \ {0} /\ elapsed <= d
    BY DEF TypeOK, ElapsedTimes
  <2>4. /\ phase = "timed" /\ ~failure /\ stop = "none"
        /\ iteration = achieved + failed
        /\ ~Sequential => iteration < Ceiling
    BY <1>5, <2>3 DEF IterationReturns
  <2>5. /\ checked \in {"none", "precision", "ceiling", "fixed", "timeout"}
        /\ checked = "none" => /\ window' < MaxWindow
                               /\ iteration' < Ceiling \/ (Sequential /\ window' < MinWindow)
        /\ checked = "precision" => achieved' >= MinIterations /\ window' >= MinWindow
        /\ checked = "ceiling" => iteration' >= Ceiling /\ window' >= MinWindow
        /\ checked = "fixed" => ~Sequential /\ iteration' >= Ceiling
        /\ checked = "timeout" => window' >= MaxWindow
    BY <2>1, <2>3, WindowStopMeaning
  <2>6. reason = "timeout" => overrun' \/ window' >= MaxWindow
    <3>1. d >= MaxIteration => overrun'
      BY <2>1, Zenon
    <3>2. reason = "timeout" => d >= MaxIteration \/ window' >= MaxWindow
      BY <2>2, <2>3, <2>5
    <3> QED
      BY <3>1, <3>2
  <2> HIDE DEF reason, checked
  <2>7. LoopWithinLimits'
    BY <2>1, <2>2, <2>3, <2>4, <2>5
  <2>8. LoopInv'
    BY <2>1, <2>2, <2>3, <2>4, <2>5, <2>6
  <2> QED
    BY <2>7, <2>8
<1>6. CASE Finish
  BY <1>6 DEF Finish, loopVars
<1>7. CASE SaveRunMetadata
  BY <1>7 DEF SaveRunMetadata, loopVars
<1>8. ASSUME NEW c \in CostComponents, SaveCost(c)
      PROVE  LoopWithinLimits' /\ LoopInv'
  BY <1>8 DEF SaveCost, loopVars
<1>9. CASE Return
  BY <1>9 DEF Return, loopVars
<1>10. CASE Die
  BY <1>10 DEF Die, loopVars
<1> QED
  BY <1>1, <1>2, <1>3, <1>4, <1>5, <1>6, <1>7, <1>8, <1>9, <1>10 DEF Step, MeasuredCall

-----------------------------------------------------------------------------
\* Rows and costs of earlier runs stay earlier ones; those of the present run
\* are written from counters that no later step of the run changes.
LEMMA RecordStep ==
  ASSUME TypeOK, PhaseInv, RowInv, CostInv, Step \/ Die
  PROVE  RowInv' /\ CostInv'
<1> USE DEF RowInv, CostInv
<1>1. CASE StartRun
  <2>1. run' = run + 1 /\ run \in Nat /\ rows' = rows /\ costs' = costs
    BY <1>1, MonitorAssumption DEF StartRun, blobVars, TypeOK
  <2>2. /\ \A r \in rows : r.run \in Nat
        /\ \A c \in costs : c.run \in Nat
    BY DEF TypeOK
  <2> QED
    BY <2>1, <2>2
<1>2. ASSUME NEW d \in Durations, WarmupRaises(d)
      PROVE  RowInv' /\ CostInv'
  BY <1>2 DEF WarmupRaises, SpendWarmup, blobVars
<1>3. ASSUME NEW d \in Durations, WarmupReturns(d)
      PROVE  RowInv' /\ CostInv'
  BY <1>3 DEF WarmupReturns, SpendWarmup, blobVars
<1>4. ASSUME NEW d \in Durations, NEW precise \in BOOLEAN, IterationRaises(d, precise)
      PROVE  RowInv' /\ CostInv'
  BY <1>4 DEF IterationRaises, EndIteration
<1>5. ASSUME NEW d \in Durations, NEW elapsed \in ElapsedTimes(d),
             NEW precise \in BOOLEAN, IterationReturns(d, elapsed, precise)
      PROVE  RowInv' /\ CostInv'
  BY <1>5 DEF IterationReturns, EndIteration
<1>6. CASE Finish
  BY <1>6 DEF Finish, loopVars
<1>7. CASE SaveRunMetadata
  <2> DEFINE row == [run |-> run, achieved |-> achieved, failed |-> failed,
                     stop |-> FinalReason]
  <2>1. /\ phase = "record" /\ phase' = "cost" /\ rows' = rows \cup {row}
        /\ UNCHANGED <<run, achieved, failed, failure, stop, window, costs>>
    BY <1>7 DEF SaveRunMetadata, loopVars
  <2>2. FinalReason' = FinalReason
    BY <2>1 DEF FinalReason
  <2>3. run \in Nat /\ (failure \/ stop # "none")
    BY <2>1 DEF TypeOK, PhaseInv
  <2> QED
    BY <2>1, <2>2, <2>3
<1>8. ASSUME NEW c \in CostComponents, SaveCost(c)
      PROVE  RowInv' /\ CostInv'
  <2>1. run \in Nat
    BY DEF TypeOK
  <2> QED
    BY <1>8, <2>1 DEF SaveCost, loopVars, FinalReason
<1>9. CASE Return
  BY <1>9 DEF Return, loopVars, blobVars, FinalReason
<1>10. CASE Die
  BY <1>10 DEF Die, loopVars, blobVars, FinalReason, Live
<1> QED
  BY <1>1, <1>2, <1>3, <1>4, <1>5, <1>6, <1>7, <1>8, <1>9, <1>10 DEF Step, MeasuredCall

\* The next path a run writes is free, so an upload only adds a sample.
LEMMA FreshPath ==
  ASSUME TypeOK, SampleInv, run \in 1 .. Runs,
         NEW i \in Nat, NEW status \in {"success", "failed"}, SaveRun(i, status),
         \A s \in samples : s.of[1] = run => s.of[2] # i
  PROVE  samples' = samples \cup {Sample(run, i, status)}
<1>1. ASSUME NEW s \in samples, s.path = SamplePath(run, i)
      PROVE  FALSE
  <2>1. s.of[1] \in Nat /\ s.of[2] \in Nat
    BY DEF TypeOK
  <2>2. SamplePath(s.of[1], s.of[2]) = SamplePath(run, i)
    BY <1>1 DEF SampleInv
  <2>3. s.of[1] = run /\ s.of[2] = i
    BY <2>1, <2>2, PathInjective
  <2> QED
    BY <2>3
<1> QED
  BY <1>1 DEF SaveRun

\* Samples stay at the paths of the calls they measured, and none is replaced.
LEMMA SampleStep ==
  ASSUME TypeOK, PhaseInv, LoopInv, SampleInv, Step \/ Die
  PROVE  SampleInv' /\ samples \subseteq samples'
<1> USE DEF SampleInv
<1>1. CASE StartRun
  <2>1. run' = run + 1 /\ run \in Nat /\ samples' = samples
    BY <1>1, MonitorAssumption DEF StartRun, blobVars, TypeOK
  <2>2. \A s \in samples : s.of[1] \in Nat
    BY DEF TypeOK
  <2> QED
    BY <2>1, <2>2 DEF SamplePath, GlobalIteration
<1>2. ASSUME NEW d \in Durations, WarmupRaises(d)
      PROVE  SampleInv' /\ samples \subseteq samples'
  BY <1>2 DEF WarmupRaises, SpendWarmup, blobVars, SamplePath, GlobalIteration
<1>3. ASSUME NEW d \in Durations, WarmupReturns(d)
      PROVE  SampleInv' /\ samples \subseteq samples'
  BY <1>3 DEF WarmupReturns, SpendWarmup, blobVars, SamplePath, GlobalIteration
<1>4. ASSUME NEW status \in {"success", "failed"}, phase = "timed",
             SaveRun(iteration + 1, status), iteration' = iteration + 1, run' = run
      PROVE  SampleInv' /\ samples \subseteq samples'
  <2>1. iteration \in Nat /\ run \in 1 .. Runs /\ ~failure
    BY <1>4 DEF TypeOK, PhaseInv, LoopInv
  <2>2. \A s \in samples : s.of[1] = run => s.of[2] \in Nat /\ s.of[2] <= iteration
    BY <2>1 DEF TypeOK
  <2>3. samples' = samples \cup {Sample(run, iteration + 1, status)}
    BY <1>4, <2>1, <2>2, FreshPath
  <2> QED
    BY <1>4, <2>1, <2>2, <2>3 DEF Sample, SamplePath, GlobalIteration
<1>5. ASSUME NEW d \in Durations, NEW precise \in BOOLEAN, IterationRaises(d, precise)
      PROVE  SampleInv' /\ samples \subseteq samples'
  BY <1>4, <1>5 DEF IterationRaises, EndIteration
<1>6. ASSUME NEW d \in Durations, NEW elapsed \in ElapsedTimes(d),
             NEW precise \in BOOLEAN, IterationReturns(d, elapsed, precise)
      PROVE  SampleInv' /\ samples \subseteq samples'
  BY <1>4, <1>6 DEF IterationReturns, EndIteration
<1>7. CASE Finish
  <2>1. phase = "finish" /\ phase' = "record" /\ UNCHANGED <<run, iteration, failure>>
    BY <1>7 DEF Finish, loopVars
  <2>2. CASE ~failure
    BY <1>7, <2>1, <2>2 DEF Finish, SamplePath, GlobalIteration
  <2>3. CASE failure
    <3>1. iteration = 0 /\ run \in 1 .. Runs
      BY <2>1, <2>3 DEF LoopInv, PhaseInv
    <3>2. \A s \in samples : s.of[1] = run => s.of[2] \in Nat /\ s.of[2] <= 0
      BY <2>1, <3>1 DEF TypeOK
    <3>3. samples' = samples \cup {Sample(run, 1, "failed")}
      BY <1>7, <2>3, <3>1, <3>2, FreshPath DEF Finish
    <3> QED
      BY <2>1, <2>3, <3>1, <3>3 DEF Sample, SamplePath, GlobalIteration
  <2> QED
    BY <2>2, <2>3
<1>8. CASE SaveRunMetadata
  BY <1>8 DEF SaveRunMetadata, loopVars, SamplePath, GlobalIteration
<1>9. ASSUME NEW c \in CostComponents, SaveCost(c)
      PROVE  SampleInv' /\ samples \subseteq samples'
  BY <1>9 DEF SaveCost, loopVars, SamplePath, GlobalIteration
<1>10. CASE Return
  BY <1>10 DEF Return, loopVars, blobVars, SamplePath, GlobalIteration
<1>11. CASE Die
  BY <1>11 DEF Die, loopVars, blobVars, SamplePath, GlobalIteration, Live
<1> QED
  BY <1>1, <1>2, <1>3, <1>5, <1>6, <1>7, <1>8, <1>9, <1>10, <1>11 DEF Step, MeasuredCall

-----------------------------------------------------------------------------
\* At first nothing is counted.
LEMMA InitInv == Init => IInv
<1> SUFFICES ASSUME Init PROVE IInv
  OBVIOUS
<1>1. TypeOK
  <2>1. failure \in BOOLEAN /\ overrun \in BOOLEAN
    BY DEF Init
  <2> QED
    BY <2>1, MonitorAssumption DEF Init, TypeOK, Live, Ended
<1>2. PhaseInv /\ LoopWithinLimits /\ LoopInv
  BY MonitorAssumption DEF Init, PhaseInv, LoopWithinLimits, LoopInv
<1>3. RowInv /\ SampleInv /\ CostInv
  BY DEF Init, RowInv, SampleInv, CostInv
<1> QED
  BY <1>1, <1>2, <1>3 DEF IInv

\* Every step keeps the invariant, and no sample is ever removed.
LEMMA StepInv == IInv /\ [Next]_vars => IInv' /\ (samples \subseteq samples')
<1> SUFFICES ASSUME IInv, [Next]_vars PROVE IInv' /\ samples \subseteq samples'
  OBVIOUS
<1>1. CASE Step \/ Die
  BY <1>1, TypeStep, LoopStep, RecordStep, SampleStep DEF IInv
<1>2. CASE UNCHANGED vars
  <2> USE <1>2 DEF vars, loopVars, blobVars
  <2>1. TypeOK' /\ PhaseInv'
    BY TypeStutter DEF IInv
  <2>2. LoopWithinLimits' /\ LoopInv'
    BY DEF IInv, LoopWithinLimits, LoopInv, Sequential, MaxWindow
  <2>3. RowInv' /\ CostInv'
    BY DEF IInv, RowInv, CostInv, FinalReason
  <2>4. SampleInv' /\ samples' = samples
    BY DEF IInv, SampleInv, SamplePath, GlobalIteration
  <2> QED
    BY <2>1, <2>2, <2>3, <2>4 DEF IInv
<1> QED
  BY <1>1, <1>2 DEF Next

\* The counters, the loop and the rows agree in every reachable state (monitor).
THEOREM Inductive == Spec => []IInv
<1>1. IInv /\ [Next]_vars => IInv'
  BY StepInv
<1> QED
  BY <1>1, InitInv, PTL DEF Spec

\* Type correctness (TypeOK): the state of the measurement loop stays in its
\* domains and every metadata row holds a StopReason value.
THEOREM TypeCorrect == Spec => []TypeOK
<1>1. IInv => TypeOK
  BY DEF IInv
<1> QED
  BY <1>1, Inductive, PTL

\* The timed loop never goes round again at or past one of its limits
\* (LoopWithinLimits), whatever the limits and the durations of the calls are.
THEOREM LimitsRespected == Spec => []LoopWithinLimits
<1>1. IInv => LoopWithinLimits
  BY DEF IInv
<1> QED
  BY <1>1, Inductive, PTL

\* Every stop reason in the metadata is earned by what the loop measured
\* (StopReasonIsEarned): the code's chain of breaks and its relabelling of
\* mixed runs as "partial" never record a reason the counters contradict.
THEOREM StopReasonEarned == Spec => []StopReasonIsEarned
<1>1. IInv => StopReasonIsEarned
  <2> SUFFICES ASSUME IInv, NEW r \in rows, r.run = run
               PROVE  /\ r.stop \in {"precision", "ceiling", "fixed"} => failed = 0 /\ ~failure
                      /\ r.stop = "precision" => achieved >= MinIterations /\ window >= MinWindow
                      /\ r.stop = "ceiling" => achieved >= Ceiling /\ window >= MinWindow
                      /\ r.stop = "fixed" => achieved = Ceiling
                      /\ r.stop = "partial" => failed > 0 /\ consecutive < MaxConsecutive
                      /\ r.stop = "failed" => failure \/ consecutive >= MaxConsecutive
                      /\ r.stop = "timeout" => overrun \/ window >= MaxWindow
    BY DEF StopReasonIsEarned, OwnRows
  <2>1. r.stop = FinalReason /\ (failure \/ stop # "none")
    BY DEF IInv, RowInv
  <2>2. /\ stop \in LoopStops \cup {"none"}
        /\ failed \in Nat /\ achieved \in Nat /\ consecutive \in Nat
    BY DEF IInv, TypeOK
  <2>3. CASE failure
    BY <2>1, <2>3 DEF FinalReason
  <2>4. CASE ~failure /\ stop # "failed" /\ failed > 0
    BY <2>1, <2>2, <2>4, MonitorAssumption DEF FinalReason, IInv, LoopInv
  <2>5. CASE ~failure /\ ~(stop # "failed" /\ failed > 0)
    <3>1. r.stop = stop
      BY <2>1, <2>5 DEF FinalReason
    <3>2. stop \notin {"partial", "none"}
      BY <2>1, <2>2, <2>5 DEF LoopStops
    <3>3. stop # "failed" => failed = 0
      BY <2>2, <2>5
    <3> QED
      BY <2>2, <2>5, <3>1, <3>2, <3>3 DEF IInv, LoopInv
  <2> QED
    BY <2>3, <2>4, <2>5
<1> QED
  BY <1>1, Inductive, PTL

\* The timed part of every costed window of a run that stopped on precision or
\* on its ceiling reaches the floor (CostWindowReachesFloor).
THEOREM FloorReached == Spec => []CostWindowReachesFloor
<1>1. IInv => CostWindowReachesFloor
  BY DEF IInv, CostInv, LoopInv, CostWindowReachesFloor, OwnCosts
<1> QED
  BY <1>1, Inductive, PTL

\* No sample blob of any run is ever replaced by a later upload
\* (SamplesNeverOverwritten), although the global iteration numbers of two runs
\* overlap once the soft ceiling was passed.
THEOREM SamplesKept == Spec => SamplesNeverOverwritten
<1>1. IInv /\ [Next]_vars => [samples \subseteq samples']_vars
  BY StepInv
<1> QED
  BY <1>1, Inductive, PTL DEF Spec, SamplesNeverOverwritten

\* A call over its limit has failed the warmup, ended the loop, or raised.
LimitInv == overrun /\ ~ElapsedFromResult => failure \/ stop = "timeout" \/ failed > 0

\* Only a call that returned is looked at: its end, or the failure count, keeps the mark.
LEMMA LimitStep ==
  ASSUME IInv, LimitInv, [Next]_vars
  PROVE  LimitInv'
<1> USE DEF LimitInv, ElapsedFromResult
<1>1. CASE StartRun
  BY <1>1 DEF StartRun
<1>2. ASSUME NEW d \in Durations, WarmupRaises(d)
      PROVE  LimitInv'
  BY <1>2 DEF WarmupRaises
<1>3. ASSUME NEW d \in Durations, WarmupReturns(d)
      PROVE  LimitInv'
  <2>1. /\ phase = "warmup" /\ kind' = kind /\ failed' = failed /\ failure' = failure
        /\ overrun' = (overrun \/ d >= MaxIteration)
        /\ \/ d >= MaxIteration /\ stop' = "timeout"
           \/ ~(d >= MaxIteration) /\ stop' = stop
    BY <1>3, MonitorAssumption DEF WarmupReturns, SpendWarmup
  <2>2. overrun' => overrun \/ stop' = "timeout"
    BY <2>1
  <2>3. stop = "none" /\ ~failure
    BY <2>1 DEF IInv, LoopInv
  <2> QED BY <2>1, <2>2, <2>3
<1>4. ASSUME NEW d \in Durations, NEW precise \in BOOLEAN, IterationRaises(d, precise)
      PROVE  LimitInv'
  <2>1. failed' = failed + 1 /\ failed \in Nat
    BY <1>4 DEF IterationRaises, IInv, TypeOK
  <2> QED BY <2>1
<1>5. ASSUME NEW d \in Durations, NEW elapsed \in ElapsedTimes(d),
             NEW precise \in BOOLEAN, IterationReturns(d, elapsed, precise)
      PROVE  LimitInv'
  <2>1. /\ phase = "timed" /\ kind' = kind /\ failed' = failed /\ failure' = failure
        /\ overrun' = (overrun \/ d >= MaxIteration)
        /\ stop' = SuccessStop(d, elapsed, precise)
    BY <1>5 DEF IterationReturns, EndIteration
  <2>2. stop = "none" /\ ~failure
    BY <2>1 DEF IInv, LoopInv
  <2>3. ~ElapsedFromResult => elapsed = d
    BY DEF ElapsedTimes
  <2>4. d >= MaxIteration /\ ~ElapsedFromResult => stop' = "timeout"
    BY <2>1, <2>3 DEF SuccessStop
  <2>5. overrun' => overrun \/ d >= MaxIteration
    BY <2>1
  <2> QED BY <2>1, <2>2, <2>4, <2>5
<1>6. CASE Finish \/ SaveRunMetadata \/ (\E c \in CostComponents : SaveCost(c)) \/ Return \/ Die
           \/ UNCHANGED vars
  <2>1. UNCHANGED <<kind, loopVars>>
    BY <1>6 DEF Finish, SaveRunMetadata, SaveCost, Return, Die, vars
  <2> QED BY <2>1 DEF loopVars
<1> QED BY <1>1, <1>2, <1>3, <1>4, <1>5, <1>6 DEF Next, Step, MeasuredCall

\* A call that reached the limit of one call is the last one unless it raised, and the
\* row of its run does not hide it (CallOverLimitIsTold), for any limits and durations.
THEOREM OverLimitTold == Spec => []CallOverLimitIsTold
<1>1. Init => LimitInv
  BY DEF Init, LimitInv
<1>2. IInv /\ LimitInv => CallOverLimitIsTold
  <2> SUFFICES ASSUME IInv, LimitInv, overrun, ~ElapsedFromResult
               PROVE  /\ phase \in {"warmup", "timed"} => failed > 0
                      /\ \A r \in OwnRows : r.stop \in {"timeout", "partial", "failed"}
    BY DEF CallOverLimitIsTold
  <2>1. phase \in {"warmup", "timed"} => stop = "none" /\ ~failure
    BY DEF IInv, LoopInv
  <2>2. ASSUME NEW r \in OwnRows PROVE r.stop \in {"timeout", "partial", "failed"}
    <3>1. r.stop = FinalReason
      BY DEF OwnRows, IInv, RowInv
    <3> QED BY <3>1 DEF FinalReason, LimitInv
  <2> QED BY <2>1, <2>2 DEF LimitInv
<1> QED BY <1>1, <1>2, Inductive, LimitStep, PTL DEF Spec

-----------------------------------------------------------------------------
(***************************************************************************)
(* What a row says of the samples and the costs of its run.                *)
(***************************************************************************)

\* A run in its cost phase has its row.
JoinInv ==
  /\ CostsFollowRow
  /\ phase = "cost" => \E r \in rows : r.run = run

\* A row is written once, before the first cost row of its run.
LEMMA JoinStep ==
  ASSUME IInv, JoinInv, [Next]_vars
  PROVE  JoinInv'
<1> USE DEF JoinInv, CostsFollowRow
<1>1. CASE UNCHANGED <<rows, costs>> /\ phase' # "cost"
  BY <1>1
<1>2. CASE SaveRunMetadata
  <2> DEFINE row == [run |-> run, achieved |-> achieved, failed |-> failed,
                     stop |-> FinalReason]
  <2>1. phase = "record" /\ rows' = rows \cup {row} /\ UNCHANGED <<run, costs>>
    BY <1>2 DEF SaveRunMetadata, loopVars
  <2>2. \A r \in rows : r.run # run
    BY <2>1 DEF IInv, RowInv
  <2>3. row.run = run
    OBVIOUS
  <2> HIDE DEF row
  <2> QED
    BY <2>1, <2>2, <2>3
<1>3. ASSUME NEW c \in CostComponents, SaveCost(c)
      PROVE  JoinInv'
  BY <1>3 DEF SaveCost, loopVars
<1>4. CASE UNCHANGED <<rows, costs, run, phase>>
  BY <1>4
<1>5. Step \/ Die => \/ UNCHANGED <<rows, costs>> /\ phase' # "cost"
                     \/ SaveRunMetadata
                     \/ \E c \in CostComponents : SaveCost(c)
  BY DEF Step, MeasuredCall, StartRun, WarmupRaises, WarmupReturns, IterationRaises,
         IterationReturns, EndIteration, Finish, Return, Die, blobVars
<1> QED
  BY <1>1, <1>2, <1>3, <1>4, <1>5 DEF Next, vars, blobVars

\* A cost row never comes without the metadata row of its run, of which there is one
\* (CostsFollowRow), wherever the process dies.
THEOREM CostsHaveTheirRow == Spec => []CostsFollowRow
<1>1. Init => JoinInv
  BY DEF Init, JoinInv, CostsFollowRow
<1>2. IInv /\ JoinInv /\ [Next]_vars => JoinInv'
  BY JoinStep
<1>3. JoinInv => CostsFollowRow
  BY DEF JoinInv
<1> QED
  BY <1>1, <1>2, <1>3, Inductive, PTL DEF Spec

-----------------------------------------------------------------------------
Successes == {s \in OwnSamples : s.status = "success"}

\* The samples of the present run are numbered like its iterations, as many of them
\* are successes as were counted, and the streak is made of its last ones.  A failed
\* warmup leaves its one sample before the row.
OwnInv ==
  /\ failure => OwnSamples \subseteq {Sample(run, 1, "failed")}
  /\ failure /\ (phase \in {"record", "cost", "returned"} \/ OwnRows # {}) =>
       OwnSamples = {Sample(run, 1, "failed")}
  /\ ~failure => {s.of[2] : s \in OwnSamples} = 1 .. iteration
  /\ IsFiniteSet(Successes) /\ Cardinality(Successes) = achieved
  /\ \A k \in 1 .. consecutive :
       \E s \in OwnSamples : s.of[2] = iteration + 1 - k /\ s.status = "failed"

\* A timed call adds its sample, under the next number.
LEMMA OwnCall ==
  ASSUME IInv, OwnInv, phase = "timed", NEW status \in {"success", "failed"},
         SaveRun(iteration + 1, status), run' = run, failure' = failure,
         iteration' = iteration + 1,
         achieved' = achieved + (IF status = "success" THEN 1 ELSE 0),
         consecutive' = IF status = "success" THEN 0 ELSE consecutive + 1
  PROVE  OwnInv'
<1> DEFINE new == Sample(run, iteration + 1, status)
<1>1. /\ run \in 1 .. Runs /\ ~failure /\ iteration \in Nat /\ achieved \in Nat
      /\ consecutive \in Nat
  BY DEF IInv, TypeOK, PhaseInv, LoopInv
<1>2. \A s \in OwnSamples : s.of[2] \in 1 .. iteration
  BY <1>1 DEF OwnInv
<1>3. samples' = samples \cup {new}
  BY <1>1, <1>2, FreshPath DEF IInv, OwnSamples
<1>4. new.of[1] = run /\ new.of[2] = iteration + 1 /\ new.status = status
  BY DEF Sample
<1> HIDE DEF new
<1>5. OwnSamples' = OwnSamples \cup {new} /\ new \notin OwnSamples
  BY <1>1, <1>2, <1>3, <1>4 DEF OwnSamples
<1>6. {s.of[2] : s \in OwnSamples'} = 1 .. iteration'
  <2>1. {s.of[2] : s \in OwnSamples} = 1 .. iteration
    BY <1>1 DEF OwnInv
  <2>2. {s.of[2] : s \in OwnSamples'} = {s.of[2] : s \in OwnSamples} \cup {iteration + 1}
    BY <1>4, <1>5
  <2> QED
    BY <1>1, <2>1, <2>2
<1>7. IsFiniteSet(Successes') /\ Cardinality(Successes') = achieved'
  <2>1. CASE status = "success"
    <3>1. Successes' = Successes \cup {new} /\ new \notin Successes
      BY <1>4, <1>5, <2>1 DEF Successes
    <3> QED
      BY <2>1, <3>1, FS_AddElement DEF OwnInv
  <2>2. CASE status = "failed"
    <3>1. Successes' = Successes
      BY <1>4, <1>5, <2>2 DEF Successes
    <3> QED
      BY <1>1, <2>2, <3>1 DEF OwnInv
  <2> QED
    BY <2>1, <2>2
<1>8. ASSUME NEW k \in 1 .. consecutive'
      PROVE  \E s \in OwnSamples' : s.of[2] = iteration' + 1 - k /\ s.status = "failed"
  <2>1. status = "failed" /\ consecutive' = consecutive + 1
    BY <1>1, <1>8
  <2>2. CASE k = 1
    BY <1>1, <1>4, <1>5, <2>1, <2>2
  <2>3. CASE k # 1
    <3>1. k - 1 \in 1 .. consecutive /\ iteration + 1 - (k - 1) = iteration' + 1 - k
      BY <1>1, <2>1, <2>3
    <3> QED
      BY <1>5, <3>1 DEF OwnInv
  <2> QED
    BY <2>2, <2>3
<1> QED
  BY <1>1, <1>6, <1>7, <1>8 DEF OwnInv

\* Steps that leave the samples alone.
LEMMA OwnUnchanged ==
  ASSUME IInv, OwnInv,
         UNCHANGED <<run, samples, iteration, achieved, consecutive, failure>>,
         failure /\ (phase' \in {"record", "cost", "returned"} \/ OwnRows' # {}) =>
           phase \in {"record", "cost", "returned"} \/ OwnRows # {}
  PROVE  OwnInv'
<1>1. OwnSamples' = OwnSamples /\ Successes' = Successes
  BY DEF OwnSamples, Successes
<1>2. Sample(run, 1, "failed")' = Sample(run, 1, "failed")
  BY DEF Sample, SamplePath, GlobalIteration
<1> QED
  BY <1>1, <1>2 DEF OwnInv

\* Every step keeps the samples of the present run in line with its counters.
LEMMA OwnStep ==
  ASSUME IInv, OwnInv, Step \/ Die
  PROVE  OwnInv'
<1>1. CASE StartRun
  <2>1. /\ run' = run + 1 /\ run \in Nat /\ samples' = samples
        /\ iteration' = 0 /\ achieved' = 0 /\ consecutive' = 0 /\ ~failure'
    BY <1>1, MonitorAssumption DEF StartRun, blobVars, IInv, TypeOK
  <2>2. \A s \in samples : s.of[1] \in Nat /\ s.of[1] <= run
    BY DEF IInv, TypeOK, SampleInv
  <2>3. OwnSamples' = {} /\ Successes' = {}
    BY <2>1, <2>2 DEF OwnSamples, Successes
  <2> QED
    BY <2>1, <2>3, FS_EmptySet DEF OwnInv
<1>2. ASSUME NEW d \in Durations, WarmupRaises(d)
      PROVE  OwnInv'
  <2>1. /\ phase = "warmup" /\ phase' = "finish" /\ failure' = TRUE
        /\ UNCHANGED <<run, samples, rows, iteration, achieved, consecutive>>
    BY <1>2 DEF WarmupRaises, blobVars
  <2>2. iteration = 0 /\ ~failure /\ consecutive = 0
    BY <2>1 DEF IInv, LoopInv
  <2>3. OwnSamples = {}
    BY <2>2 DEF OwnInv
  <2>4. OwnRows' = {}
    BY <2>1 DEF IInv, RowInv, OwnRows
  <2>5. OwnSamples' = {} /\ Successes' = Successes
    BY <2>1, <2>3 DEF OwnSamples, Successes
  <2> QED
    BY <2>1, <2>2, <2>4, <2>5 DEF OwnInv
<1>3. ASSUME NEW d \in Durations, WarmupReturns(d)
      PROVE  OwnInv'
  <2>1. /\ phase' \in {"warmup", "timed", "finish"} /\ rows' = rows
        /\ UNCHANGED <<run, samples, iteration, achieved, consecutive, failure>>
    BY <1>3 DEF WarmupReturns, blobVars
  <2> QED
    BY <2>1, OwnUnchanged DEF OwnRows
<1>4. ASSUME NEW d \in Durations, NEW precise \in BOOLEAN, IterationRaises(d, precise)
      PROVE  OwnInv'
  <2>1. achieved + 0 = achieved
    BY DEF IInv, TypeOK
  <2> QED
    BY <1>4, <2>1, OwnCall DEF IterationRaises, EndIteration, StreakAfterFailure
<1>5. ASSUME NEW d \in Durations, NEW elapsed \in ElapsedTimes(d),
             NEW precise \in BOOLEAN, IterationReturns(d, elapsed, precise)
      PROVE  OwnInv'
  BY <1>5, OwnCall DEF IterationReturns, EndIteration, StreakAfterSuccess
<1>6. CASE Finish
  <2>1. /\ phase = "finish"
        /\ UNCHANGED <<run, rows, iteration, achieved, consecutive, failure>>
    BY <1>6 DEF Finish, loopVars
  <2>2. CASE ~failure
    BY <1>6, <2>1, <2>2, OwnUnchanged DEF Finish, OwnRows
  <2>3. CASE failure
    <3>1. /\ run \in 1 .. Runs /\ iteration = 0 /\ consecutive = 0
          /\ OwnRows = {}
      BY <2>1, <2>3 DEF IInv, LoopInv, PhaseInv, RowInv, OwnRows
    <3>2. \A s \in samples : s.of[1] = run => s.of[2] \in Nat /\ s.of[2] <= 0
      BY <2>1, <3>1 DEF IInv, TypeOK, SampleInv
    <3>3. samples' = samples \cup {Sample(run, 1, "failed")}
      BY <1>6, <2>3, <3>1, <3>2, FreshPath DEF IInv, Finish
    <3>4. Sample(run, 1, "failed").of[1] = run /\ Sample(run, 1, "failed").status = "failed"
      BY DEF Sample
    <3>5. OwnSamples' = OwnSamples \cup {Sample(run, 1, "failed")}
      BY <2>1, <3>3, <3>4 DEF OwnSamples
    <3>6. OwnSamples' = {Sample(run, 1, "failed")}
      BY <2>3, <3>5 DEF OwnInv
    <3>7. Successes' = Successes
      BY <3>4, <3>5 DEF Successes
    <3>8. Sample(run, 1, "failed")' = Sample(run, 1, "failed")
      BY <2>1 DEF Sample, SamplePath, GlobalIteration
    <3> QED
      BY <2>1, <2>3, <3>1, <3>6, <3>7, <3>8 DEF OwnInv
  <2> QED
    BY <2>2, <2>3
<1>7. CASE SaveRunMetadata
  <2>1. /\ phase = "record"
        /\ UNCHANGED <<run, samples, iteration, achieved, consecutive, failure>>
    BY <1>7 DEF SaveRunMetadata, loopVars
  <2> QED
    BY <2>1, OwnUnchanged
<1>8. ASSUME NEW c \in CostComponents, SaveCost(c)
      PROVE  OwnInv'
  <2>1. UNCHANGED <<phase, rows, run, samples, iteration, achieved, consecutive, failure>>
    BY <1>8 DEF SaveCost, loopVars
  <2> QED
    BY <2>1, OwnUnchanged DEF OwnRows
<1>9. CASE Return
  <2>1. /\ phase = "cost"
        /\ UNCHANGED <<rows, run, samples, iteration, achieved, consecutive, failure>>
    BY <1>9 DEF Return, loopVars, blobVars
  <2> QED
    BY <2>1, OwnUnchanged DEF OwnRows
<1>10. CASE Die
  <2>1. /\ phase' = "dead"
        /\ UNCHANGED <<rows, run, samples, iteration, achieved, consecutive, failure>>
    BY <1>10 DEF Die, loopVars, blobVars
  <2> QED
    BY <2>1, OwnUnchanged DEF OwnRows
<1> QED
  BY <1>1, <1>2, <1>3, <1>4, <1>5, <1>6, <1>7, <1>8, <1>9, <1>10 DEF Step, MeasuredCall

\* The samples of a run are its iterations, its successes among them as many as were
\* counted (monitor).
THEOREM SamplesCounted == Spec => []OwnInv
<1>1. Init => OwnInv
  <2> SUFFICES ASSUME Init PROVE OwnInv
    OBVIOUS
  <2>1. OwnSamples = {} /\ Successes = {}
    BY DEF Init, OwnSamples, Successes
  <2> QED
    BY <2>1, FS_EmptySet DEF Init, OwnInv
<1>2. IInv /\ OwnInv /\ [Next]_vars => OwnInv'
  <2> SUFFICES ASSUME IInv, OwnInv, [Next]_vars PROVE OwnInv'
    OBVIOUS
  <2>1. CASE UNCHANGED vars
    BY <2>1, OwnUnchanged DEF vars, loopVars, blobVars, OwnRows
  <2> QED
    BY <2>1, OwnStep DEF Next
<1> QED
  BY <1>1, <1>2, Inductive, PTL DEF Spec

\* A metadata row accounts for every sample of its run, by number and by success
\* (RowAccountsForSamples), for any number of runs, calls and failures.
THEOREM RowsAccount == Spec => []RowAccountsForSamples
<1>1. IInv /\ OwnInv => RowAccountsForSamples
  <2> SUFFICES ASSUME IInv, OwnInv, NEW r \in OwnRows
               PROVE  IF failure
                      THEN /\ r.achieved = 0 /\ r.failed = 0
                           /\ OwnSamples = {Sample(run, 1, "failed")}
                      ELSE /\ {s.of[2] : s \in OwnSamples} = 1 .. (r.achieved + r.failed)
                           /\ Cardinality(Successes) = r.achieved
    BY DEF RowAccountsForSamples, Successes
  <2>1. r.achieved = achieved /\ r.failed = failed
    BY DEF IInv, RowInv, OwnRows
  <2>2. iteration = achieved + failed /\ achieved \in Nat /\ failed \in Nat
    BY DEF IInv, LoopInv, TypeOK
  <2>3. failure => iteration = 0
    BY DEF IInv, LoopInv
  <2> QED
    BY <2>1, <2>2, <2>3 DEF OwnInv
<1> QED
  BY <1>1, Inductive, SamplesCounted, PTL

\* A run recorded as failed after a good warmup ended in a full streak of failed
\* samples (FailedAfterStreak), whatever the limit is.
THEOREM StreakIsStored == Spec => []FailedAfterStreak
<1>1. IInv /\ OwnInv => FailedAfterStreak
  <2> SUFFICES ASSUME IInv, OwnInv, NEW r \in OwnRows, r.stop = "failed", ~failure,
                      NEW k \in 1 .. MaxConsecutive
               PROVE  \E s \in OwnSamples : /\ s.of[2] = r.achieved + r.failed + 1 - k
                                            /\ s.status = "failed"
    BY DEF FailedAfterStreak
  <2>1. r.achieved = achieved /\ r.failed = failed /\ r.stop = FinalReason
    BY DEF IInv, RowInv, OwnRows
  <2>2. stop = "failed"
    BY <2>1 DEF FinalReason
  <2>3. consecutive >= MaxConsecutive /\ iteration = achieved + failed
    BY <2>2 DEF IInv, LoopInv
  <2>4. k \in 1 .. consecutive
    BY <2>3, MonitorAssumption DEF IInv, TypeOK
  <2> QED
    BY <2>1, <2>3, <2>4 DEF OwnInv
<1> QED
  BY <1>1, Inductive, SamplesCounted, PTL
=============================================================================
