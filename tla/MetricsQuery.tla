---------------------------- MODULE MetricsQuery ----------------------------
(***************************************************************************)
(* How a benchmark run learns what it has used and what that costs         *)
(* (azure_metric_service.py, azure_cost_service.py): after its window has  *)
(* ended it computes one cost row per configured component.  Two of them   *)
(* ask Azure Monitor for metrics, of the container group and of the        *)
(* Postgres server, each after a wait for ingestion and with retries.      *)
(*                                                                         *)
(* Time is in ticks, counted from where some bucket of the service begins; *)
(* the window begins and ends at any tick, its warmup calls are part of    *)
(* it, its timed calls take any of its ticks.  The service publishes a     *)
(* bucket at some time after it ends, at most ServiceDelay later.  A       *)
(* request takes no time, sleeping does.  Of what a row is priced by there *)
(* are its seconds and its egress; ingress, storage, transactions and the  *)
(* rates themselves (azure_pricing_service.py) are left out.               *)
(***************************************************************************)
EXTENDS Integers, FiniteSets, FiniteSetsExt

CONSTANTS
  Experiments,     \* experiment ids
  LongIds,         \* those whose group name would exceed 63 characters
  Configurations,  \* the CostConfigurations in use, sets of components
  BucketLength,    \* granularity of the metrics
  IngestionDelay,  \* Config.INGESTION_DELAY_SECONDS
  ServiceDelay,    \* how long the service takes to publish a bucket
  Bytes,           \* what the container, or the server, may send in a tick
  MaxStart,        \* bound: when the window begins
  MaxEnd,          \* bound: when it ends
  MaxLag           \* bound: time from its end to the first query

ComponentOrder == [aci |-> 1, blob |-> 2, postgres |-> 3, databricks |-> 4]
Components     == DOMAIN ComponentOrder
Queried        == {"aci", "postgres"}

ASSUME MetricsAssumption ==
  /\ LongIds \subseteq Experiments
  /\ \A c \in Configurations : c \subseteq Components /\ "aci" \in c
  /\ BucketLength \in Nat \ {0} /\ IngestionDelay \in Nat /\ ServiceDelay \in Nat
  /\ Bytes \subseteq Nat
  /\ MaxStart \in Nat /\ MaxEnd \in Nat \ {0} /\ MaxLag \in Nat

\* Config waits ten minutes: longer than the service takes, and the rest of the last
\* bucket on top of it.
ASSUME DelayAssumption == ServiceDelay + BucketLength <= IngestionDelay + 1

VARIABLES
  now,
  id,             \* the experiment of this run
  configuration,  \* its CostConfiguration
  start,          \* start_time, before the first tick of the window
  end,            \* end_time, after its last one
  timed,          \* the ticks its timed calls take
  traffic,        \* bytes the container and the server send in each tick
  published,      \* buckets of the window the service has published
  at,             \* "begin", "sleep", "request", "backoff", "save", "done", "raised"
  wake,           \* when the present sleep is over
  attempt,        \* requests of the present query that have failed
  error,          \* the error of the last failed request
  usage,          \* buckets the present query has returned
  costs           \* cost rows

inputs == <<id, configuration, start, end, timed, traffic>>
vars == <<now, inputs, published, at, wake, attempt, error, usage, costs>>

MaxAttempts == 3
Retried == {"ClientAuthenticationError", "ServiceRequestError"}

Buckets == 1 .. ((MaxEnd + BucketLength - 1) \div BucketLength)
EndOf(b) == b * BucketLength
TicksOf(b) == (EndOf(b) - BucketLength + 1) .. EndOf(b)

\* Buckets the timespan of the query reaches into, the parts of the first and of the
\* last one that are not in the timespan included.
Window == {b \in Buckets : start < EndOf(b) /\ EndOf(b) - BucketLength < end}

\* main.py: a group name that is too long is cut and given a hash.
GroupName(e) == IF e \in LongIds THEN <<"shortened", e>> ELSE <<"benchmark", e>>

QueriedName(e) == <<"benchmark", e>>

\* Whether the name the query of a component uses is that of a resource.
Exists(c) == c = "postgres" \/ GroupName(id) = QueriedName(id)

\* The components still to be computed and written, in the code's order.
Due == configuration \ {row.component : row \in costs}
Present == CHOOSE c \in Due : \A b \in Due : ComponentOrder[c] <= ComponentOrder[b]

Ticks == 1 .. Max({EndOf(b) : b \in Buckets})

SentIn(c, ticks) == MapThenSumSet(LAMBDA t : traffic[c][t], ticks)

\* The monitored loop ends at end; the costs begin once the row is written.
Init ==
  /\ id \in Experiments /\ configuration \in Configurations
  /\ start \in 0 .. MaxStart /\ end \in (start + 1) .. MaxEnd
  /\ timed \in SUBSET ((start + 1) .. end)
  /\ traffic \in [Queried \cap configuration -> [Ticks -> Bytes]]
  /\ now \in end .. (end + MaxLag)
  /\ published = {b \in Window : EndOf(b) + ServiceDelay <= now}
  /\ at = "begin" /\ wake = 0 /\ attempt = 0 /\ error = "none"
  /\ usage = {} /\ costs = {}

-----------------------------------------------------------------------------
(***************************************************************************)
(* query_metrics.                                                          *)
(***************************************************************************)

\* A mistake: the delay is counted from the start of the window.
ReadyFromStart == start + IngestionDelay

Ready == end + IngestionDelay

\* Components without a query have their usage at hand; the others begin with
\* __wait_for_ingestion.
BeginComponent ==
  /\ at = "begin"
  /\ usage' = {} /\ attempt' = 0
  /\ IF Present \in Queried
     THEN wake' = Ready /\ at' = IF now < Ready THEN "sleep" ELSE "request"
     ELSE at' = "save" /\ UNCHANGED wake
  /\ UNCHANGED <<now, inputs, published, error, costs>>

\* time.sleep returns.
WakeUp ==
  /\ at \in {"sleep", "backoff"} /\ now >= wake
  /\ at' = "request"
  /\ UNCHANGED <<now, inputs, published, wake, attempt, error, usage, costs>>

\* The reply holds what is published by now; a group that does not exist has
\* no time series, or the request fails.
RequestSucceeds ==
  /\ at = "request"
  /\ usage' = IF Exists(Present) THEN published ELSE {}
  /\ at' = "save"
  /\ UNCHANGED <<now, inputs, published, wake, attempt, error, costs>>

\* A mistake: one retry too many.
LastAttemptLate(n) == n = MaxAttempts

LastAttempt(n) == n = MaxAttempts - 1

\* 5 * 3 ** attempt, from attempt 0 on.
Pauses == <<5, 15, 45>>

RequestFails ==
  /\ at = "request"
  /\ error' \in Retried \cup {"HttpResponseError"}
  /\ attempt' = attempt + 1
  /\ IF error' \in Retried /\ ~LastAttempt(attempt)
     THEN at' = "backoff" /\ wake' = now + Pauses[attempt + 1]
     ELSE at' = "raised" /\ UNCHANGED wake
  /\ UNCHANGED <<now, inputs, published, usage, costs>>

-----------------------------------------------------------------------------
(***************************************************************************)
(* The cost of one component, and its row.                                 *)
(***************************************************************************)

\* A mistake: the rates of the buckets are added up as if they were amounts.
SumOfRates(c, buckets) ==
  MapThenSumSet(LAMBDA b : SentIn(c, TicksOf(b)) \div BucketLength, buckets)

\* A metric is a rate, averaged over its bucket; a bucket counts as a whole, also
\* those the window begins and ends in.
SumOfMetric(c, buckets) == SentIn(c, UNION {TicksOf(b) : b \in buckets})

\* bytes_egress: what the process has counted in its timed calls, failed ones too.
CountedEgress == SentIn("aci", timed)

Egress(c) == IF c \in Queried THEN SumOfMetric(c, usage) ELSE CountedEgress

\* A failing upload, or a failing listing of the blobs, ends the process.
SaveCost ==
  /\ at = "save"
  /\ \/ /\ costs' = costs \cup {[component |-> Present, seconds |-> end - start,
                                 buckets |-> usage, egress |-> Egress(Present)]}
        /\ at' = IF Due = {Present} THEN "done" ELSE "begin"
     \/ at' = "raised" /\ UNCHANGED costs
  /\ UNCHANGED <<now, inputs, published, wake, attempt, error, usage>>

-----------------------------------------------------------------------------
(***************************************************************************)
(* Time and the service.                                                   *)
(***************************************************************************)

\* Time passes while the process sleeps.  What is overdue is published.
Tick ==
  /\ at \in {"sleep", "backoff"} /\ now < wake
  /\ now' = now + 1
  /\ published' = published \cup {b \in Window : EndOf(b) + ServiceDelay <= now'}
  /\ UNCHANGED <<inputs, at, wake, attempt, error, usage, costs>>

Publish ==
  /\ at \notin {"done", "raised"}
  /\ \E b \in Window \ published : EndOf(b) <= now /\ published' = published \cup {b}
  /\ UNCHANGED <<now, inputs, at, wake, attempt, error, usage, costs>>

Next ==
  \/ BeginComponent \/ WakeUp \/ RequestSucceeds \/ RequestFails \/ SaveCost
  \/ Tick \/ Publish

Spec == Init /\ [][Next]_vars

-----------------------------------------------------------------------------
\* The state stays in its domains; a query is never asked a fourth time.
TypeOK ==
  /\ now \in Nat /\ id \in Experiments /\ configuration \in Configurations
  /\ start \in 0 .. MaxStart /\ end \in (start + 1) .. MaxEnd
  /\ timed \subseteq (start + 1) .. end
  /\ published \subseteq Window
  /\ at \in {"begin", "sleep", "request", "backoff", "save", "done", "raised"}
  /\ wake \in Nat /\ attempt \in 0 .. MaxAttempts
  /\ error \in Retried \cup {"none", "HttpResponseError"}
  /\ usage \subseteq Window
  /\ \A row \in costs : row.component \in configuration /\ row.egress \in Nat

\* A usage is summed over the whole window, also over the bucket the window
\* ended in, however many attempts were needed: no query comes before the
\* service has published what it asks for, where the group has the name the
\* query uses.
UsageCoversWindow ==
  \A row \in costs :
    row.component \in Queried /\ Exists(row.component) => row.buckets = Window

\* The ticks from less than a bucket before the window to less than one after it.
Around == {t \in Ticks : start - BucketLength + 1 < t /\ t < end + BucketLength}

\* The two ways a run counts the bytes it is billed for agree: the bytes the process
\* counted in its timed calls, which its blob and Databricks rows are priced by, are
\* all among those its ACI row is priced by, and what that row has in excess is no
\* more than the group sent out of the timed calls: in warmup calls, between calls,
\* and less than a bucket before and less than a bucket after the window.
CountsReconcile ==
  \A a, b \in costs :
    a.component = "aci" /\ Exists("aci") /\ b.component \in {"blob", "databricks"} =>
      /\ b.egress <= a.egress
      /\ a.egress - b.egress <= SentIn("aci", Around \ timed)

\* azure_metric_service_interface.py: the usage is that of the benchmark
\* identified by the script id, computed over the benchmark window.
UsageIsOfTheBenchmark == \A row \in costs : row.component \in Queried => row.buckets = Window
=============================================================================
