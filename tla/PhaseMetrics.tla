---------------------------- MODULE PhaseMetrics ----------------------------
(***************************************************************************)
(* The notebooks of the Sedona experiments on their shared cluster         *)
(* (national_scale_spatial_join_partitioned.py, ..._broadcast.py): each    *)
(* run loads the data, adds a SparkListener, executes the join, reads the  *)
(* stage metrics its listener has published as a global temp view, sums    *)
(* them up and exits with the sums.                                        *)
(*                                                                         *)
(* The client submits run after run; it goes on to the next one when the   *)
(* run has ended, or when it abandons it, which the DatabricksCluster      *)
(* module has in detail.                                                   *)
(*                                                                         *)
(* Spark is the environment.  It posts an event for every stage that ends; *)
(* one thread hands the events, one after the other, to all listeners in   *)
(* the order they were added, beside the notebooks.  Listeners and global  *)
(* temp views live as long as the cluster, and the notebooks never remove  *)
(* theirs.  A stage is the run that executes it and what it is for; its    *)
(* numbers are left out.                                                   *)
(***************************************************************************)
EXTENDS Integers, Sequences, FiniteSets

CONSTANTS
  Calls,         \* runs the client submits, one per monitored call
  JoinStages,    \* stages of the timed action
  MaxAbandoned   \* bound: runs the client abandons

ASSUME PhaseAssumption ==
  Calls \in Nat /\ JoinStages \in Nat \ {0} /\ MaxAbandoned \in Nat

VARIABLES
  submitted,  \* runs submitted
  abandoned,  \* runs the client gave up on
  step,       \* where the notebook of each run is
  joined,     \* stages of its timed action that have ended
  listeners,  \* runs whose notebook has added its listener, in order
  queue,      \* events Spark has posted and not handed to every listener
  turn,       \* listeners the first event has still to be handed to, once begun
  heard,      \* stages each listener has recorded
  view,       \* global_temp._phase_metrics
  payload,    \* the view each notebook has read
  early,      \* history: runs that read the view before the queue was empty
  shared,     \* history: runs that were active together with another one
  backlog     \* history: the queue when each listener was added

clientVars   == <<submitted, abandoned, shared>>
notebookVars == <<step, joined, listeners, payload, early, backlog>>
busVars      == <<queue, turn, heard, view>>
vars         == <<clientVars, notebookVars, busVars>>

NoView == [by |-> 0, stages |-> {}]

Load(c) == <<c, 0>>
Sum(c)  == <<c, JoinStages + 1>>
Join(c) == {<<c, i>> : i \in 1 .. JoinStages}

Ended  == {c \in 1 .. submitted : step[c] \in {"exit", "failed"}}
Active == (1 .. submitted) \ Ended

Proceed(c, from, to) ==
  /\ c <= submitted /\ step[c] = from
  /\ step' = [step EXCEPT ![c] = to]
  /\ UNCHANGED clientVars

Post(stage) == queue' = Append(queue, stage) /\ UNCHANGED <<turn, heard, view>>

-----------------------------------------------------------------------------
(***************************************************************************)
(* The notebook of run c.                                                  *)
(***************************************************************************)

\* Reading the schema of the buildings is a job of its own.
LoadBuildings(c) ==
  /\ Proceed(c, "load", "listen")
  /\ Post(Load(c))
  /\ UNCHANGED <<joined, listeners, payload, early, backlog>>

\* A mistake: the listener of the first run serves all later runs.
AddOnce(c) == IF listeners = <<>> THEN <<c>> ELSE listeners

AddAlways(c) == Append(listeners, c)

AddSparkListener(c) ==
  /\ Proceed(c, "listen", "join")
  /\ listeners' = AddAlways(c)
  /\ backlog' = [backlog EXCEPT ![c] = {queue[i] : i \in 1 .. Len(queue)}]
  /\ UNCHANGED <<joined, payload, early, busVars>>

\* result.collect() returns after the event of the last stage has been posted.
EndJoinStage(c) ==
  /\ Proceed(c, "join", IF joined[c] + 1 = JoinStages THEN "read" ELSE "join")
  /\ joined' = [joined EXCEPT ![c] = @ + 1]
  /\ Post(<<c, joined[c] + 1>>)
  /\ UNCHANGED <<listeners, payload, early, backlog>>

\* spark.read.table binds the view as it is; without one it raises.
ReadView(c) ==
  /\ Proceed(c, "read", "sum")
  /\ view # NoView
  /\ payload' = [payload EXCEPT ![c] = view]
  /\ early' = IF queue = <<>> THEN early ELSE early \cup {c}
  /\ UNCHANGED <<joined, listeners, backlog, busVars>>

\* Summing up is a job too.
SumUp(c) ==
  /\ Proceed(c, "sum", "exit")
  /\ Post(Sum(c))
  /\ UNCHANGED <<joined, listeners, payload, early, backlog>>

\* Any cell may raise; before the read of the metrics for want of the view as well.
RunFails(c) ==
  /\ c \in Active
  /\ step' = [step EXCEPT ![c] = "failed"]
  /\ UNCHANGED <<clientVars, joined, listeners, payload, early, backlog, busVars>>

-----------------------------------------------------------------------------
(***************************************************************************)
(* Spark's listener bus.                                                   *)
(***************************************************************************)

\* onStageCompleted of one listener: it adds the stage to what it has recorded and
\* publishes all of it, over what the listener before it has published.
HandEvent ==
  /\ queue # <<>>
  /\ LET waiting == IF turn = <<>> THEN listeners ELSE turn IN
       IF waiting = <<>>
       THEN queue' = Tail(queue) /\ UNCHANGED <<turn, heard, view>>
       ELSE LET l == Head(waiting) IN
              /\ heard' = [heard EXCEPT ![l] = @ \cup {Head(queue)}]
              /\ view' = [by |-> l, stages |-> heard'[l]]
              /\ turn' = Tail(waiting)
              /\ queue' = IF Tail(waiting) = <<>> THEN Tail(queue) ELSE queue
  /\ UNCHANGED <<clientVars, notebookVars>>

-----------------------------------------------------------------------------
(***************************************************************************)
(* The client.                                                             *)
(***************************************************************************)

SubmitRun ==
  /\ submitted < Calls
  /\ Active \subseteq abandoned
  /\ submitted' = submitted + 1
  /\ shared' = IF Active = {} THEN shared ELSE shared \cup Active \cup {submitted + 1}
  /\ UNCHANGED <<abandoned, notebookVars, busVars>>

\* A poll is answered with an error: the call raises, the run goes on.
AbandonRun ==
  /\ Active \ abandoned # {} /\ Cardinality(abandoned) < MaxAbandoned
  /\ abandoned' = abandoned \cup Active
  /\ UNCHANGED <<submitted, shared, notebookVars, busVars>>

-----------------------------------------------------------------------------
Notebook(c) ==
  LoadBuildings(c) \/ AddSparkListener(c) \/ EndJoinStage(c) \/ ReadView(c) \/ SumUp(c)
  \/ RunFails(c)

Init ==
  /\ submitted = 0 /\ abandoned = {} /\ shared = {}
  /\ step = [c \in 1 .. Calls |-> "load"] /\ joined = [c \in 1 .. Calls |-> 0]
  /\ listeners = <<>> /\ queue = <<>> /\ turn = <<>>
  /\ heard = [c \in 1 .. Calls |-> {}]
  /\ view = NoView /\ payload = [c \in 1 .. Calls |-> NoView]
  /\ early = {} /\ backlog = [c \in 1 .. Calls |-> {}]

Next ==
  \/ SubmitRun \/ AbandonRun
  \/ \E c \in 1 .. Calls : Notebook(c)
  \/ HandEvent

Spec == Init /\ [][Next]_vars

-----------------------------------------------------------------------------
(***************************************************************************)
(* Properties                                                              *)
(***************************************************************************)

\* The runs whose result the client takes.
Recorded == {c \in 1 .. submitted : step[c] = "exit"} \ abandoned

\* The metrics of a recorded result are those of its own timed action, although the
\* listeners of all earlier runs go on publishing: it read its own listener's view,
\* with every stage of its join, and of other stages only those the bus was behind
\* with when the listener was added - unless it read the view before the bus had
\* handed out all events, or shared the cluster with an abandoned run.
MetricsAreOwn ==
  \A c \in Recorded \ (early \cup shared) :
    /\ payload[c].by = c
    /\ Join(c) \subseteq payload[c].stages
    /\ payload[c].stages \subseteq Join(c) \cup backlog[c]
=============================================================================
