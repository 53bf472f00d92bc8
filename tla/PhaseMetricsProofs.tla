------------------------- MODULE PhaseMetricsProofs -------------------------
(***************************************************************************)
(* Proofs about the stage metrics of the notebooks, for every number of    *)
(* runs, of stages and of abandoned runs.                                  *)
(***************************************************************************)
EXTENDS PhaseMetrics, TLAPS

Runs   == 1 .. Calls
Stages == Nat \X Nat
Views  == [by : Nat, stages : SUBSET Stages]

TypeInv ==
  /\ submitted \in 0 .. Calls
  /\ step \in [Runs -> {"load", "listen", "join", "read", "sum", "exit", "failed"}]
  /\ joined \in [Runs -> Nat]
  /\ listeners \in Seq(Runs) /\ turn \in Seq(Runs) /\ queue \in Seq(Stages)
  /\ heard \in [Runs -> SUBSET Stages]
  /\ view \in Views /\ payload \in [Runs -> Views]
  /\ backlog \in [Runs -> SUBSET Stages]
  /\ early \subseteq Runs /\ shared \subseteq Runs

Occurs(x, s) == \E i \in 1 .. Len(s) : s[i] = x
EndsWith(s, x) == s # <<>> /\ s[Len(s)] = x

\* Runs that have not been submitted, and runs without a listener, left no trace.
FreshInv ==
  /\ \A c \in Runs : c > submitted => step[c] = "load"
  /\ \A c \in Runs : step[c] \in {"load", "listen"} =>
       joined[c] = 0 /\ heard[c] = {} /\ ~Occurs(c, listeners) /\ ~Occurs(c, turn)

\* An event is in progress only while it is the first of the queue.
BusInv == turn # <<>> => queue # <<>>

\* The join's stages are counted.
CountInv ==
  \A c \in Runs : /\ step[c] = "join" => joined[c] < JoinStages
                  /\ step[c] = "read" => joined[c] = JoinStages

\* A run that has never shared the cluster is alone on it.
AloneInv == \A c \in Active \ shared : Active = {c}

\* The first event will still be handed to the listener of c.
Reaches(c) == turn # <<>> => EndsWith(turn, c)

\* While a run that is alone executes its join, its listener is the last one, so that
\* the view is its own whenever an event that reaches it has been handed out; every
\* stage of the join is recorded or on its way; and nothing else is on its way but
\* what the bus was behind with.
Listens(c) ==
  /\ EndsWith(listeners, c)
  /\ ~Reaches(c) => heard[c] = {} /\ ~Occurs(c, turn)
  /\ turn = <<>> /\ heard[c] # {} => view = [by |-> c, stages |-> heard[c]]
  /\ \A i \in 1 .. joined[c] :
       \/ <<c, i>> \in heard[c]
       \/ \E k \in 1 .. Len(queue) : queue[k] = <<c, i>> /\ (k = 1 => Reaches(c))
  /\ heard[c] \subseteq Join(c) \cup backlog[c]
  /\ \A k \in 1 .. Len(queue) : queue[k] \in Join(c) \cup backlog[c]

ListenInv == \A c \in Active \ shared : step[c] \in {"join", "read"} => Listens(c)

\* What a run that was alone has read in time is its own.
ReadInv ==
  \A c \in Runs \ (early \cup shared) : c <= submitted /\ step[c] \in {"sum", "exit"} =>
    /\ payload[c].by = c
    /\ Join(c) \subseteq payload[c].stages
    /\ payload[c].stages \subseteq Join(c) \cup backlog[c]

IInv ==
  /\ TypeInv /\ FreshInv /\ BusInv /\ CountInv
  /\ AloneInv /\ ListenInv /\ ReadInv
-----------------------------------------------------------------------------
\* At first no run has been submitted.
LEMMA Initially == Init => IInv
<1> SUFFICES ASSUME Init PROVE IInv
  OBVIOUS
<1> USE PhaseAssumption DEF Init, Runs
<1>1. TypeInv
  BY DEF TypeInv, Views, NoView
<1>2. FreshInv /\ BusInv /\ CountInv
  BY DEF FreshInv, BusInv, CountInv, Occurs
<1>3. Active = {}
  BY DEF Active
<1>4. AloneInv /\ ListenInv
  BY <1>3 DEF AloneInv, ListenInv
<1>5. ReadInv
  BY DEF ReadInv
<1> QED BY <1>1, <1>2, <1>4, <1>5 DEF IInv

\* Posted events are stages.
LEMMA PostedTyped ==
  ASSUME queue \in Seq(Stages), NEW i \in Nat, NEW j \in Nat
  PROVE  Append(queue, <<i, j>>) \in Seq(Stages)
BY DEF Stages

\* Every step keeps the types.
LEMMA TypeStep ==
  ASSUME TypeInv, [Next]_vars
  PROVE  TypeInv'
<1> USE PhaseAssumption DEF TypeInv, Runs, clientVars, notebookVars, busVars
<1>1. CASE SubmitRun
  <2>1. Active \subseteq Runs /\ submitted' \in Runs /\ submitted' = submitted + 1
    BY <1>1 DEF Active, SubmitRun
  <2>2. shared' \subseteq Runs
    BY <1>1, <2>1 DEF SubmitRun
  <2> QED BY <1>1, <2>1, <2>2 DEF SubmitRun
<1>2. CASE AbandonRun
  BY <1>2 DEF AbandonRun
<1>3. ASSUME NEW c \in Runs, LoadBuildings(c) PROVE TypeInv'
  <2>1. queue' \in Seq(Stages)
    BY <1>3, PostedTyped DEF LoadBuildings, Post, Load
  <2> QED BY <1>3, <2>1 DEF LoadBuildings, Proceed, Post
<1>4. ASSUME NEW c \in Runs, AddSparkListener(c) PROVE TypeInv'
  <2>1. {queue[i] : i \in 1 .. Len(queue)} \subseteq Stages
    OBVIOUS
  <2>2. backlog' \in [Runs -> SUBSET Stages]
    BY <1>4, <2>1 DEF AddSparkListener
  <2> QED BY <1>4, <2>2 DEF AddSparkListener, Proceed, AddAlways
<1>5. ASSUME NEW c \in Runs, EndJoinStage(c) PROVE TypeInv'
  <2>1. queue' \in Seq(Stages)
    BY <1>5, PostedTyped DEF EndJoinStage, Post
  <2> QED BY <1>5, <2>1 DEF EndJoinStage, Proceed, Post
<1>6. ASSUME NEW c \in Runs, ReadView(c) PROVE TypeInv'
  BY <1>6 DEF ReadView, Proceed
<1>7. ASSUME NEW c \in Runs, SumUp(c) PROVE TypeInv'
  <2>1. queue' \in Seq(Stages)
    BY <1>7, PostedTyped DEF SumUp, Post, Sum
  <2> QED BY <1>7, <2>1 DEF SumUp, Proceed, Post
<1>8. ASSUME NEW c \in Runs, RunFails(c) PROVE TypeInv'
  BY <1>8 DEF RunFails
<1>9. CASE HandEvent
  <2> DEFINE waiting == IF turn = <<>> THEN listeners ELSE turn
  <2>0. queue # <<>>
    BY <1>9 DEF HandEvent
  <2>1. waiting \in Seq(Runs) /\ Tail(queue) \in Seq(Stages) /\ Head(queue) \in Stages
    BY <2>0
  <2>2. /\ UNCHANGED <<clientVars, notebookVars>>
        /\ IF waiting = <<>>
           THEN queue' = Tail(queue) /\ UNCHANGED <<turn, heard, view>>
           ELSE /\ heard' = [heard EXCEPT ![Head(waiting)] = @ \cup {Head(queue)}]
                /\ view' = [by |-> Head(waiting), stages |-> heard'[Head(waiting)]]
                /\ turn' = Tail(waiting)
                /\ queue' = IF Tail(waiting) = <<>> THEN Tail(queue) ELSE queue
    BY <1>9 DEF HandEvent
  <2> HIDE DEF waiting
  <2>3. CASE waiting = <<>>
    BY <2>1, <2>2, <2>3
  <2>4. CASE waiting # <<>>
    <3>1. Head(waiting) \in Runs /\ Tail(waiting) \in Seq(Runs)
      BY <2>1, <2>4
    <3>2. heard' \in [Runs -> SUBSET Stages]
      <4> DEFINE new == heard[Head(waiting)] \cup {Head(queue)}
      <4>1. new \in SUBSET Stages
        BY <2>1, <3>1
      <4>2. heard' = [heard EXCEPT ![Head(waiting)] = new]
        BY <2>2, <2>4
      <4> HIDE DEF new
      <4> QED BY <4>1, <4>2
    <3>3. view' \in Views
      <4>1. Head(waiting) \in Nat /\ heard'[Head(waiting)] \in SUBSET Stages
        BY <3>1, <3>2
      <4>2. view' = [by |-> Head(waiting), stages |-> heard'[Head(waiting)]]
        BY <2>2, <2>4
      <4> QED BY <4>1, <4>2 DEF Views
    <3>4. turn' \in Seq(Runs) /\ queue' \in Seq(Stages)
      BY <2>1, <2>2, <2>4, <3>1
    <3> QED BY <2>2, <3>2, <3>3, <3>4
  <2> QED BY <2>3, <2>4
<1>10. CASE UNCHANGED vars
  BY <1>10 DEF vars
<1> QED BY <1>1, <1>2, <1>3, <1>4, <1>5, <1>6, <1>7, <1>8, <1>9, <1>10 DEF Next, Notebook

-----------------------------------------------------------------------------
(***************************************************************************)
(* Sequences.                                                              *)
(***************************************************************************)
LEMMA OccursInAppend ==
  ASSUME NEW S, NEW s \in Seq(S), NEW x \in S, NEW y, Occurs(y, Append(s, x))
  PROVE  y = x \/ Occurs(y, s)
BY DEF Occurs

\* The head of a sequence and what is in its tail are in the sequence.
LEMMA OccursInTail ==
  ASSUME NEW S, NEW s \in Seq(S), s # <<>>
  PROVE  /\ Occurs(Head(s), s)
         /\ \A y : Occurs(y, Tail(s)) => Occurs(y, s)
<1>1. /\ Len(s) \in Nat \ {0} /\ Head(s) = s[1] /\ Len(Tail(s)) = Len(s) - 1
      /\ \A i \in 1 .. Len(Tail(s)) : Tail(s)[i] = s[i + 1]
  OBVIOUS
<1> QED BY <1>1 DEF Occurs

\* The tail of a sequence ends as the sequence does.
LEMMA EndOfTail ==
  ASSUME NEW S, NEW s \in Seq(S), NEW x, EndsWith(s, x)
  PROVE  IF Tail(s) = <<>> THEN Head(s) = x ELSE EndsWith(Tail(s), x)
<1>1. /\ s # <<>> /\ Len(s) \in Nat \ {0} /\ Head(s) = s[1] /\ Len(Tail(s)) = Len(s) - 1
      /\ \A i \in 1 .. Len(Tail(s)) : Tail(s)[i] = s[i + 1]
  BY DEF EndsWith
<1>2. CASE Tail(s) = <<>>
  <2>1. Len(s) = 1
    BY <1>1, <1>2
  <2> QED BY <1>1, <1>2, <2>1 DEF EndsWith
<1>3. CASE Tail(s) # <<>>
  <2>1. Len(Tail(s)) \in 1 .. Len(Tail(s))
    BY <1>1, <1>3
  <2>2. Tail(s)[Len(Tail(s))] = s[Len(s)]
    BY <1>1, <2>1
  <2> QED BY <1>3, <2>2 DEF EndsWith
<1> QED BY <1>2, <1>3

\* What was appended to be of length one was empty.
LEMMA ShortAppend ==
  ASSUME NEW S, NEW s \in Seq(S), NEW x \in S, Len(Append(s, x)) = 1
  PROVE  s = <<>>
OBVIOUS

-----------------------------------------------------------------------------
(***************************************************************************)
(* Steps: a notebook acts only while it is active, the bus on one event.   *)
(***************************************************************************)
LEMMA NotebookStep ==
  ASSUME TypeInv, NEW c \in Runs, Notebook(c)
  PROVE  /\ c \in Active /\ UNCHANGED clientVars
         /\ \A d \in Runs : d # c => step'[d] = step[d]
         /\ Active' \subseteq Active
<1>1. c \in Active /\ UNCHANGED clientVars
  BY DEF Notebook, LoadBuildings, AddSparkListener, EndJoinStage, ReadView, SumUp, RunFails, Proceed,
     Active, Ended, Runs
<1>2. \A d \in Runs : d # c => step'[d] = step[d]
  BY DEF Notebook, LoadBuildings, AddSparkListener, EndJoinStage, ReadView, SumUp, RunFails, Proceed,
     TypeInv
<1>3. Active' \subseteq Active
  <2> SUFFICES ASSUME NEW d \in Active' PROVE d \in Active
    OBVIOUS
  <2>1. d \in 1 .. submitted /\ d \in Runs /\ step'[d] \notin {"exit", "failed"}
    BY <1>1, PhaseAssumption DEF Active, Ended, clientVars, TypeInv, Runs
  <2>2. CASE d = c
    BY <1>1, <2>2
  <2>3. CASE d # c
    BY <1>2, <2>1, <2>3 DEF Active, Ended
  <2> QED BY <2>2, <2>3
<1> QED BY <1>1, <1>2, <1>3

\* The bus hands the first event to one listener, and drops it after the last.
LEMMA HandEventStep ==
  ASSUME TypeInv, HandEvent
  PROVE  /\ queue # <<>> /\ UNCHANGED <<clientVars, notebookVars>>
         /\ \/ /\ listeners = <<>> /\ turn = <<>>
               /\ queue' = Tail(queue) /\ UNCHANGED <<turn, heard, view>>
            \/ \E w \in Seq(Runs) :
                 /\ w # <<>> /\ w = IF turn = <<>> THEN listeners ELSE turn
                 /\ heard' = [heard EXCEPT ![Head(w)] = @ \cup {Head(queue)}]
                 /\ view' = [by |-> Head(w), stages |-> heard'[Head(w)]]
                 /\ turn' = Tail(w)
                 /\ queue' = IF Tail(w) = <<>> THEN Tail(queue) ELSE queue
BY DEF HandEvent, TypeInv

\* A run without a listener has left no trace.
LEMMA FreshStep ==
  ASSUME TypeInv, FreshInv, [Next]_vars
  PROVE  FreshInv'
<1> USE DEF TypeInv, FreshInv
<1>1. CASE SubmitRun
  <2>1. /\ submitted' = submitted + 1 /\ submitted \in Nat
        /\ UNCHANGED <<step, joined, heard, listeners, turn>>
    BY <1>1, PhaseAssumption DEF SubmitRun, notebookVars, busVars
  <2>2. \A c \in Runs : c \in Nat /\ (c > submitted' => c > submitted)
    BY <2>1 DEF Runs
  <2> QED BY <2>1, <2>2
<1>2. CASE AbandonRun
  BY <1>2 DEF AbandonRun, notebookVars, busVars
<1>3. CASE UNCHANGED vars
  BY <1>3 DEF vars, clientVars, notebookVars, busVars
<1>4. ASSUME NEW d \in Runs, AddSparkListener(d) PROVE FreshInv'
  <2>1. /\ listeners' = Append(listeners, d) /\ step' = [step EXCEPT ![d] = "join"]
        /\ d <= submitted
        /\ UNCHANGED <<submitted, joined, heard, turn>>
    BY <1>4 DEF AddSparkListener, Proceed, AddAlways, clientVars, busVars
  <2>2. ASSUME NEW c \in Runs, step'[c] \in {"load", "listen"}
        PROVE  c # d /\ step[c] \in {"load", "listen"} /\ ~Occurs(c, listeners')
    BY <2>1, <2>2, OccursInAppend
  <2> QED BY <2>1, <2>2 DEF Runs
<1>5. ASSUME NEW d \in Runs, Notebook(d), ~AddSparkListener(d) PROVE FreshInv'
  <2>1. /\ listeners' = listeners /\ turn' = turn /\ heard' = heard /\ submitted' = submitted
        /\ d <= submitted
        /\ \A c \in Runs : step'[c] \in {"load", "listen"} =>
             step[c] \in {"load", "listen"} /\ joined'[c] = joined[c]
    BY <1>5 DEF Notebook, LoadBuildings, EndJoinStage, ReadView, SumUp, RunFails, Proceed, Post,
       clientVars, busVars, Active
  <2>2. \A c \in Runs : c # d => step'[c] = step[c]
    BY <1>5, NotebookStep
  <2> QED BY <2>1, <2>2 DEF Runs
<1>6. CASE HandEvent
  <2>1. UNCHANGED <<submitted, step, joined, listeners>>
    BY <1>6, HandEventStep DEF clientVars, notebookVars
  <2>2. CASE UNCHANGED <<turn, heard>>
    BY <2>1, <2>2
  <2>3. ASSUME NEW w \in Seq(Runs), w # <<>>, w = (IF turn = <<>> THEN listeners ELSE turn),
               heard' = [heard EXCEPT ![Head(w)] = @ \cup {Head(queue)}], turn' = Tail(w)
        PROVE  FreshInv'
    <3>1. ASSUME NEW c \in Runs, step[c] \in {"load", "listen"}
          PROVE  heard'[c] = {} /\ ~Occurs(c, turn')
      <4>1. ~Occurs(c, w)
        BY <2>3, <3>1
      <4>2. c # Head(w) /\ ~Occurs(c, Tail(w))
        BY <2>3, <4>1, OccursInTail
      <4> QED BY <2>3, <3>1, <4>2
    <3> QED BY <2>1, <3>1
  <2> QED BY <1>6, <2>2, <2>3, HandEventStep
<1> QED BY <1>1, <1>2, <1>3, <1>4, <1>5, <1>6 DEF Next, Notebook, Runs

\* An event is handed out while it is the first of the queue.
LEMMA BusStep ==
  ASSUME TypeInv, BusInv, [Next]_vars
  PROVE  BusInv'
<1> USE DEF TypeInv, BusInv
<1>1. CASE HandEvent
  BY <1>1, HandEventStep
<1>2. ASSUME NEW c \in Runs, Notebook(c) PROVE BusInv'
  <2>1. turn' = turn /\ (queue' = queue \/ \E i, j \in Nat : queue' = Append(queue, <<i, j>>))
    <3>1. c \in Nat /\ joined[c] + 1 \in Nat /\ JoinStages + 1 \in Nat
      BY PhaseAssumption DEF Runs
    <3>2. CASE AddSparkListener(c) \/ ReadView(c) \/ RunFails(c)
      BY <3>2 DEF AddSparkListener, ReadView, RunFails, busVars
    <3>3. CASE LoadBuildings(c)
      BY <3>1, <3>3 DEF LoadBuildings, Post, Load
    <3>4. CASE EndJoinStage(c)
      BY <3>1, <3>4 DEF EndJoinStage, Post
    <3>5. CASE SumUp(c)
      BY <3>1, <3>5 DEF SumUp, Post, Sum
    <3> QED BY <1>2, <3>2, <3>3, <3>4, <3>5 DEF Notebook
  <2>2. ASSUME NEW i \in Nat, NEW j \in Nat, queue' = Append(queue, <<i, j>>) PROVE queue' # <<>>
    BY <2>2 DEF Stages
  <2> QED BY <2>1, <2>2
<1>3. CASE SubmitRun \/ AbandonRun \/ UNCHANGED vars
  BY <1>3 DEF SubmitRun, AbandonRun, vars, busVars
<1> QED BY <1>1, <1>2, <1>3 DEF Next, Runs

\* A run reads the view when all stages of its join have ended, and no earlier.
LEMMA CountStep ==
  ASSUME TypeInv, FreshInv, CountInv, [Next]_vars
  PROVE  CountInv'
<1> USE PhaseAssumption DEF TypeInv, CountInv
<1>1. ASSUME NEW d \in Runs, AddSparkListener(d) PROVE CountInv'
  <2>1. joined[d] = 0 /\ joined' = joined /\ step' = [step EXCEPT ![d] = "join"]
    BY <1>1 DEF AddSparkListener, Proceed, FreshInv
  <2> QED BY <2>1
<1>2. ASSUME NEW d \in Runs, EndJoinStage(d) PROVE CountInv'
  <2>1. /\ step[d] = "join" /\ joined[d] < JoinStages
        /\ joined' = [joined EXCEPT ![d] = joined[d] + 1]
        /\ step' = [step EXCEPT ![d] = IF joined[d] + 1 = JoinStages THEN "read" ELSE "join"]
    BY <1>2 DEF EndJoinStage, Proceed
  <2> QED BY <2>1
<1>3. ASSUME NEW d \in Runs, LoadBuildings(d) \/ ReadView(d) \/ SumUp(d) \/ RunFails(d)
      PROVE  CountInv'
  <2>1. joined' = joined /\ \A c \in Runs : step'[c] \in {"join", "read"} => step'[c] = step[c]
    BY <1>3 DEF LoadBuildings, ReadView, SumUp, RunFails, Proceed
  <2> QED BY <2>1
<1>4. CASE SubmitRun \/ AbandonRun \/ HandEvent \/ UNCHANGED vars
  BY <1>4 DEF SubmitRun, AbandonRun, HandEvent, vars, notebookVars
<1> QED BY <1>1, <1>2, <1>3, <1>4 DEF Next, Notebook, Runs

-----------------------------------------------------------------------------
(***************************************************************************)
(* A run that is alone, and its listener.                                  *)
(***************************************************************************)
LEMMA SubmitStep ==
  ASSUME TypeInv, SubmitRun
  PROVE  /\ submitted' = submitted + 1 /\ submitted' \in Runs /\ step' = step
         /\ Active' \subseteq Active \cup {submitted'}
         /\ shared \subseteq shared'
         /\ Active = {} \/ Active' \subseteq shared'
<1> USE PhaseAssumption DEF TypeInv, SubmitRun, notebookVars, busVars
<1>1. submitted' = submitted + 1 /\ submitted' \in Runs /\ step' = step
  BY DEF Runs
<1>2. Active' \subseteq Active \cup {submitted'}
  BY <1>1 DEF Active, Ended
<1> QED BY <1>1, <1>2

\* A run that shares the cluster with no other is the only active one.
LEMMA AloneStep ==
  ASSUME TypeInv, AloneInv, [Next]_vars
  PROVE  AloneInv'
<1>1. CASE SubmitRun
  BY <1>1, SubmitStep DEF AloneInv
<1>2. ASSUME NEW c \in Runs, Notebook(c) PROVE AloneInv'
  BY <1>2, NotebookStep DEF AloneInv, clientVars
<1>3. CASE AbandonRun \/ HandEvent \/ UNCHANGED vars
  <2>1. submitted' = submitted /\ step' = step /\ shared' = shared
    BY <1>3 DEF AbandonRun, HandEvent, vars, clientVars, notebookVars
  <2>2. Active' = Active
    BY <2>1 DEF Active, Ended
  <2> QED BY <2>1, <2>2 DEF AloneInv
<1> QED BY <1>1, <1>2, <1>3 DEF Next, Runs

\* A listener that was just added hears all events that come later.
LEMMA ListensAfterAdding ==
  ASSUME TypeInv, FreshInv, NEW c \in Runs, AddSparkListener(c)
  PROVE  Listens(c)'
<1> USE DEF TypeInv
<1>1. /\ step[c] = "listen" /\ listeners' = Append(listeners, c)
      /\ backlog' = [backlog EXCEPT ![c] = {queue[i] : i \in 1 .. Len(queue)}]
      /\ UNCHANGED <<joined, queue, turn, heard, view>>
  BY DEF AddSparkListener, Proceed, AddAlways, busVars
<1>2. joined[c] = 0 /\ heard[c] = {} /\ ~Occurs(c, turn)
  BY <1>1 DEF FreshInv
<1>3. EndsWith(listeners', c)
  <2>1. Len(listeners') = Len(listeners) + 1 /\ listeners'[Len(listeners) + 1] = c
    BY <1>1
  <2>2. listeners' # <<>>
    BY <1>1
  <2> QED BY <2>1, <2>2 DEF EndsWith
<1>4. \A k \in 1 .. Len(queue) : queue[k] \in backlog'[c]
  BY <1>1
<1> QED BY <1>1, <1>2, <1>3, <1>4 DEF Listens

\* The event of a stage that has ended is behind those in the queue.
LEMMA ListensAfterStage ==
  ASSUME TypeInv, BusInv, CountInv, NEW c \in Runs, Listens(c), EndJoinStage(c)
  PROVE  Listens(c)'
<1> USE PhaseAssumption DEF TypeInv
<1>1. /\ joined' = [joined EXCEPT ![c] = joined[c] + 1] /\ joined[c] < JoinStages
      /\ queue' = Append(queue, <<c, joined[c] + 1>>)
      /\ UNCHANGED <<listeners, turn, heard, view, backlog>>
  BY DEF EndJoinStage, Proceed, Post, CountInv
<1>2. /\ Len(queue') = Len(queue) + 1 /\ queue'[Len(queue')] = <<c, joined[c] + 1>>
      /\ \A k \in 1 .. Len(queue) : queue'[k] = queue[k]
      /\ Len(queue) \in Nat /\ joined[c] \in Nat /\ joined'[c] = joined[c] + 1
  BY <1>1 DEF Stages
<1>3. <<c, joined[c] + 1>> \in Join(c)
  BY <1>1, <1>2 DEF Join
<1>4. Reaches(c)' <=> Reaches(c)
  BY <1>1 DEF Reaches
<1>5. \A k \in 1 .. Len(queue') : queue'[k] \in Join(c) \cup backlog[c]
  <2> SUFFICES ASSUME NEW k \in 1 .. Len(queue') PROVE queue'[k] \in Join(c) \cup backlog[c]
    OBVIOUS
  <2>1. CASE k = Len(queue')
    BY <1>2, <1>3, <2>1
  <2>2. CASE k # Len(queue')
    <3>1. k \in 1 .. Len(queue)
      <4> HIDE DEF TypeInv
      <4> QED BY <1>2, <2>2
    <3> QED BY <1>2, <3>1 DEF Listens
  <2> QED BY <2>1, <2>2
<1>6. ASSUME NEW i \in 1 .. joined'[c]
      PROVE  \/ <<c, i>> \in heard[c]
             \/ \E k \in 1 .. Len(queue') : queue'[k] = <<c, i>> /\ (k = 1 => Reaches(c))
  <2>1. CASE i = joined[c] + 1
    <3>1. queue'[Len(queue')] = <<c, i>> /\ Len(queue') \in 1 .. Len(queue')
      BY <1>2, <2>1
    <3>2. Len(queue') = 1 => Reaches(c)
      <4>1. Len(queue') = 1 => queue = <<>>
        <5>1. <<c, joined[c] + 1>> \in Stages
          BY <1>2 DEF Stages, Runs
        <5> QED BY <1>1, <5>1, ShortAppend
      <4> QED BY <4>1 DEF BusInv, Reaches
    <3> QED BY <3>1, <3>2
  <2>2. CASE i # joined[c] + 1
    <3>1. i \in 1 .. joined[c]
      BY <1>2, <2>2
    <3>2. CASE <<c, i>> \in heard[c]
      BY <3>2
    <3>3. ASSUME NEW k \in 1 .. Len(queue), queue[k] = <<c, i>>, k = 1 => Reaches(c)
          PROVE  \E j \in 1 .. Len(queue') : queue'[j] = <<c, i>> /\ (j = 1 => Reaches(c))
      <4>1. k \in 1 .. Len(queue') /\ queue'[k] = <<c, i>>
        BY <1>2, <3>3
      <4> QED BY <3>3, <4>1
    <3> QED BY <3>1, <3>2, <3>3 DEF Listens
  <2> QED BY <2>1, <2>2
<1> QED BY <1>1, <1>4, <1>5, <1>6 DEF Listens

\* Handing out one event: what is left of the queue, and what the others keep.
LEMMA ListensAfterEvent ==
  ASSUME TypeInv, NEW c \in Runs, Listens(c), HandEvent
  PROVE  Listens(c)'
<1> USE DEF TypeInv
<1>1. queue # <<>> /\ UNCHANGED <<listeners, joined, backlog>> /\ listeners # <<>>
  BY HandEventStep DEF notebookVars, Listens, EndsWith
<1>2. PICK w \in Seq(Runs) :
        /\ w # <<>> /\ w = IF turn = <<>> THEN listeners ELSE turn
        /\ heard' = [heard EXCEPT ![Head(w)] = @ \cup {Head(queue)}]
        /\ view' = [by |-> Head(w), stages |-> heard'[Head(w)]]
        /\ turn' = Tail(w)
        /\ queue' = IF Tail(w) = <<>> THEN Tail(queue) ELSE queue
  BY <1>1, HandEventStep
<1>3. /\ Len(queue) \in Nat \ {0} /\ Head(queue) = queue[1] /\ Len(Tail(queue)) = Len(queue) - 1
      /\ \A k \in 1 .. Len(Tail(queue)) : Tail(queue)[k] = queue[k + 1]
  BY <1>1
<1>4. Head(w) \in Runs /\ heard'[c] = IF Head(w) = c THEN heard[c] \cup {queue[1]} ELSE heard[c]
  <2>1. Head(w) \in Runs
    BY <1>2
  <2> DEFINE new == heard[Head(w)] \cup {queue[1]}
  <2>2. heard' = [heard EXCEPT ![Head(w)] = new]
    BY <1>2, <1>3
  <2>3. heard'[c] = IF Head(w) = c THEN new ELSE heard[c]
    <3> HIDE DEF new
    <3> QED BY <2>2
  <2> QED BY <2>1, <2>3
<1> HIDE DEF TypeInv
<1>5. /\ heard[c] \subseteq heard'[c] /\ heard'[c] \subseteq Join(c) \cup backlog[c]
      /\ \A k \in 1 .. Len(queue) : queue[k] \in Join(c) \cup backlog[c]
  BY <1>3, <1>4 DEF Listens
<1>6. \A k \in 1 .. Len(queue') : queue'[k] \in Join(c) \cup backlog[c]
  <2>1. CASE Tail(w) = <<>>
    <3>1. queue' = Tail(queue) /\ \A k \in 1 .. Len(Tail(queue)) : k + 1 \in 1 .. Len(queue)
      BY <1>2, <1>3, <2>1
    <3> QED BY <1>3, <1>5, <3>1
  <2>2. CASE Tail(w) # <<>>
    BY <1>2, <1>5, <2>2
  <2> QED BY <2>1, <2>2
<1>7. ASSUME Tail(w) = <<>>, NEW i \in 1 .. joined[c],
             NEW k \in 1 .. Len(queue), queue[k] = <<c, i>>, k # 1
      PROVE  \E j \in 1 .. Len(queue') : queue'[j] = <<c, i>>
  <2>1. queue' = Tail(queue) /\ k - 1 \in 1 .. Len(Tail(queue)) /\ (k - 1) + 1 = k
    BY <1>2, <1>3, <1>7
  <2>2. Tail(queue)[k - 1] = queue[k]
    BY <1>3, <2>1
  <2> QED BY <1>7, <2>1, <2>2
<1>8. CASE Reaches(c)
  <2>1. EndsWith(w, c)
    BY <1>2, <1>8 DEF Reaches, Listens
  <2>2. CASE Tail(w) = <<>>
    <3>1. Head(w) = c /\ turn' = <<>>
      BY <1>2, <2>1, <2>2, EndOfTail
    <3>2. Reaches(c)' /\ view' = [by |-> c, stages |-> heard'[c]] /\ queue[1] \in heard'[c]
      <4>1. Reaches(c)'
        BY <3>1 DEF Reaches
      <4>2. view' = [by |-> c, stages |-> heard'[c]]
        BY <1>2, <3>1
      <4> QED BY <1>4, <3>1, <4>1, <4>2
    <3>3. \A i \in 1 .. joined[c] :
            <<c, i>> \in heard'[c] \/ \E k \in 1 .. Len(queue') : queue'[k] = <<c, i>>
      BY <1>5, <1>7, <2>2, <3>2 DEF Listens
    <3> QED BY <1>1, <1>5, <1>6, <3>1, <3>2, <3>3 DEF Listens
  <2>3. CASE Tail(w) # <<>>
    <3>1. EndsWith(turn', c) /\ turn' # <<>> /\ queue' = queue
      BY <1>2, <2>1, <2>3, EndOfTail
    <3>2. Reaches(c)'
      BY <3>1 DEF Reaches
    <3> QED BY <1>1, <1>5, <1>6, <3>1, <3>2 DEF Listens
  <2> QED BY <2>2, <2>3
<1>9. CASE ~Reaches(c)
  <2>1. turn # <<>> /\ w = turn /\ heard[c] = {} /\ ~Occurs(c, turn)
    BY <1>2, <1>9 DEF Reaches, Listens
  <2>2. Head(w) # c /\ ~Occurs(c, turn') /\ heard'[c] = {}
    BY <1>2, <1>4, <2>1, OccursInTail
  <2>3. ASSUME NEW i \in 1 .. joined[c]
        PROVE  \E k \in 1 .. Len(queue) : queue[k] = <<c, i>> /\ k # 1
    BY <1>9, <2>1 DEF Listens
  <2>4. CASE Tail(w) = <<>>
    <3>1. turn' = <<>> /\ Reaches(c)'
      BY <1>2, <2>4 DEF Reaches
    <3>2. \A i \in 1 .. joined[c] : \E k \in 1 .. Len(queue') : queue'[k] = <<c, i>>
      BY <1>7, <2>3, <2>4
    <3> QED BY <1>1, <1>5, <1>6, <2>2, <3>1, <3>2 DEF Listens
  <2>5. CASE Tail(w) # <<>>
    <3>1. queue' = queue /\ turn' # <<>>
      BY <1>2, <2>5
    <3> QED BY <1>1, <1>5, <1>6, <2>2, <2>3, <3>1 DEF Listens
  <2> QED BY <2>4, <2>5
<1> QED BY <1>8, <1>9

\* From its listener on until it reads, a run that is alone will hear its stages.
LEMMA ListenStep ==
  ASSUME IInv, [Next]_vars
  PROVE  ListenInv'
<1> USE DEF IInv
<1> SUFFICES ASSUME NEW c \in Active' \ shared', step'[c] \in {"join", "read"}
             PROVE  Listens(c)'
  BY DEF ListenInv
<1>0. c \in Runs
  BY TypeStep, PhaseAssumption DEF TypeInv, Active, Runs
<1>1. CASE SubmitRun
  <2>1. c = submitted'
    BY <1>1, SubmitStep DEF Active
  <2>2. step[c] = "load"
    BY <1>0, <1>1, <2>1, SubmitStep, PhaseAssumption DEF FreshInv, TypeInv
  <2> QED BY <1>1, <2>2, SubmitStep
<1>2. ASSUME NEW d \in Runs, Notebook(d) PROVE Listens(c)'
  <2>1. d = c /\ c \in Active \ shared
    BY <1>2, NotebookStep DEF AloneInv, clientVars
  <2>2. CASE AddSparkListener(c)
    BY <2>2, <1>0, ListensAfterAdding
  <2>3. CASE EndJoinStage(c)
    <3>1. step[c] = "join"
      BY <2>3 DEF EndJoinStage, Proceed
    <3> QED BY <1>0, <2>1, <2>3, <3>1, ListensAfterStage DEF ListenInv
  <2>4. CASE LoadBuildings(c) \/ ReadView(c) \/ SumUp(c) \/ RunFails(c)
    BY <1>0, <2>4 DEF LoadBuildings, ReadView, SumUp, RunFails, Proceed, TypeInv
  <2> QED BY <1>2, <2>1, <2>2, <2>3, <2>4 DEF Notebook
<1>3. CASE AbandonRun \/ HandEvent \/ UNCHANGED vars
  <2>1. submitted' = submitted /\ step' = step /\ shared' = shared
    BY <1>3 DEF AbandonRun, HandEvent, vars, clientVars, notebookVars
  <2>2. Listens(c)
    BY <2>1 DEF Active, Ended, ListenInv
  <2>3. CASE HandEvent
    BY <1>0, <2>2, <2>3, ListensAfterEvent
  <2>4. CASE AbandonRun \/ UNCHANGED vars
    <3>1. UNCHANGED <<listeners, joined, backlog, queue, turn, heard, view>>
      BY <2>4 DEF AbandonRun, vars, notebookVars, busVars
    <3> QED BY <2>2, <3>1 DEF Listens, Reaches
  <2> QED BY <1>3, <2>3, <2>4
<1> QED BY <1>1, <1>2, <1>3 DEF Next, Runs

\* What was read with an empty bus is what its own listener has heard.
LEMMA ReadStep ==
  ASSUME IInv, [Next]_vars
  PROVE  ReadInv'
<1> USE DEF IInv
<1>1. ASSUME NEW c \in Runs, ReadView(c) PROVE ReadInv'
  <2>1. /\ step[c] = "read" /\ c \in Active /\ payload' = [payload EXCEPT ![c] = view]
        /\ step' = [step EXCEPT ![c] = "sum"] /\ UNCHANGED <<submitted, shared, backlog>>
        /\ early' = IF queue = <<>> THEN early ELSE early \cup {c}
    BY <1>1, NotebookStep DEF Notebook, ReadView, Proceed, clientVars
  <2>2. ASSUME c \notin early' \cup shared
        PROVE  /\ view.by = c
               /\ Join(c) \subseteq view.stages
               /\ view.stages \subseteq Join(c) \cup backlog[c]
    <3>1. queue = <<>> /\ turn = <<>> /\ Len(queue) = 0
      BY <2>1, <2>2 DEF BusInv
    <3>2. Listens(c) /\ joined[c] = JoinStages
      BY <2>1, <2>2 DEF ListenInv, CountInv
    <3>3. \A i \in 1 .. JoinStages : <<c, i>> \in heard[c]
      BY <3>1, <3>2 DEF Listens
    <3>4. Join(c) \subseteq heard[c] /\ heard[c] # {}
      <4>1. 1 \in 1 .. JoinStages
        BY PhaseAssumption
      <4>2. heard[c] # {}
        BY <3>3, <4>1
      <4> QED BY <3>3, <4>2 DEF Join
    <3>5. view = [by |-> c, stages |-> heard[c]] /\ heard[c] \subseteq Join(c) \cup backlog[c]
      BY <3>1, <3>2, <3>4 DEF Listens
    <3> QED BY <3>4, <3>5
  <2>3. \A d \in Runs : d # c => payload'[d] = payload[d] /\ step'[d] = step[d]
    BY <2>1 DEF TypeInv
  <2>4. payload'[c] = view
    BY <1>1, <2>1 DEF TypeInv
  <2> QED BY <2>1, <2>2, <2>3, <2>4 DEF ReadInv
<1>2. ASSUME NEW c \in Runs, Notebook(c), ~ReadView(c) PROVE ReadInv'
  <2>1. /\ payload' = payload /\ early' = early /\ UNCHANGED clientVars
        /\ \A d \in Runs : step'[d] \in {"sum", "exit"} =>
             step[d] \in {"sum", "exit"} /\ backlog'[d] = backlog[d]
    BY <1>2 DEF Notebook, LoadBuildings, AddSparkListener, EndJoinStage, SumUp, RunFails, Proceed,
       TypeInv
  <2> QED BY <2>1 DEF ReadInv, clientVars
<1>3. CASE SubmitRun
  <2>1. /\ UNCHANGED <<step, payload, early, backlog>> /\ shared \subseteq shared'
        /\ submitted' = submitted + 1
    BY <1>3, SubmitStep DEF SubmitRun, notebookVars
  <2>2. \A c \in Runs : c <= submitted' /\ step[c] \in {"sum", "exit"} => c <= submitted
    BY <2>1 DEF FreshInv, TypeInv, Runs
  <2> QED BY <2>1, <2>2 DEF ReadInv
<1>4. CASE AbandonRun \/ HandEvent \/ UNCHANGED vars
  BY <1>4 DEF AbandonRun, HandEvent, vars, clientVars, notebookVars, ReadInv
<1> QED BY <1>1, <1>2, <1>3, <1>4 DEF Next, Runs

-----------------------------------------------------------------------------
\* A run hears its own stages, last of all listeners, in every reachable state.
LEMMA Inductive == Spec => []IInv
<1>1. IInv /\ [Next]_vars => IInv'
  BY TypeStep, FreshStep, BusStep, CountStep, AloneStep, ListenStep, ReadStep DEF IInv
<1> QED BY Initially, <1>1, PTL DEF Spec

\* What a notebook returns are the metrics of its own join, for any number of listeners
\* that earlier runs left behind, unless it read too early or was not alone.
THEOREM OwnMetrics == Spec => []MetricsAreOwn
<1>1. IInv => MetricsAreOwn
  <2> SUFFICES ASSUME IInv, NEW c \in Recorded \ (early \cup shared)
               PROVE  /\ payload[c].by = c
                      /\ Join(c) \subseteq payload[c].stages
                      /\ payload[c].stages \subseteq Join(c) \cup backlog[c]
    BY DEF MetricsAreOwn
  <2>1. c \in Runs /\ c <= submitted /\ step[c] = "exit"
    BY PhaseAssumption DEF Recorded, IInv, TypeInv, Runs
  <2> QED BY <2>1 DEF IInv, ReadInv
<1> QED BY Inductive, <1>1, PTL

=============================================================================
