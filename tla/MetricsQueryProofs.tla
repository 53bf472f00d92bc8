------------------------- MODULE MetricsQueryProofs -------------------------
(***************************************************************************)
(* A usage is summed over the whole window, for every length of the        *)
(* window, granularity and delay with DelayAssumption, and however many    *)
(* requests fail.  The inductive invariant IInv says that the service is   *)
(* never late, that no request comes before the wait for ingestion is      *)
(* over, and that a reply therefore holds every bucket.                    *)
(*                                                                         *)
(* For the bytes that rows are priced by, sums over sets are needed: that  *)
(* a sum grows with its set, and that the sum of a union is that of its    *)
(* parts.  MapThenSumSet is a recursive function on the subsets of a set;  *)
(* it is constructed by adding one element at a time, and the elements may *)
(* be taken in any order.  RowInv then says what each row is a sum of.     *)
(***************************************************************************)
EXTENDS MetricsQuery, FiniteSetTheorems, TLAPS

Asking == {"request", "backoff"}

Types ==
  /\ now \in Nat /\ start \in Nat /\ end \in Nat
  /\ published \subseteq Window
  /\ at \in {"begin", "sleep", "request", "backoff", "save", "done", "raised"}

\* What is overdue has been published.
ServiceIsOnTime == \A b \in Window : EndOf(b) + ServiceDelay <= now => b \in published

\* The wait for ingestion lasts until Ready.
WaitIsOver ==
  /\ at = "sleep" => wake = Ready
  /\ at \in Asking => now >= Ready

\* What is about to be saved has been asked for.
ReplyIsWhole ==
  at = "save" /\ Present \in Queried /\ Exists(Present) => usage = Window

IInv == Types /\ ServiceIsOnTime /\ WaitIsOver /\ ReplyIsWhole /\ UsageCoversWindow

-----------------------------------------------------------------------------
\* Buckets are sets of whole ticks.
LEMMA BucketEnds == \A b \in Buckets : EndOf(b) \in Int /\ b \in Nat
<1>1. \A b \in Buckets : b \in Int /\ b >= 1
  BY DEF Buckets
<1>2. \A b \in Nat : b * BucketLength \in Int
  BY MetricsAssumption
<1> QED BY <1>1, <1>2 DEF EndOf

\* Once the delay has passed, a service that is on time has published every bucket of
\* the window, the one the window ended in included.
LEMMA AllPublished ==
  ASSUME Types, ServiceIsOnTime, now >= Ready
  PROVE  published = Window
<1>1. SUFFICES ASSUME NEW b \in Window PROVE EndOf(b) + ServiceDelay <= now
  BY DEF Types, ServiceIsOnTime
<1>2. EndOf(b) \in Int /\ EndOf(b) - BucketLength < end
  BY BucketEnds DEF Window
<1>3. EndOf(b) + ServiceDelay < end + BucketLength + ServiceDelay
  BY <1>2, MetricsAssumption DEF Types
<1> QED BY <1>2, <1>3, MetricsAssumption, DelayAssumption DEF Types, Ready

\* What the steps of the process and of the service have in common: the window is
\* what it was.
LEMMA SameWindow ==
  ASSUME UNCHANGED inputs
  PROVE  /\ Window' = Window /\ Ready' = Ready /\ start' = start /\ end' = end
         /\ \A c : Exists(c)' = Exists(c)
BY DEF inputs, Window, Ready, Exists, GroupName, QueriedName

\* The service starts on time, and nothing has been asked yet.
LEMMA Initially == Init => IInv
<1> SUFFICES ASSUME Init PROVE IInv
  OBVIOUS
<1>1. Types
  BY MetricsAssumption DEF Init, Types
<1> QED BY <1>1 DEF Init, IInv, ServiceIsOnTime, WaitIsOver, ReplyIsWhole,
                    UsageCoversWindow, Asking

-----------------------------------------------------------------------------
\* Every step keeps the invariant.
LEMMA Inductive == IInv /\ [Next]_vars => IInv'
<1> SUFFICES ASSUME IInv, [Next]_vars PROVE IInv'
  OBVIOUS
<1>1. CASE BeginComponent
  <2>1. UNCHANGED <<now, inputs, published, error, costs>>
    BY <1>1 DEF BeginComponent
  <2>2. Types'
    BY <1>1, <2>1, SameWindow DEF BeginComponent, IInv, Types
  <2>3. ServiceIsOnTime'
    BY <2>1, SameWindow DEF IInv, ServiceIsOnTime
  <2>4. WaitIsOver'
    <3>1. now \in Nat /\ Ready \in Int
      BY MetricsAssumption DEF IInv, Types, Ready
    <3> QED BY <1>1, <2>1, <3>1, SameWindow DEF BeginComponent, IInv, WaitIsOver, Asking
  <2>5. ReplyIsWhole'
    <3>1. Present' = Present
      BY <2>1 DEF Present, Due, inputs
    <3> QED BY <1>1, <3>1 DEF BeginComponent, ReplyIsWhole
  <2>6. UsageCoversWindow'
    BY <2>1, SameWindow DEF IInv, UsageCoversWindow
  <2> QED BY <2>2, <2>3, <2>4, <2>5, <2>6 DEF IInv
<1>2. CASE WakeUp
  <2>1. UNCHANGED <<now, inputs, published, wake, usage, costs>> /\ at' = "request"
        /\ at \in {"sleep", "backoff"} /\ now >= wake
    BY <1>2 DEF WakeUp
  <2>2. Types' /\ ServiceIsOnTime' /\ UsageCoversWindow' /\ ReplyIsWhole'
    BY <2>1, SameWindow DEF IInv, Types, ServiceIsOnTime, UsageCoversWindow, ReplyIsWhole
  <2>3. WaitIsOver'
    BY <2>1, SameWindow DEF IInv, WaitIsOver, Asking
  <2> QED BY <2>2, <2>3 DEF IInv
<1>3. CASE RequestSucceeds
  <2>1. UNCHANGED <<now, inputs, published, wake, costs>> /\ at = "request" /\ at' = "save"
        /\ usage' = IF Exists(Present) THEN published ELSE {}
    BY <1>3 DEF RequestSucceeds
  <2>2. Types' /\ ServiceIsOnTime' /\ UsageCoversWindow' /\ WaitIsOver'
    BY <2>1, SameWindow
    DEF IInv, Types, ServiceIsOnTime, UsageCoversWindow, WaitIsOver, Asking
  <2>3. published = Window
    BY <2>1, AllPublished DEF IInv, WaitIsOver, Asking
  <2>4. Present' = Present
    BY <2>1 DEF Present, Due, inputs
  <2>5. ReplyIsWhole'
    BY <2>1, <2>3, <2>4, SameWindow DEF ReplyIsWhole
  <2> QED BY <2>2, <2>5 DEF IInv
<1>4. CASE RequestFails
  <2>1. UNCHANGED <<now, inputs, published, usage, costs>> /\ at = "request"
        /\ at' \in {"backoff", "raised"}
    BY <1>4 DEF RequestFails
  <2>2. Types' /\ ServiceIsOnTime' /\ UsageCoversWindow' /\ ReplyIsWhole' /\ WaitIsOver'
    BY <2>1, SameWindow
    DEF IInv, Types, ServiceIsOnTime, UsageCoversWindow, ReplyIsWhole, WaitIsOver, Asking
  <2> QED BY <2>2 DEF IInv
<1>5. CASE SaveCost
  <2>1. UNCHANGED <<now, inputs, published, wake, usage>> /\ at = "save"
        /\ at' \in {"done", "begin", "raised"}
    BY <1>5 DEF SaveCost
  <2>2. Types' /\ ServiceIsOnTime' /\ ReplyIsWhole' /\ WaitIsOver'
    BY <2>1, SameWindow
    DEF IInv, Types, ServiceIsOnTime, ReplyIsWhole, WaitIsOver, Asking
  <2>3. UsageCoversWindow'
    <3>1. \A row \in costs' \ costs : row.component = Present /\ row.buckets = usage
      BY <1>5 DEF SaveCost
    <3>2. \A row \in costs' : row.component \in Queried /\ Exists(row.component)
                                => row.buckets = Window
      BY <2>1, <3>1 DEF IInv, UsageCoversWindow, ReplyIsWhole
    <3> QED BY <2>1, <3>2, SameWindow DEF UsageCoversWindow
  <2> QED BY <2>2, <2>3 DEF IInv
<1>6. CASE Tick
  <2>1. UNCHANGED <<inputs, at, wake, attempt, error, usage, costs>> /\ now' = now + 1
        /\ published' = published \cup {b \in Window : EndOf(b) + ServiceDelay <= now'}
    BY <1>6 DEF Tick
  <2>2. Types' /\ ServiceIsOnTime' /\ UsageCoversWindow'
    BY <2>1, SameWindow DEF IInv, Types, ServiceIsOnTime, UsageCoversWindow
  <2>3. WaitIsOver'
    <3>1. now \in Nat /\ Ready \in Int
      BY MetricsAssumption DEF IInv, Types, Ready
    <3> QED BY <2>1, <3>1, SameWindow DEF IInv, WaitIsOver
  <2>4. ReplyIsWhole'
    <3>1. Present' = Present
      BY <2>1 DEF Present, Due, inputs
    <3> QED BY <2>1, <3>1, SameWindow DEF IInv, ReplyIsWhole
  <2> QED BY <2>2, <2>3, <2>4 DEF IInv
<1>7. CASE Publish
  <2>1. UNCHANGED <<now, inputs, at, wake, attempt, error, usage, costs>>
        /\ \E b \in Window \ published : published' = published \cup {b}
    BY <1>7 DEF Publish
  <2>2. Types' /\ ServiceIsOnTime' /\ UsageCoversWindow' /\ WaitIsOver'
    BY <2>1, SameWindow DEF IInv, Types, ServiceIsOnTime, UsageCoversWindow, WaitIsOver
  <2>3. ReplyIsWhole'
    <3>1. Present' = Present
      BY <2>1 DEF Present, Due, inputs
    <3> QED BY <2>1, <3>1, SameWindow DEF IInv, ReplyIsWhole
  <2> QED BY <2>2, <2>3 DEF IInv
<1>8. CASE UNCHANGED vars
  <2>1. UNCHANGED <<now, inputs, published, at, wake, usage, costs>>
    BY <1>8 DEF vars
  <2>2. Present' = Present
    BY <2>1 DEF Present, Due, inputs
  <2> QED BY <2>1, <2>2, SameWindow
       DEF IInv, Types, ServiceIsOnTime, UsageCoversWindow, ReplyIsWhole, WaitIsOver
<1> QED BY <1>1, <1>2, <1>3, <1>4, <1>5, <1>6, <1>7, <1>8 DEF Next

\* A usage is summed over the whole window, also over the bucket the window ended in
\* and after any number of failed requests, where the group has the name the query
\* asks for (get_aci_usage, get_database_usage).
THEOREM UsageIsWhole == Spec => []UsageCoversWindow
<1>1. IInv => UsageCoversWindow
  BY DEF IInv
<1> QED BY Initially, Inductive, <1>1, PTL DEF Spec

-----------------------------------------------------------------------------
\* Induction on the subsets of a finite set, for a property given as a set.
LEMMA SubsetInduction ==
  ASSUME NEW S, IsFiniteSet(S), NEW Good,
         \A T \in SUBSET S : (\A U \in SUBSET T : U # T => U \in Good) => T \in Good
  PROVE  \A T \in SUBSET S : T \in Good
<1>1. SUFFICES ASSUME NEW T0 \in SUBSET S, T0 \notin Good PROVE FALSE
  OBVIOUS
<1> DEFINE Bad == {T \in SUBSET S : T \notin Good}
<1>2. Bad \subseteq FiniteSubsetsOf(S) /\ Bad # {}
  BY <1>1, FS_Subset DEF FiniteSubsetsOf
<1>3. PICK T \in Bad : \A U \in Bad : ~(<<U, T>> \in StrictSubsetOrdering(S))
  <2> HIDE DEF Bad
  <2> QED BY <1>2, WFMin, FS_StrictSubsetOrderingWellFounded
<1>4. \A U \in SUBSET T : U # T => U \in Good
  BY <1>3 DEF StrictSubsetOrdering
<1> QED BY <1>3, <1>4

\* One step of the sum of f over s, as MapThenSumSet takes it.
Pick(s) == CHOOSE x \in s : TRUE
SumStep(f, g, s) == IF s = {} THEN 0 ELSE f[Pick(s)] + g[s \ {Pick(s)}]

\* g sums f over the subsets of S that have less than n elements.
SumsBelow(f, g, S, n) ==
  /\ g \in [SUBSET S -> Nat]
  /\ \A s \in SUBSET S : Cardinality(s) < n => g[s] = SumStep(f, g, s)

\* What is left of a set without the element that is picked.
LEMMA Removal ==
  ASSUME NEW S, IsFiniteSet(S), NEW s \in SUBSET S, s # {}
  PROVE  /\ Pick(s) \in s /\ s \ {Pick(s)} \in SUBSET S
         /\ Cardinality(s) \in Nat /\ Cardinality(s \ {Pick(s)}) \in Nat
         /\ Cardinality(s \ {Pick(s)}) = Cardinality(s) - 1
<1>1. Pick(s) \in s
  BY DEF Pick
<1>2. IsFiniteSet(s)
  BY FS_Subset
<1> QED BY <1>1, <1>2, FS_RemoveElement, FS_CardinalityType

\* Sums over less than n elements give those over n.
LEMMA SumsFurther ==
  ASSUME NEW S, IsFiniteSet(S), NEW f \in [S -> Nat], NEW n \in Nat,
         \E g : SumsBelow(f, g, S, n)
  PROVE  \E g : SumsBelow(f, g, S, n + 1)
<1>1. PICK g : SumsBelow(f, g, S, n)
  OBVIOUS
<1> DEFINE h == [s \in SUBSET S |-> IF Cardinality(s) = n THEN SumStep(f, g, s) ELSE g[s]]
<1>2. ASSUME NEW s \in SUBSET S
      PROVE  SumStep(f, g, s) \in Nat
  <2>1. CASE s = {}
    BY <2>1 DEF SumStep
  <2>2. CASE s # {}
    <3>1. Pick(s) \in S /\ s \ {Pick(s)} \in SUBSET S
      BY <2>2, Removal
    <3>2. f[Pick(s)] \in Nat /\ g[s \ {Pick(s)}] \in Nat
      BY <1>1, <3>1 DEF SumsBelow
    <3> QED BY <2>2, <3>2 DEF SumStep
  <2> QED BY <2>1, <2>2
<1>3. h \in [SUBSET S -> Nat]
  BY <1>1, <1>2 DEF SumsBelow
<1>4. ASSUME NEW s \in SUBSET S, Cardinality(s) < n + 1
      PROVE  h[s] = SumStep(f, h, s)
  <2>1. Cardinality(s) \in Nat
    BY FS_Subset, FS_CardinalityType
  <2>2. h[s] = SumStep(f, g, s)
    BY <1>1, <1>4, <2>1 DEF SumsBelow
  <2>3. CASE s = {}
    BY <2>2, <2>3 DEF SumStep
  <2>4. CASE s # {}
    <3>1. s \ {Pick(s)} \in SUBSET S /\ Cardinality(s \ {Pick(s)}) # n
      BY <1>4, <2>1, <2>4, Removal
    <3>2. h[s \ {Pick(s)}] = g[s \ {Pick(s)}]
      BY <3>1
    <3> HIDE DEF h
    <3> QED BY <2>2, <2>4, <3>2 DEF SumStep
  <2> QED BY <2>3, <2>4
<1> HIDE DEF h
<1> QED BY <1>3, <1>4 DEF SumsBelow

\* Adding elements one by one reaches the whole set.
LEMMA SumsUpTo ==
  ASSUME NEW S, IsFiniteSet(S), NEW f \in [S -> Nat]
  PROVE  \E g : SumsBelow(f, g, S, Cardinality(S) + 1)
<1> DEFINE Good == {T \in SUBSET S : \E g : SumsBelow(f, g, S, Cardinality(T) + 1)}
<1>1. \E g : SumsBelow(f, g, S, 0)
  <2>1. SumsBelow(f, [s \in SUBSET S |-> 0], S, 0)
    BY FS_Subset, FS_CardinalityType DEF SumsBelow
  <2> QED BY <2>1
<1>2. ASSUME NEW T \in SUBSET S, \A U \in SUBSET T : U # T => U \in Good
      PROVE  \E g : SumsBelow(f, g, S, Cardinality(T) + 1)
  <2>1. CASE T = {}
    BY <1>1, <2>1, SumsFurther, FS_EmptySet
  <2>2. CASE T # {}
    <3>1. T \ {Pick(T)} \in Good
      BY <1>2, <2>2, Removal
    <3>2. \E g : SumsBelow(f, g, S, Cardinality(T))
      BY <2>2, <3>1, Removal
    <3> QED BY <2>2, <3>2, SumsFurther, Removal
  <2> QED BY <2>1, <2>2
<1>3. S \in Good
  <2> HIDE DEF Good
  <2>1. \A T \in SUBSET S : (\A U \in SUBSET T : U # T => U \in Good) => T \in Good
    BY <1>2 DEF Good
  <2> QED BY <2>1, SubsetInduction
<1> QED BY <1>3

\* g sums f over every subset of S.
Unrolls(f, g, S) == \A s \in SUBSET S : g[s] = SumStep(f, g, s)

SumsOf(f, g, S) == g \in [SUBSET S -> Nat] /\ Unrolls(f, g, S)

\* A finite set of numbers has a sum.
LEMMA SumsExist ==
  ASSUME NEW S, IsFiniteSet(S), NEW f \in [S -> Nat]
  PROVE  \E g : SumsOf(f, g, S)
<1>1. PICK g : SumsBelow(f, g, S, Cardinality(S) + 1)
  BY SumsUpTo
<1>2. \A s \in SUBSET S : Cardinality(s) < Cardinality(S) + 1
  BY FS_Subset, FS_CardinalityType
<1> QED BY <1>1, <1>2 DEF SumsBelow, SumsOf, Unrolls

\* Any element of a set may be the first to be added.
LEMMA AnyFirst ==
  ASSUME NEW S, IsFiniteSet(S), NEW f \in [S -> Nat], NEW g, SumsOf(f, g, S)
  PROVE  \A T \in SUBSET S : \A x \in T : g[T] = f[x] + g[T \ {x}]
<1> DEFINE Good == {T \in SUBSET S : \A x \in T : g[T] = f[x] + g[T \ {x}]}
<1>1. ASSUME NEW T \in SUBSET S, \A U \in SUBSET T : U # T => U \in Good, NEW x \in T
      PROVE  g[T] = f[x] + g[T \ {x}]
  <2> DEFINE c == Pick(T)
             Tx == T \ {x}
             Tc == T \ {c}
  <2>1. c \in T /\ g[T] = f[c] + g[Tc]
    BY DEF SumsOf, Unrolls, SumStep, Pick
  <2>2. ASSUME x = c PROVE g[T] = f[x] + g[Tx]
    BY <2>1, <2>2
  <2>3. ASSUME x # c PROVE g[T] = f[x] + g[Tx]
    <3>1. Tx \in Good /\ Tc \in Good /\ x \in Tc /\ c \in Tx
      BY <1>1, <2>1, <2>3
    <3>2. g[Tx] = f[c] + g[Tx \ {c}] /\ g[Tc] = f[x] + g[Tc \ {x}]
      BY <3>1
    <3>3. Tx \ {c} = Tc \ {x} /\ Tx \ {c} \in SUBSET S
      OBVIOUS
    <3>4. g[Tx \ {c}] = g[Tc \ {x}]
      BY <3>3
    <3>5. g[Tx \ {c}] \in Nat /\ f[c] \in Nat /\ f[x] \in Nat
      BY <2>1, <3>3 DEF SumsOf
    <3> HIDE DEF c, Tx, Tc
    <3> QED BY <2>1, <3>2, <3>4, <3>5
  <2>4. g[T] = f[x] + g[Tx]
    BY <2>2, <2>3
  <2> QED BY <2>4
<1>2. \A T \in SUBSET S : (\A U \in SUBSET T : U # T => U \in Good) => T \in Good
  BY <1>1
<1>3. \A T \in SUBSET S : T \in Good
  <2> HIDE DEF Good
  <2> QED BY <1>2, SubsetInduction
<1> QED BY <1>3

\* A sum of numbers is no smaller than the sum of some of them.
LEMMA SumsGrow ==
  ASSUME NEW S, IsFiniteSet(S), NEW f \in [S -> Nat], NEW g, SumsOf(f, g, S),
         NEW A \in SUBSET S
  PROVE  \A T \in SUBSET S : A \subseteq T => g[A] <= g[T]
<1> DEFINE Good == {T \in SUBSET S : A \subseteq T => g[A] <= g[T]}
<1>1. ASSUME NEW T \in SUBSET S, \A U \in SUBSET T : U # T => U \in Good, A \subseteq T
      PROVE  g[A] <= g[T]
  <2>1. g[A] \in Nat /\ g[T] \in Nat
    BY DEF SumsOf
  <2>2. CASE A = T
    BY <2>1, <2>2
  <2>3. CASE A # T
    <3>1. PICK x \in T : x \notin A
      BY <1>1, <2>3
    <3>2. T \ {x} \in Good /\ A \subseteq T \ {x}
      BY <1>1, <3>1
    <3>3. g[A] <= g[T \ {x}]
      BY <3>2
    <3>4. g[T] = f[x] + g[T \ {x}]
      BY AnyFirst
    <3>5. g[T \ {x}] \in Nat /\ f[x] \in Nat
      BY DEF SumsOf
    <3> QED BY <2>1, <3>3, <3>4, <3>5
  <2> QED BY <2>2, <2>3
<1>2. \A T \in SUBSET S : (\A U \in SUBSET T : U # T => U \in Good) => T \in Good
  BY <1>1
<1>3. \A T \in SUBSET S : T \in Good
  <2> HIDE DEF Good
  <2> QED BY <1>2, SubsetInduction
<1> QED BY <1>3

\* The sum of two sets that have nothing in common is that of their union.
LEMMA SumsOfUnion ==
  ASSUME NEW S, IsFiniteSet(S), NEW f \in [S -> Nat], NEW g, SumsOf(f, g, S),
         NEW A \in SUBSET S
  PROVE  \A T \in SUBSET S : A \cap T = {} => g[A \cup T] = g[A] + g[T]
<1> DEFINE Good == {T \in SUBSET S : A \cap T = {} => g[A \cup T] = g[A] + g[T]}
<1>1. ASSUME NEW T \in SUBSET S, \A U \in SUBSET T : U # T => U \in Good, A \cap T = {}
      PROVE  g[A \cup T] = g[A] + g[T]
  <2>1. g[A] \in Nat /\ g[T] \in Nat
    BY DEF SumsOf
  <2>2. CASE T = {}
    <3>1. g[T] = 0 /\ A \cup T = A
      BY <2>2 DEF SumsOf, Unrolls, SumStep
    <3> QED BY <2>1, <3>1
  <2>3. CASE T # {}
    <3>1. PICK x \in T : TRUE
      BY <2>3
    <3>2. T \ {x} \in Good /\ A \cap (T \ {x}) = {}
      BY <1>1
    <3>3. g[A \cup (T \ {x})] = g[A] + g[T \ {x}]
      BY <3>2
    <3>4. (A \cup T) \ {x} = A \cup (T \ {x}) /\ A \cup T \in SUBSET S /\ x \in A \cup T
      BY <1>1, <3>1
    <3>5. g[A \cup T] = f[x] + g[A \cup (T \ {x})] /\ g[T] = f[x] + g[T \ {x}]
      BY <3>4, AnyFirst
    <3>6. g[T \ {x}] \in Nat /\ f[x] \in Nat
      BY DEF SumsOf
    <3> QED BY <2>1, <3>3, <3>5, <3>6
  <2> QED BY <2>2, <2>3
<1>2. \A T \in SUBSET S : (\A U \in SUBSET T : U # T => U \in Good) => T \in Good
  BY <1>1
<1>3. \A T \in SUBSET S : T \in Good
  <2> HIDE DEF Good
  <2> QED BY <1>2, SubsetInduction
<1> QED BY <1>3

\* The sum over a set does not depend on what it is a subset of.
LEMMA SumsAgree ==
  ASSUME NEW S, IsFiniteSet(S), NEW A \in SUBSET S, NEW f, NEW g, NEW h,
         SumsOf(f, g, S), Unrolls(f, h, A)
  PROVE  h[A] = g[A]
<1> DEFINE Good == {T \in SUBSET A : h[T] = g[T]}
<1>1. ASSUME NEW T \in SUBSET A, \A U \in SUBSET T : U # T => U \in Good
      PROVE  h[T] = g[T]
  <2>1. h[T] = SumStep(f, h, T) /\ g[T] = SumStep(f, g, T)
    BY DEF SumsOf, Unrolls
  <2>2. CASE T = {}
    BY <2>1, <2>2 DEF SumStep
  <2>3. CASE T # {}
    <3>1. T \ {Pick(T)} \in Good
      BY <1>1, <2>3 DEF Pick
    <3>2. h[T \ {Pick(T)}] = g[T \ {Pick(T)}]
      BY <3>1
    <3> QED BY <2>1, <2>3, <3>2 DEF SumStep
  <2> QED BY <2>2, <2>3
<1>2. \A T \in SUBSET A : (\A U \in SUBSET T : U # T => U \in Good) => T \in Good
  BY <1>1
<1>3. IsFiniteSet(A)
  BY FS_Subset
<1>4. \A T \in SUBSET A : T \in Good
  <2> HIDE DEF Good
  <2> QED BY <1>2, <1>3, SubsetInduction
<1> QED BY <1>4

-----------------------------------------------------------------------------
\* What is left over of a division is less than the divisor.
LEMMA Quotient ==
  ASSUME NEW a \in Nat, NEW b \in Nat \ {0}
  PROVE  /\ a \div b \in Nat
         /\ b * (a \div b) <= a /\ a < b * (a \div b) + b
<1>1. a \div b \in Nat
  OBVIOUS
<1>2. a % b \in 0 .. (b - 1)
  OBVIOUS
<1>3. a = b * (a \div b) + (a % b)
  OBVIOUS
<1>4. b * (a \div b) \in Int
  BY <1>1
<1> QED BY <1>1, <1>2, <1>3, <1>4

\* The number of the last bucket.
Last == (MaxEnd + BucketLength - 1) \div BucketLength

\* Integer division rounds up: the last bucket reaches over the longest window.
LEMMA LastBucket == Last \in Nat /\ Last >= 1 /\ Last * BucketLength >= MaxEnd
<1> DEFINE m == MaxEnd + BucketLength - 1
<1>1. m \in Nat /\ BucketLength \in Nat /\ BucketLength > 0 /\ m >= BucketLength
  BY MetricsAssumption
<1>2. Last \in Int /\ BucketLength * Last <= m /\ m < BucketLength * Last + BucketLength
  <2>1. Last = m \div BucketLength
    BY DEF Last
  <2> HIDE DEF m
  <2> QED BY <1>1, <2>1, Quotient
<1>3. ASSUME NEW q \in Int, NEW b \in Nat \ {0}, NEW a \in Nat, a >= b, a < b * q + b
      PROVE  q >= 1
  <2>1. q <= 0 => b * q <= 0
    OBVIOUS
  <2>2. b * q \in Int
    OBVIOUS
  <2> QED BY <1>3, <2>1, <2>2
<1>4. Last >= 1
  BY <1>1, <1>2, <1>3
<1>5. BucketLength * Last = Last * BucketLength
  BY <1>1, <1>2
<1> QED BY <1>2, <1>4, <1>5, MetricsAssumption

\* A bucket is its number times its length.
LEMMA EndsGrow ==
  ASSUME NEW b \in Int, NEW c \in Int
  PROVE  /\ EndOf(b) \in Int
         /\ EndOf(b + 1) = EndOf(b) + BucketLength
         /\ b <= c => EndOf(b) <= EndOf(c)
         /\ EndOf(b) < EndOf(c) => b < c
<1>1. BucketLength \in Nat /\ BucketLength > 0
  BY MetricsAssumption
<1>2. ASSUME NEW n \in Nat, n > 0
      PROVE  /\ b * n \in Int /\ c * n \in Int
             /\ (b + 1) * n = b * n + n
             /\ b <= c => b * n <= c * n
  <2>1. b * n \in Int /\ c * n \in Int /\ (b + 1) * n = b * n + n
    OBVIOUS
  <2>2. ASSUME b <= c PROVE b * n <= c * n
    <3>1. PICK d \in Nat : c = b + d
      BY <2>2
    <3>2. c * n = b * n + d * n /\ d * n \in Nat
      BY <3>1
    <3> QED BY <2>1, <3>2
  <2> QED BY <2>1, <2>2
<1>3. ASSUME NEW n \in Nat, n > 0, b * n < c * n
      PROVE  b < c
  <2>1. ASSUME c <= b PROVE c * n <= b * n
    <3>1. PICK d \in Nat : b = c + d
      BY <2>1
    <3>2. b * n = c * n + d * n /\ d * n \in Nat
      BY <3>1
    <3>3. c * n \in Int
      OBVIOUS
    <3> QED BY <3>2, <3>3
  <2>2. b * n \in Int /\ c * n \in Int
    OBVIOUS
  <2> QED BY <1>3, <2>1, <2>2
<1> QED BY <1>1, <1>2, <1>3 DEF EndOf

\* The ticks are those up to the end of the last bucket.
LEMMA TicksAre ==
  /\ EndOf(Last) \in Nat /\ MaxEnd <= EndOf(Last)
  /\ Ticks = 1 .. EndOf(Last) /\ IsFiniteSet(Ticks)
<1> DEFINE Ends == {EndOf(b) : b \in Buckets}
<1>1. Buckets = 1 .. Last /\ Last \in Buckets
  BY LastBucket DEF Buckets, Last
<1>2. EndOf(Last) \in Int /\ MaxEnd <= EndOf(Last)
  BY LastBucket, EndsGrow DEF EndOf
<1>3. EndOf(Last) \in Ends /\ \A x \in Ends : x \in Int /\ EndOf(Last) >= x
  BY <1>1, LastBucket, EndsGrow
<1>4. Max(Ends) = EndOf(Last)
  <2> HIDE DEF Ends
  <2> QED BY <1>2, <1>3 DEF Max
<1> QED BY <1>2, <1>4, FS_Interval, MetricsAssumption DEF Ticks

\* Every tick of the window is in one of its buckets.
LEMMA BucketOfTick ==
  ASSUME start \in Nat, end \in 1 .. MaxEnd, NEW t \in (start + 1) .. end
  PROVE  \E b \in Window : t \in TicksOf(b)
<1> DEFINE q == (t - 1) \div BucketLength
<1>1. /\ BucketLength \in Nat \ {0} /\ t - 1 \in Nat /\ end \in Nat /\ MaxEnd \in Nat
      /\ t >= start + 1 /\ t <= end /\ start \in Nat
  BY MetricsAssumption
<1>2. q \in Nat /\ BucketLength * q <= t - 1 /\ t - 1 < BucketLength * q + BucketLength
  BY <1>1, Quotient
<1> HIDE DEF q
<1>3. EndOf(q) = BucketLength * q /\ EndOf(q) \in Int /\ EndOf(q + 1) = EndOf(q) + BucketLength
  BY <1>1, <1>2, EndsGrow DEF EndOf
<1>4. EndOf(q) < EndOf(Last)
  BY <1>1, <1>2, <1>3, TicksAre
<1>5. q < Last
  BY <1>2, <1>4, EndsGrow, LastBucket
<1>6. q + 1 \in Window
  <2>1. q + 1 \in 1 .. Last
    BY <1>2, <1>5, LastBucket
  <2>2. q + 1 \in Buckets
    BY <2>1 DEF Buckets, Last
  <2> QED BY <1>1, <1>2, <1>3, <2>2 DEF Window
<1>7. t \in TicksOf(q + 1)
  BY <1>1, <1>2, <1>3 DEF TicksOf
<1> QED BY <1>6, <1>7

\* The buckets of the window reach over its ends by less than a bucket.
LEMMA TicksOfWindow ==
  ASSUME start \in Nat, end \in 1 .. MaxEnd, NEW b \in Window
  PROVE  TicksOf(b) \subseteq Around
<1>1. end \in Nat /\ MaxEnd \in Nat /\ BucketLength \in Nat \ {0}
  BY MetricsAssumption
<1>2. b \in Int /\ b >= 1 /\ b <= Last /\ Last \in Int
  BY LastBucket DEF Window, Buckets, Last
<1>3. EndOf(b) \in Int /\ start < EndOf(b) /\ EndOf(b) - BucketLength < end
  BY <1>2, EndsGrow DEF Window
<1>4. EndOf(b) <= EndOf(Last)
  BY <1>2, EndsGrow
<1>5. EndOf(b) - BucketLength >= 0
  <2>1. EndOf(1) = BucketLength
    BY <1>1 DEF EndOf
  <2>2. EndOf(1) <= EndOf(b)
    BY <1>2, EndsGrow
  <2> QED BY <1>1, <1>3, <2>1, <2>2
<1>6. ASSUME NEW t \in TicksOf(b)
      PROVE  t \in Around
  <2>1. t \in Int /\ EndOf(b) - BucketLength + 1 <= t /\ t <= EndOf(b)
    BY <1>1, <1>3 DEF TicksOf
  <2>2. t \in Ticks
    BY <1>1, <1>3, <1>4, <1>5, <2>1, TicksAre
  <2>3. start - BucketLength + 1 < t /\ t < end + BucketLength
    BY <1>1, <1>3, <2>1
  <2> QED BY <2>2, <2>3 DEF Around
<1> QED BY <1>6

\* Bytes are added up in any order: a sum over ticks is a number, no smaller than the
\* one over some of them, and that of its parts.
LEMMA SumsOfTicks ==
  ASSUME NEW c, traffic[c] \in [Ticks -> Nat]
  PROVE  /\ \A A \in SUBSET Ticks : SentIn(c, A) \in Nat
         /\ \A A, B \in SUBSET Ticks : A \subseteq B => SentIn(c, A) <= SentIn(c, B)
         /\ \A A, B \in SUBSET Ticks :
              A \cap B = {} => SentIn(c, A \cup B) = SentIn(c, A) + SentIn(c, B)
<1>1. PICK g : SumsOf(traffic[c], g, Ticks)
  BY TicksAre, SumsExist
<1>2. ASSUME NEW A \in SUBSET Ticks PROVE SentIn(c, A) = g[A]
  <2>1. PICK h : /\ SentIn(c, A) = h[A]
                 /\ h = CHOOSE k : k = [s \in SUBSET A |-> SumStep(traffic[c], k, s)]
    BY DEF SentIn, MapThenSumSet, MapThenFoldSet, SumStep, Pick
  <2>2. \E k : k = [s \in SUBSET A |-> SumStep(traffic[c], k, s)]
    <3> DEFINE k == [s \in SUBSET A |-> g[s]]
    <3>1. ASSUME NEW s \in SUBSET A PROVE g[s] = SumStep(traffic[c], k, s)
      <4>1. g[s] = SumStep(traffic[c], g, s)
        BY <1>1 DEF SumsOf, Unrolls
      <4>2. s # {} => k[s \ {Pick(s)}] = g[s \ {Pick(s)}]
        OBVIOUS
      <4> HIDE DEF k
      <4> QED BY <4>1, <4>2 DEF SumStep
    <3>2. k = [s \in SUBSET A |-> SumStep(traffic[c], k, s)]
      BY <3>1
    <3> HIDE DEF k
    <3> QED BY <3>2
  <2>3. h = [s \in SUBSET A |-> SumStep(traffic[c], h, s)]
    BY <2>1, <2>2
  <2>4. Unrolls(traffic[c], h, A)
    BY <2>3 DEF Unrolls
  <2>5. h[A] = g[A]
    <3> DEFINE f == traffic[c]
    <3>1. SumsOf(f, g, Ticks) /\ Unrolls(f, h, A) /\ IsFiniteSet(Ticks)
      BY <1>1, <2>4, TicksAre
    <3> HIDE DEF f
    <3> QED BY <3>1, SumsAgree
  <2> QED BY <2>1, <2>5
<1>3. \A A \in SUBSET Ticks : g[A] \in Nat
  BY <1>1 DEF SumsOf
<1>4. \A A, B \in SUBSET Ticks : A \subseteq B => g[A] <= g[B]
  BY <1>1, TicksAre, SumsGrow
<1>5. ASSUME NEW A \in SUBSET Ticks, NEW B \in SUBSET Ticks, A \cap B = {}
      PROVE  g[A \cup B] = g[A] + g[B]
  <2> DEFINE f == traffic[c]
  <2>1. f \in [Ticks -> Nat] /\ SumsOf(f, g, Ticks) /\ IsFiniteSet(Ticks)
    BY <1>1, TicksAre
  <2> HIDE DEF f
  <2>2. \A T \in SUBSET Ticks : A \cap T = {} => g[A \cup T] = g[A] + g[T]
    BY <2>1, SumsOfUnion
  <2> QED BY <1>5, <2>2
<1> QED BY <1>2, <1>3, <1>4, <1>5

-----------------------------------------------------------------------------
\* While there is a component left, the run goes on; it has not asked too often.
Underway ==
  /\ at \notin {"done", "raised"} => Due # {}
  /\ at \in {"sleep"} \cup Asking => attempt < MaxAttempts

\* A row is priced by the buckets of its query, or else by the counted bytes.
RowsArePriced ==
  \A row \in costs :
    /\ row.buckets \subseteq Window
    /\ row.egress = IF row.component \in Queried
                    THEN SumOfMetric(row.component, row.buckets) ELSE CountedEgress

Traffic == traffic \in [Queried \cap configuration -> [Ticks -> Bytes]]

RowInv == TypeOK /\ Traffic /\ Underway /\ RowsArePriced

\* The next component is one of those that are due.
LEMMA PresentIsDue == TypeOK /\ Due # {} => Present \in Due /\ Present \in configuration
<1> SUFFICES ASSUME TypeOK, Due # {} PROVE Present \in Due /\ Present \in configuration
  OBVIOUS
<1>1. Due \subseteq {"aci", "blob", "postgres", "databricks"} /\ Due \subseteq configuration
  BY MetricsAssumption DEF TypeOK, Due, Components, ComponentOrder
<1>2. /\ ComponentOrder["aci"] = 1 /\ ComponentOrder["blob"] = 2
      /\ ComponentOrder["postgres"] = 3 /\ ComponentOrder["databricks"] = 4
  BY DEF ComponentOrder
<1>3. \E c \in Due : \A b \in Due : ComponentOrder[c] <= ComponentOrder[b]
  <2>1. CASE "aci" \in Due
    <3>1. \A b \in Due : ComponentOrder["aci"] <= ComponentOrder[b]
      BY <1>1, <1>2
    <3> QED BY <2>1, <3>1
  <2>2. CASE "aci" \notin Due /\ "blob" \in Due
    <3>1. \A b \in Due : ComponentOrder["blob"] <= ComponentOrder[b]
      BY <1>1, <1>2, <2>2
    <3> QED BY <2>2, <3>1
  <2>3. CASE "aci" \notin Due /\ "blob" \notin Due /\ "postgres" \in Due
    <3>1. \A b \in Due : ComponentOrder["postgres"] <= ComponentOrder[b]
      BY <1>1, <1>2, <2>3
    <3> QED BY <2>3, <3>1
  <2>4. CASE Due = {"databricks"}
    <3>1. \A b \in Due : ComponentOrder["databricks"] <= ComponentOrder[b]
      BY <1>2, <2>4
    <3> QED BY <2>4, <3>1
  <2> QED BY <1>1, <2>1, <2>2, <2>3, <2>4
<1> QED BY <1>1, <1>3 DEF Present

\* The bytes of a component that is asked for, and those of the container group, are
\* numbers of bytes in every tick.
LEMMA TrafficOf ==
  ASSUME TypeOK, Traffic
  PROVE  /\ \A c \in Queried \cap configuration : traffic[c] \in [Ticks -> Nat]
         /\ "aci" \in Queried \cap configuration
BY MetricsAssumption DEF TypeOK, Traffic, Queried

\* A window begins and ends where the bounds allow; the timed calls take ticks of it.
LEMMA TimedTicks ==
  ASSUME TypeOK
  PROVE  /\ start \in Nat /\ end \in 1 .. MaxEnd /\ end \in Nat
         /\ timed \subseteq (start + 1) .. end /\ timed \in SUBSET Ticks
<1>1. /\ start \in Nat /\ end \in 1 .. MaxEnd /\ end \in Nat
      /\ timed \subseteq (start + 1) .. end
  BY MetricsAssumption DEF TypeOK
<1>2. (start + 1) .. end \subseteq Ticks
  BY <1>1, TicksAre, MetricsAssumption
<1> QED BY <1>1, <1>2

\* What a row is priced by is a number of bytes.
LEMMA EgressIsNat ==
  ASSUME TypeOK, Traffic, NEW c \in configuration
  PROVE  Egress(c) \in Nat
<1>1. start \in Nat /\ end \in 1 .. MaxEnd /\ usage \subseteq Window
      /\ timed \in SUBSET Ticks
  BY TimedTicks DEF TypeOK
<1>2. CASE c \in Queried
  <2>1. UNION {TicksOf(b) : b \in usage} \in SUBSET Ticks
    BY <1>1, TicksOfWindow DEF Around
  <2>2. traffic[c] \in [Ticks -> Nat]
    BY <1>2, TrafficOf
  <2>3. SentIn(c, UNION {TicksOf(b) : b \in usage}) \in Nat
    BY <2>1, <2>2, SumsOfTicks
  <2> QED BY <1>2, <2>3 DEF Egress, SumOfMetric
<1>3. CASE c \notin Queried
  <2>1. SentIn("aci", timed) \in Nat
    BY <1>1, TrafficOf, SumsOfTicks
  <2> QED BY <1>3, <2>1 DEF Egress, CountedEgress
<1> QED BY <1>2, <1>3

\* There are no rows at first, and at least the one of the container group is due.
LEMMA RowInitially == Init => RowInv
<1> SUFFICES ASSUME Init PROVE RowInv
  OBVIOUS
<1>1. TypeOK
  BY MetricsAssumption DEF Init, TypeOK, MaxAttempts
<1>2. Underway
  BY MetricsAssumption DEF Init, Underway, Due, Asking
<1> QED BY <1>1, <1>2 DEF Init, RowInv, Traffic, RowsArePriced

\* The window and its traffic stay the same, and so do the sums of them.
LEMMA SameSums ==
  ASSUME UNCHANGED inputs
  PROVE  /\ \A c, buckets : SumOfMetric(c, buckets)' = SumOfMetric(c, buckets)
         /\ CountedEgress' = CountedEgress
<1>1. traffic' = traffic /\ timed' = timed
  BY DEF inputs
<1>2. ASSUME NEW c, NEW S PROVE SentIn(c, S)' = SentIn(c, S)
  BY <1>1 DEF SentIn, MapThenSumSet, MapThenFoldSet
<1> QED BY <1>1, <1>2 DEF SumOfMetric, CountedEgress

\* Steps that add no row leave those there are, and what is due, as they were.
LEMMA SameRows ==
  ASSUME UNCHANGED <<inputs, costs>>, RowInv
  PROVE  /\ Traffic' /\ RowsArePriced' /\ Due' = Due /\ Present' = Present
         /\ \A row \in costs' : row.component \in configuration' /\ row.egress \in Nat
         /\ id' \in Experiments /\ configuration' \in Configurations
         /\ start' \in 0 .. MaxStart /\ end' \in (start' + 1) .. MaxEnd
         /\ timed' \subseteq (start' + 1) .. end'
<1>1. Due' = Due
  BY DEF inputs, Due
<1>2. Present' = Present
  BY <1>1 DEF Present
<1>3. Traffic'
  BY DEF inputs, RowInv, Traffic
<1>4. RowsArePriced'
  BY SameSums, SameWindow DEF RowInv, RowsArePriced
<1> QED BY <1>1, <1>2, <1>3, <1>4 DEF inputs, RowInv, TypeOK

\* Every step keeps the types and what the rows are priced by.
LEMMA RowInductive == RowInv /\ [Next]_vars => RowInv'
<1> SUFFICES ASSUME RowInv, [Next]_vars PROVE RowInv'
  OBVIOUS
<1>1. TypeOK /\ Underway
  BY DEF RowInv
<1>2. CASE BeginComponent
  <2>1. UNCHANGED <<now, inputs, published, error, costs>> /\ usage' = {} /\ attempt' = 0
        /\ at = "begin" /\ at' \in {"sleep", "request", "save"}
        /\ wake' \in {Ready, wake}
    BY <1>2 DEF BeginComponent
  <2>2. Ready \in Nat
    BY <1>1, MetricsAssumption DEF TypeOK, Ready
  <2>3. TypeOK'
    BY <1>1, <2>1, <2>2, SameRows, SameWindow DEF TypeOK, MaxAttempts
  <2>4. Underway'
    BY <1>1, <2>1, SameRows DEF Underway, MaxAttempts
  <2> QED BY <2>1, <2>3, <2>4, SameRows DEF RowInv
<1>3. CASE WakeUp
  <2>1. UNCHANGED <<now, inputs, published, wake, attempt, error, usage, costs>>
        /\ at' = "request" /\ at \in {"sleep", "backoff"}
    BY <1>3 DEF WakeUp
  <2>2. TypeOK'
    BY <1>1, <2>1, SameRows, SameWindow DEF TypeOK
  <2>3. Underway'
    BY <1>1, <2>1, SameRows DEF Underway, Asking
  <2> QED BY <2>1, <2>2, <2>3, SameRows DEF RowInv
<1>4. CASE RequestSucceeds
  <2>1. UNCHANGED <<now, inputs, published, wake, attempt, error, costs>>
        /\ at = "request" /\ at' = "save" /\ usage' \in {published, {}}
    BY <1>4 DEF RequestSucceeds
  <2>2. TypeOK'
    BY <1>1, <2>1, SameRows, SameWindow DEF TypeOK
  <2>3. Underway'
    BY <1>1, <2>1, SameRows DEF Underway, Asking
  <2> QED BY <2>1, <2>2, <2>3, SameRows DEF RowInv
<1>5. CASE RequestFails
  <2>1. UNCHANGED <<now, inputs, published, usage, costs>> /\ at = "request"
        /\ error' \in Retried \cup {"HttpResponseError"} /\ attempt' = attempt + 1
    BY <1>5 DEF RequestFails
  <2>2. attempt \in 0 .. MaxAttempts /\ attempt < MaxAttempts
    BY <1>1, <2>1 DEF TypeOK, Underway, Asking
  <2>3. attempt \in {0, 1, 2}
    BY <2>2 DEF MaxAttempts
  <2>4. CASE error' \in Retried /\ ~LastAttempt(attempt)
    <3>1. at' = "backoff" /\ wake' = now + Pauses[attempt + 1]
      BY <1>5, <2>4 DEF RequestFails
    <3>2. attempt \in {0, 1}
      BY <2>3, <2>4 DEF LastAttempt, MaxAttempts
    <3>3. Pauses[attempt + 1] \in Nat
      <4>1. Pauses[1] = 5 /\ Pauses[2] = 15
        BY DEF Pauses
      <4> QED BY <3>2, <4>1
    <3>4. wake' \in Nat
      BY <1>1, <3>1, <3>3 DEF TypeOK
    <3>5. TypeOK'
      BY <1>1, <2>1, <2>3, <3>1, <3>4, SameRows, SameWindow DEF TypeOK, MaxAttempts
    <3>6. Underway'
      BY <1>1, <2>1, <3>1, <3>2, SameRows DEF Underway, MaxAttempts
    <3> QED BY <2>1, <3>5, <3>6, SameRows DEF RowInv
  <2>5. CASE ~(error' \in Retried /\ ~LastAttempt(attempt))
    <3>1. at' = "raised" /\ wake' = wake
      BY <1>5, <2>5 DEF RequestFails
    <3>2. TypeOK'
      BY <1>1, <2>1, <2>3, <3>1, SameRows, SameWindow DEF TypeOK, MaxAttempts
    <3>3. Underway'
      BY <3>1 DEF Underway, Asking
    <3> QED BY <2>1, <3>2, <3>3, SameRows DEF RowInv
  <2> QED BY <2>4, <2>5
<1>6. CASE SaveCost
  <2>1. UNCHANGED <<now, inputs, published, wake, attempt, error, usage>> /\ at = "save"
    BY <1>6 DEF SaveCost
  <2>2. CASE at' = "raised" /\ UNCHANGED costs
    <3>1. TypeOK'
      BY <1>1, <2>1, <2>2, SameRows, SameWindow DEF TypeOK
    <3>2. Underway'
      BY <2>2 DEF Underway, Asking
    <3> QED BY <2>1, <2>2, <3>1, <3>2, SameRows DEF RowInv
  <2>3. ASSUME NEW row,
               row = [component |-> Present, seconds |-> end - start,
                      buckets |-> usage, egress |-> Egress(Present)],
               costs' = costs \cup {row},
               at' = IF Due = {Present} THEN "done" ELSE "begin"
        PROVE  RowInv'
    <3>1. Present \in Due /\ Present \in configuration
      BY <1>1, <2>1, PresentIsDue DEF Underway
    <3>2. /\ row.component = Present /\ row.buckets = usage
          /\ row.egress = Egress(Present) /\ row.egress \in Nat
      BY <2>3, <3>1, EgressIsNat DEF RowInv
    <3>3. Traffic'
      BY <2>1 DEF inputs, RowInv, Traffic
    <3>4. TypeOK'
      <4>1. \A r \in costs' : r.component \in configuration /\ r.egress \in Nat
        BY <1>1, <2>3, <3>1, <3>2 DEF TypeOK
      <4>2. at' \in {"done", "begin"}
        BY <2>3
      <4> QED BY <1>1, <2>1, <4>1, <4>2, SameWindow DEF TypeOK, inputs
    <3>5. RowsArePriced'
      <4>1. usage \subseteq Window
        BY <1>1 DEF TypeOK
      <4>2. \A r \in costs' :
              /\ r.buckets \subseteq Window
              /\ r.egress = IF r.component \in Queried
                            THEN SumOfMetric(r.component, r.buckets) ELSE CountedEgress
        BY <2>3, <3>2, <4>1 DEF RowInv, RowsArePriced, Egress
      <4> QED BY <2>1, <4>2, SameSums, SameWindow DEF RowsArePriced
    <3>6. Underway'
      <4>1. at' # "done" => Due # {Present}
        BY <2>3
      <4>2. Due' = Due \ {Present}
        BY <2>1, <2>3, <3>2 DEF Due, inputs
      <4>3. at' # "done" => Due' # {}
        BY <3>1, <4>1, <4>2
      <4>4. at' \in {"done", "begin"}
        BY <2>3
      <4> QED BY <4>3, <4>4 DEF Underway, Asking
    <3> QED BY <3>3, <3>4, <3>5, <3>6 DEF RowInv
  <2> QED BY <1>6, <2>2, <2>3 DEF SaveCost
<1>7. CASE Tick
  <2>1. UNCHANGED <<inputs, at, wake, attempt, error, usage, costs>> /\ now' = now + 1
        /\ published' \subseteq published \cup Window
    BY <1>7 DEF Tick
  <2>2. TypeOK'
    BY <1>1, <2>1, SameRows, SameWindow DEF TypeOK
  <2>3. Underway'
    BY <1>1, <2>1, SameRows DEF Underway
  <2> QED BY <2>1, <2>2, <2>3, SameRows DEF RowInv
<1>8. CASE Publish
  <2>1. UNCHANGED <<now, inputs, at, wake, attempt, error, usage, costs>>
        /\ published' \subseteq published \cup Window
    BY <1>8 DEF Publish
  <2>2. TypeOK'
    BY <1>1, <2>1, SameRows, SameWindow DEF TypeOK
  <2>3. Underway'
    BY <1>1, <2>1, SameRows DEF Underway
  <2> QED BY <2>1, <2>2, <2>3, SameRows DEF RowInv
<1>9. CASE UNCHANGED vars
  <2>1. UNCHANGED <<now, inputs, published, at, wake, attempt, error, usage, costs>>
    BY <1>9 DEF vars
  <2>2. TypeOK'
    BY <1>1, <2>1, SameRows, SameWindow DEF TypeOK
  <2>3. Underway'
    BY <1>1, <2>1, SameRows DEF Underway
  <2> QED BY <2>1, <2>2, <2>3, SameRows DEF RowInv
<1> QED BY <1>2, <1>3, <1>4, <1>5, <1>6, <1>7, <1>8, <1>9 DEF Next

\* The state stays in its domains, every row has a number of bytes, and a query is
\* never asked a fourth time (query_metrics).
THEOREM TypeCorrect == Spec => []TypeOK
<1>1. RowInv => TypeOK
  BY DEF RowInv
<1> QED BY RowInitially, RowInductive, <1>1, PTL DEF Spec

\* The timed calls are part of the window, the window of its buckets, and these reach
\* over it by less than a bucket: what the process has counted is no more than what a
\* whole usage sums up, and the rest was sent around the timed calls.
LEMMA CountsOfWindow ==
  ASSUME IInv, RowInv
  PROVE  CountsReconcile
<1> SUFFICES ASSUME NEW a \in costs, NEW b \in costs, a.component = "aci", Exists("aci"),
                    b.component \in {"blob", "databricks"}
             PROVE  /\ b.egress <= a.egress
                    /\ a.egress - b.egress <= SentIn("aci", Around \ timed)
  BY DEF CountsReconcile
<1> DEFINE Asked == UNION {TicksOf(w) : w \in Window}
           Rest  == Around \ timed
<1>1. /\ start \in Nat /\ end \in 1 .. MaxEnd
      /\ timed \subseteq (start + 1) .. end /\ timed \in SUBSET Ticks
  BY TimedTicks DEF RowInv
<1>2. a.egress = SentIn("aci", Asked)
  <2>1. a.buckets = Window
    BY DEF IInv, UsageCoversWindow, Queried
  <2>2. a.egress = SumOfMetric("aci", a.buckets)
    BY DEF RowInv, RowsArePriced, Queried
  <2> QED BY <2>1, <2>2 DEF SumOfMetric
<1>3. b.egress = SentIn("aci", timed)
  BY DEF RowInv, RowsArePriced, Queried, CountedEgress
<1>4. timed \subseteq Asked
  BY <1>1, BucketOfTick
<1>5. Asked \subseteq timed \cup Rest
  BY <1>1, TicksOfWindow
<1>6. Rest \in SUBSET Ticks /\ timed \cap Rest = {}
  BY DEF Around
<1>7. traffic["aci"] \in [Ticks -> Nat]
  BY TrafficOf DEF RowInv
<1> HIDE DEF Asked, Rest
<1>8. timed \cup Rest \in SUBSET Ticks /\ Asked \in SUBSET Ticks
  BY <1>1, <1>5, <1>6
<1>9. /\ SentIn("aci", timed) <= SentIn("aci", Asked)
      /\ SentIn("aci", Asked) <= SentIn("aci", timed \cup Rest)
      /\ SentIn("aci", timed \cup Rest) = SentIn("aci", timed) + SentIn("aci", Rest)
  BY <1>1, <1>4, <1>5, <1>6, <1>7, <1>8, SumsOfTicks
<1>10. SentIn("aci", timed) \in Nat /\ SentIn("aci", Asked) \in Nat
       /\ SentIn("aci", Rest) \in Nat
  BY <1>1, <1>6, <1>7, <1>8, SumsOfTicks
<1> QED BY <1>2, <1>3, <1>9, <1>10 DEF Rest

\* The bytes the process counted, which its blob and Databricks rows are priced by, are
\* among those its ACI row is priced by, and what that row has in excess was sent out of
\* the timed calls, less than a bucket before or after the window at most
\* (compute_aci_cost, compute_blob_storage_cost, __sum_rate_metric).
THEOREM Reconciled == Spec => []CountsReconcile
<1>1. IInv /\ RowInv => CountsReconcile
  BY CountsOfWindow
<1> QED BY Initially, Inductive, RowInitially, RowInductive, <1>1, PTL DEF Spec
=============================================================================
