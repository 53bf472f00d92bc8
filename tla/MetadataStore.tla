--------------------------- MODULE MetadataStore ---------------------------
(***************************************************************************)
(* The shared table benchmark_metadata.parquet (monitoring_storage_service *)
(* over blob_storage_service).  Every container appends one row at the end *)
(* of its run: it makes sure the storage container exists, downloads the   *)
(* whole table, appends its row and uploads the whole table again.  There  *)
(* is no lease, no etag condition and no lock.                             *)
(*                                                                         *)
(* The writers are the containers of a suite.  The orchestrator runs them  *)
(* in batches, one batch after another in an order of its own, the members *)
(* of one batch concurrently.  BenchmarkSuite shows that the orchestrator  *)
(* and its containers implement this module.                               *)
(***************************************************************************)
EXTENDS FiniteSets

CONSTANTS
  Writers,  \* containers that record a metadata row
  Batch     \* Batch[w] is the batch that w is launched with

ASSUME StoreAssumption == DOMAIN Batch = Writers

VARIABLES
  launched,   \* writers whose batch has been launched
  pc,         \* where each writer is
  storage,    \* the storage container "metadata" exists
  table,      \* rows of the blob; a row is named by the writer it is about
  copy        \* rows each writer downloaded

vars == <<launched, pc, storage, table, copy>>

Ended == {"done", "raised"}

Goto(w, label) == pc' = [pc EXCEPT ![w] = label]

\* The process of w ends, its copy with it.
End(w, label) == Goto(w, label) /\ copy' = [copy EXCEPT ![w] = {}]

\* The members of w's batch.
Members(w) == {v \in Writers : Batch[v] = Batch[w]}

\* A mistake: the next batch is launched when one writer of the last has ended.
SomeEnded == \E v \in launched : pc[v] \in Ended

AllEnded == \A v \in launched : pc[v] \in Ended

\* A batch is launched as a whole, when every writer launched before has ended.
LaunchBatch(w) ==
  /\ w \notin launched
  /\ AllEnded
  /\ launched' = launched \cup Members(w)
  /\ UNCHANGED <<pc, storage, table, copy>>

\* ensure_container: exists() is false, the creation comes next, in a step of
\* its own.
FindStorageMissing(w) ==
  /\ pc[w] = "ready" /\ w \in launched
  /\ ~storage
  /\ Goto(w, "create")
  /\ UNCHANGED <<launched, storage, table, copy>>

FindStorage(w) ==
  /\ pc[w] = "ready" /\ w \in launched
  /\ storage
  /\ Goto(w, "download")
  /\ UNCHANGED <<launched, storage, table, copy>>

CreateStorage(w) ==
  /\ pc[w] = "create"
  /\ ~storage
  /\ storage' = TRUE
  /\ Goto(w, "download")
  /\ UNCHANGED <<launched, table, copy>>

\* The service refuses to create a container that exists by now; nothing
\* catches that error.
CreateRefused(w) ==
  /\ pc[w] = "create"
  /\ storage
  /\ End(w, "raised")
  /\ UNCHANGED <<launched, storage, table>>

\* A missing blob downloads as None: the table is empty.
Download(w) ==
  /\ pc[w] = "download"
  /\ copy' = [copy EXCEPT ![w] = table]
  /\ Goto(w, "upload")
  /\ UNCHANGED <<launched, storage, table>>

\* A mistake: the uploaded table holds only the new entry.
EntryOnly(w) == {w}

Merged(w) == copy[w] \cup {w}

\* upload_file looks for the container again, which now exists and is never
\* deleted; overwrite=True replaces the table.
Upload(w) ==
  /\ pc[w] = "upload"
  /\ table' = Merged(w)
  /\ End(w, "done")
  /\ UNCHANGED <<launched, storage>>

\* A request fails, or the container is killed.
Die(w) ==
  /\ pc[w] \notin Ended /\ w \in launched
  /\ End(w, "raised")
  /\ UNCHANGED <<launched, storage, table>>

\* A suite may begin while containers of an earlier one are still recording.
Init ==
  /\ launched \in {{}} \cup {Members(w) : w \in Writers}
  /\ pc \in [Writers -> {"ready", "raised"}] /\ \A w \in Writers \ launched : pc[w] = "ready"
  /\ storage \in BOOLEAN
  /\ table = {}
  /\ copy = [w \in Writers |-> {}]

Record(w) ==
  \/ FindStorageMissing(w)
  \/ FindStorage(w)
  \/ CreateStorage(w)
  \/ CreateRefused(w)
  \/ Download(w)
  \/ Upload(w)

Next == \E w \in Writers : LaunchBatch(w) \/ Record(w) \/ Die(w)

Spec == Init /\ [][Next]_vars

-----------------------------------------------------------------------------
(***************************************************************************)
(* Properties                                                              *)
(***************************************************************************)

\* Every variable stays in its domain.
TypeOK ==
  /\ launched \subseteq Writers
  /\ pc \in [Writers -> {"ready", "create", "download", "upload"} \cup Ended]
  /\ storage \in BOOLEAN
  /\ table \subseteq Writers
  /\ copy \in [Writers -> SUBSET Writers]

\* The members of w's batch other than w.
Peers(w) == Members(w) \ {w}

\* A row that was written can only be missing because a member of the same
\* batch wrote its own: benchmarks that run alone in their batch never lose
\* their row, whatever the other batches do.
OnlyPeersLoseRows ==
  \A w \in Writers :
    pc[w] = "done" /\ w \notin table => \E v \in Peers(w) : pc[v] = "done"

\* However the members of a batch interleave, at least one of the rows they
\* wrote survives the whole batch and all later batches.
SomeRowOfBatchSurvives ==
  \A w \in Writers :
    pc[w] = "done" => \E v \in Peers(w) \cup {w} : v \in table

\* A row that is in the table when the last member of its batch ends is in it
\* for ever.
SettledRowsStay ==
  [][\A w \in table :
       (\A v \in Peers(w) \cup {w} : pc[v] \in Ended) => w \in table']_vars

(***************************************************************************)
(* What the documentation says and the code does not do                    *)
(***************************************************************************)

\* README.md:247-249: the iteration counts, the statistics and the stop reason
\* of a benchmark "are persisted alongside the existing identifiers in
\* benchmark_metadata.parquet".
RowsArePersisted == \A w \in Writers : pc[w] = "done" => w \in table
=============================================================================
