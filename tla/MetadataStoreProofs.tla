------------------------ MODULE MetadataStoreProofs ------------------------
(***************************************************************************)
(* Theorems about MetadataStore, for any set of writers and any batches in *)
(* any order.                                                              *)
(*                                                                         *)
(* The inductive invariant says that only members of one batch are between *)
(* their launch and their end, and that a downloaded copy agrees with the  *)
(* table on every other batch: two uploads can disagree only about rows of *)
(* the batch in flight.                                                    *)
(***************************************************************************)
EXTENDS MetadataStore, TLAPS

\* Only launched writers have done anything, and batches are launched whole.
LaunchedFirst ==
  /\ \A w \in Writers : pc[w] # "ready" => w \in launched
  /\ \A w \in launched : Members(w) \subseteq launched

\* The barrier: launched writers that have not ended are of one batch.
OneOpenBatch ==
  \A v, w \in launched : pc[v] \notin Ended /\ pc[w] \notin Ended => Batch[v] = Batch[w]

\* Only finished writers have rows.
RowsFinished ==
  /\ \A r \in table : pc[r] = "done"
  /\ \A w \in Writers : \A r \in copy[w] : pc[r] = "done"

\* What a writer downloaded is still up to date about the other batches.
CopyUpToDate ==
  \A w \in Writers : pc[w] = "upload" =>
    \A r \in Writers : Batch[r] # Batch[w] => (r \in copy[w] <=> r \in table)

IInv ==
  /\ TypeOK /\ LaunchedFirst /\ OneOpenBatch /\ RowsFinished /\ CopyUpToDate
  /\ OnlyPeersLoseRows /\ SomeRowOfBatchSurvives

-----------------------------------------------------------------------------
\* A step of one writer moves only that writer, and never one that has ended.
LEMMA Moves ==
  ASSUME TypeOK, LaunchedFirst, NEW u \in Writers, Record(u) \/ Die(u)
  PROVE  /\ pc[u] \notin Ended /\ u \in launched
         /\ launched' = launched
         /\ \A w \in Writers \ {u} : pc'[w] = pc[w]
         /\ \A w \in Writers : pc[w] \in Ended => pc'[w] = pc[w]
<1>1. pc[u] \notin Ended /\ u \in launched /\ launched' = launched
  BY DEF Record, FindStorageMissing, FindStorage, CreateStorage, CreateRefused,
         Download, Upload, Die, LaunchedFirst, Ended
<1>2. \E label \in {"create", "download", "upload"} \cup Ended :
        pc' = [pc EXCEPT ![u] = label]
  BY DEF Record, FindStorageMissing, FindStorage, CreateStorage, CreateRefused,
         Download, Upload, Die, End, Goto, Ended
<1> QED
  BY <1>1, <1>2 DEF TypeOK

\* The steps of a writer keep the types.
LEMMA TypeStep ==
  ASSUME TypeOK, NEW u \in Writers, Record(u) \/ Die(u)
  PROVE  TypeOK'
<1> USE DEF TypeOK, End, Goto, Ended
<1>1. CASE FindStorageMissing(u) \/ FindStorage(u) \/ CreateStorage(u) \/ CreateRefused(u)
  BY <1>1 DEF FindStorageMissing, FindStorage, CreateStorage, CreateRefused
<1>2. CASE Download(u)
  BY <1>2 DEF Download
<1>3. CASE Upload(u)
  BY <1>3 DEF Upload, Merged
<1>4. CASE Die(u)
  BY <1>4 DEF Die
<1> QED
  BY <1>1, <1>2, <1>3, <1>4 DEF Record

\* The barrier is kept by a writer's step: nobody comes back.
LEMMA BarrierStep ==
  ASSUME TypeOK, LaunchedFirst, OneOpenBatch, NEW u \in Writers, Record(u) \/ Die(u)
  PROVE  LaunchedFirst' /\ OneOpenBatch'
<1>1. LaunchedFirst'
  BY Moves DEF LaunchedFirst, Members
<1>2. OneOpenBatch'
  BY Moves DEF OneOpenBatch, TypeOK
<1> QED
  BY <1>1, <1>2

\* An upload: what becomes of the table.
LEMMA UploadEffect ==
  ASSUME IInv, NEW u \in Writers, Upload(u)
  PROVE  /\ u \in table' /\ pc' = [pc EXCEPT ![u] = "done"]
         /\ \A w \in Writers \ {u} : copy'[w] = copy[w]
         /\ copy'[u] = {}
         /\ table' \subseteq Writers
         /\ \A r \in table' : r = u \/ pc[r] = "done"
         /\ \A r \in Writers : Batch[r] # Batch[u] => (r \in table' <=> r \in table)
<1> USE DEF IInv
<1>1. /\ pc[u] = "upload" /\ table' = copy[u] \cup {u}
      /\ \A w \in Writers \ {u} : copy'[w] = copy[w]
      /\ copy'[u] = {}
      /\ pc' = [pc EXCEPT ![u] = "done"]
  BY DEF Upload, Merged, End, Goto, TypeOK
<1>2. \A r \in Writers : Batch[r] # Batch[u] => (r \in copy[u] <=> r \in table) /\ r # u
  BY <1>1 DEF CopyUpToDate
<1>3. copy[u] \subseteq Writers /\ \A r \in copy[u] : pc[r] = "done"
  BY DEF RowsFinished, TypeOK
<1> QED
  BY <1>1, <1>2, <1>3

\* The invariant is preserved by a step that leaves the table alone and copies nothing.
LEMMA QuietStep ==
  ASSUME IInv, NEW u \in Writers, Record(u) \/ Die(u),
         table' = table, \A w \in Writers : copy'[w] \in {copy[w], {}},
         \A w \in Writers \ {u} : copy'[w] = copy[w],
         pc'[u] # "done", pc'[u] # "upload"
  PROVE  IInv'
<1>1. /\ \A w \in Writers : pc'[w] \in {"done", "upload"} => pc'[w] = pc[w]
      /\ \A w \in Writers : pc[w] \in Ended => pc'[w] = pc[w]
  BY Moves DEF IInv
<1>2. TypeOK' /\ LaunchedFirst' /\ OneOpenBatch'
  BY TypeStep, BarrierStep DEF IInv
<1>3. RowsFinished'
  BY <1>1 DEF IInv, RowsFinished, TypeOK, Ended
<1>4. CopyUpToDate'
  BY <1>1 DEF IInv, CopyUpToDate
<1>5. OnlyPeersLoseRows'
  BY <1>1 DEF IInv, OnlyPeersLoseRows, Peers, Members, Ended
<1>6. SomeRowOfBatchSurvives'
  BY <1>1 DEF IInv, SomeRowOfBatchSurvives, Peers, Members
<1> QED
  BY <1>2, <1>3, <1>4, <1>5, <1>6 DEF IInv

\* A writer copies the table as it is.
LEMMA DownloadStep ==
  ASSUME IInv, NEW u \in Writers, Download(u)
  PROVE  IInv'
<1>1. /\ table' = table /\ copy' = [copy EXCEPT ![u] = table]
      /\ pc' = [pc EXCEPT ![u] = "upload"] /\ pc[u] = "download"
  BY DEF Download, Goto
<1>2. TypeOK' /\ LaunchedFirst' /\ OneOpenBatch'
  BY TypeStep, BarrierStep DEF IInv, Record
<1>3. RowsFinished'
  BY <1>1 DEF IInv, RowsFinished, TypeOK
<1>4. CopyUpToDate'
  BY <1>1 DEF IInv, CopyUpToDate, TypeOK
<1>5. OnlyPeersLoseRows'
  BY <1>1 DEF IInv, OnlyPeersLoseRows, Peers, Members, TypeOK
<1>6. SomeRowOfBatchSurvives'
  BY <1>1 DEF IInv, SomeRowOfBatchSurvives, Peers, Members, TypeOK
<1> QED
  BY <1>2, <1>3, <1>4, <1>5, <1>6 DEF IInv

\* An upload replaces the table by a copy that may lack rows, but only those of
\* writers of the same batch.
LEMMA UploadStep ==
  ASSUME IInv, NEW u \in Writers, Upload(u)
  PROVE  IInv'
<1>1. TypeOK' /\ LaunchedFirst' /\ OneOpenBatch'
  BY TypeStep, BarrierStep DEF IInv, Record
<1>2. /\ \A w \in Writers \ {u} : pc'[w] = pc[w]
      /\ pc'[u] = "done"
  BY UploadEffect DEF IInv, TypeOK
<1>3. RowsFinished'
  BY <1>2, UploadEffect DEF IInv, RowsFinished, TypeOK
<1>4. CopyUpToDate'
  <2>1. ASSUME NEW w \in Writers, pc'[w] = "upload",
               NEW r \in Writers, Batch[r] # Batch[w]
        PROVE  r \in copy'[w] <=> r \in table'
    <3>1. w # u /\ pc[w] = "upload" /\ copy'[w] = copy[w]
      BY <1>2, <2>1, UploadEffect
    <3>2. Batch[w] = Batch[u]
      BY <3>1 DEF Upload, IInv, OneOpenBatch, LaunchedFirst, Ended
    <3> QED
      BY <2>1, <3>1, <3>2, UploadEffect DEF IInv, CopyUpToDate
  <2> QED
    BY <2>1 DEF CopyUpToDate
<1>5. OnlyPeersLoseRows'
  <2>1. ASSUME NEW w \in Writers, pc'[w] = "done", w \notin table'
        PROVE  \E v \in Peers(w) : pc'[v] = "done"
    <3>1. w # u /\ pc[w] = "done"
      BY <1>2, <2>1, UploadEffect
    <3>2. CASE Batch[w] # Batch[u]
      <4>1. \E v \in Peers(w) : pc[v] = "done"
        BY <2>1, <3>1, <3>2, UploadEffect DEF IInv, OnlyPeersLoseRows
      <4> QED
        BY <1>2, <4>1 DEF Peers, Members
    <3>3. CASE Batch[w] = Batch[u]
      BY <1>2, <3>1, <3>3 DEF Peers, Members
    <3> QED
      BY <3>2, <3>3
  <2> QED
    BY <2>1 DEF OnlyPeersLoseRows, Peers, Members
<1>6. SomeRowOfBatchSurvives'
  <2>1. ASSUME NEW w \in Writers, pc'[w] = "done"
        PROVE  \E v \in Peers(w) \cup {w} : v \in table'
    <3>1. CASE Batch[w] # Batch[u]
      <4>1. w # u /\ pc[w] = "done"
        BY <1>2, <2>1, <3>1
      <4>2. PICK v \in Peers(w) \cup {w} : v \in table
        BY <4>1 DEF IInv, SomeRowOfBatchSurvives
      <4>3. v \in table'
        BY <3>1, <4>2, UploadEffect DEF Peers, Members
      <4> QED
        BY <4>2, <4>3
    <3>2. CASE Batch[w] = Batch[u]
      BY <3>2, UploadEffect DEF Peers, Members
    <3> QED
      BY <3>1, <3>2
  <2> QED
    BY <2>1 DEF SomeRowOfBatchSurvives, Peers, Members
<1> QED
  BY <1>1, <1>3, <1>4, <1>5, <1>6 DEF IInv

\* A launch adds a whole batch at a time when every launched writer has ended.
LEMMA LaunchStep ==
  ASSUME IInv, NEW u \in Writers, LaunchBatch(u)
  PROVE  IInv'
<1>1. /\ launched' = launched \cup Members(u) /\ AllEnded
      /\ pc' = pc /\ storage' = storage /\ table' = table /\ copy' = copy
  BY DEF LaunchBatch
<1>2. TypeOK'
  BY <1>1 DEF IInv, TypeOK, Members
<1>3. LaunchedFirst'
  BY <1>1 DEF IInv, LaunchedFirst, Members
<1>4. OneOpenBatch'
  BY <1>1 DEF AllEnded, OneOpenBatch, Members
<1>5. RowsFinished' /\ CopyUpToDate'
  BY <1>1 DEF IInv, RowsFinished, CopyUpToDate
<1>6. OnlyPeersLoseRows' /\ SomeRowOfBatchSurvives'
  BY <1>1 DEF IInv, OnlyPeersLoseRows, SomeRowOfBatchSurvives
<1> QED
  BY <1>2, <1>3, <1>4, <1>5, <1>6 DEF IInv

-----------------------------------------------------------------------------
\* Every step keeps the invariant.
LEMMA StepInv == IInv /\ [Next]_vars => IInv'
<1> SUFFICES ASSUME IInv, [Next]_vars PROVE IInv'
  OBVIOUS
<1>1. ASSUME NEW u \in Writers, Record(u) \/ Die(u)
      PROVE  IInv'
  <2>1. CASE Download(u)
    BY <2>1, DownloadStep
  <2>2. CASE Upload(u)
    BY <2>2, UploadStep
  <2>3. CASE ~Download(u) /\ ~Upload(u)
    <3>1. /\ table' = table
          /\ \A w \in Writers : copy'[w] \in {copy[w], {}}
          /\ \A w \in Writers \ {u} : copy'[w] = copy[w]
          /\ pc'[u] \notin {"done", "upload"}
      BY <1>1, <2>3 DEF Record, FindStorageMissing, FindStorage, CreateStorage,
                        CreateRefused, Die, End, Goto, IInv, TypeOK
    <3> QED
      BY <1>1, <3>1, QuietStep
  <2> QED
    BY <2>1, <2>2, <2>3
<1>2. CASE UNCHANGED vars
  BY <1>2 DEF vars, IInv, TypeOK, LaunchedFirst, OneOpenBatch, RowsFinished, CopyUpToDate,
              OnlyPeersLoseRows, SomeRowOfBatchSurvives
<1> QED
  BY <1>1, <1>2, LaunchStep DEF Next

\* At first the table is empty, and nobody or one batch has been launched.
LEMMA StoreInitially == Init => IInv
BY DEF Init, IInv, TypeOK, LaunchedFirst, OneOpenBatch, RowsFinished, CopyUpToDate,
       OnlyPeersLoseRows, SomeRowOfBatchSurvives, Members, Ended

\* The table has the rows of ended batches in every reachable state
\* (write_metadata_to_blob_storage).
THEOREM Inductive == Spec => []IInv
BY StoreInitially, StepInv, PTL DEF Spec

\* Writers, copies and rows stay in their domains.
THEOREM TypeCorrect == Spec => []TypeOK
<1>1. IInv => TypeOK
  BY DEF IInv
<1> QED
  BY <1>1, Inductive, PTL

\* A metadata row can only be lost to a concurrent member of the same batch
\* (OnlyPeersLoseRows): an experiment alone in its batch keeps its row.
THEOREM LossIsLocal == Spec => []OnlyPeersLoseRows
<1>1. IInv => OnlyPeersLoseRows
  BY DEF IInv
<1> QED
  BY <1>1, Inductive, PTL

\* At least one row of every batch that wrote any survives
\* (SomeRowOfBatchSurvives).
THEOREM BatchSurvives == Spec => []SomeRowOfBatchSurvives
<1>1. IInv => SomeRowOfBatchSurvives
  BY DEF IInv
<1> QED
  BY <1>1, Inductive, PTL

\* A row that outlives its batch is permanent (SettledRowsStay): later batches
\* download it before they upload.
THEOREM SettledForever == Spec => SettledRowsStay
<1> DEFINE Settled(w) == \A v \in Peers(w) \cup {w} : pc[v] \in Ended
<1>1. IInv /\ [Next]_vars => [\A w \in table : Settled(w) => w \in table']_vars
  <2> SUFFICES ASSUME IInv, [Next]_vars, NEW w \in table, Settled(w)
               PROVE  w \in table'
    OBVIOUS
  <2>1. ASSUME NEW u \in Writers, Upload(u)
        PROVE  w \in table'
    <3>1. w \in Writers /\ u \notin Peers(w) \cup {w}
      BY <2>1 DEF Upload, Ended, IInv, TypeOK
    <3>2. Batch[w] # Batch[u]
      BY <3>1 DEF Peers, Members
    <3> QED
      BY <2>1, <3>1, <3>2, UploadEffect
  <2>2. CASE UNCHANGED vars
    BY <2>2 DEF vars
  <2>3. ASSUME NEW u \in Writers, Record(u) \/ Die(u), ~Upload(u)
        PROVE  w \in table'
    BY <2>3 DEF Record, FindStorageMissing, FindStorage, CreateStorage,
                CreateRefused, Download, Die
  <2>4. ASSUME NEW u \in Writers, LaunchBatch(u)
        PROVE  w \in table'
    BY <2>4 DEF LaunchBatch
  <2> QED
    BY <2>1, <2>2, <2>3, <2>4 DEF Next
<1> QED
  BY <1>1, Inductive, PTL DEF Spec, SettledRowsStay
=============================================================================
