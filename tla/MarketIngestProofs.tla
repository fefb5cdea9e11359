-------------------------- MODULE MarketIngestProofs --------------------------
(***************************************************************************)
(* The archive and its jobs: types for any number of workers, and, for one *)
(* worker, that no row is dropped, that a manifest says what the partition *)
(* files hold, that the ledger follows the publication, that nothing a job *)
(* has learned is lost and that a reconciliation only fills gaps; for any  *)
(* securities, dates and payloads and for any failing requests.            *)
(***************************************************************************)
EXTENDS MarketIngest, FiniteSetTheorems, TLAPS

-----------------------------------------------------------------------------
(* Types.                                                                   *)

USE DEF Stamps, Snapshot, Datasets, Jobs, Failure

LEMMA NoRowsType == NoRows \in Snapshot /\ NoFailures \in [Symbols -> Failure]
  BY IngestAssumption DEF NoRows, NoFailures, NoFailure

\* The initial state has the types.
LEMMA InitTypes == Init => TypeOK
<1> SUFFICES ASSUME Init PROVE TypeOK
  OBVIOUS
<1>1. Cardinality(Symbols) \in Nat
  BY IngestAssumption, FS_CardinalityType
<1>2. lake \in [Datasets -> Snapshot] /\ manifest \in [Datasets -> [asOf : Stamps, parts : Snapshot]]
  <2>1. [asOf |-> 0, parts |-> NoRows] \in [asOf : Stamps, parts : Snapshot]
    BY NoRowsType, IngestAssumption
  <2> HIDE DEF Stamps, Snapshot
  <2> QED BY <2>1, NoRowsType DEF Init
<1>3. ledger \in [asOf : Stamps, rows : BOOLEAN,
                   status : {"none", "completed", "completed_with_failures", "failed"},
                   failed : 0 .. Cardinality(Symbols)]
  BY <1>1, IngestAssumption DEF Init
<1>4. /\ stamp \in [Workers -> Stamps] /\ attempt \in [Workers -> 1 .. MaxRetries]
      /\ started \in Stamps
  BY IngestAssumption DEF Init
<1>5. /\ buf \in [Workers -> Snapshot] /\ rows \in [Workers -> Snapshot]
      /\ failed \in [Workers -> [Symbols -> Failure]] /\ failures \in [Symbols -> Failure]
      /\ queue \in [Symbols -> Failure]
  BY NoRowsType DEF Init
<1> HIDE DEF Stamps, Snapshot, Failure
<1> QED BY <1>2, <1>3, <1>4, <1>5 DEF Init, TypeOK

\* End leaves a worker idle with locals of their types.
LEMMA EndTypes ==
  ASSUME TypeOK, NEW w \in Workers, End(w)
  PROVE  /\ started' \in Stamps
         /\ pc' \in [Workers -> {"idle", "fetch", "list", "read", "upload",
                                 "manifest", "ledger", "failures", "return"}]
         /\ job' \in [Workers -> Jobs] /\ stamp' \in [Workers -> Stamps]
         /\ todo' \in [Workers -> SUBSET Symbols] /\ attempt' \in [Workers -> 1 .. MaxRetries]
         /\ got' \in [Workers -> SUBSET (Dates \X Symbols)]
         /\ ok' \in [Workers -> SUBSET Symbols]
         /\ failed' \in [Workers -> [Symbols -> Failure]]
         /\ want' \in [Workers -> {"own", "canonical", "recovery", "base"}]
         /\ parts' \in [Workers -> SUBSET Dates]
         /\ buf' \in [Workers -> Snapshot] /\ rows' \in [Workers -> Snapshot]
  BY IngestAssumption, NoRowsType DEF End, TypeOK

ArchiveOK ==
    /\ lake \in [Datasets -> Snapshot]
    /\ manifest \in [Datasets -> [asOf : Stamps, parts : Snapshot]]
    /\ ledger \in [asOf : Stamps, rows : BOOLEAN,
                   status : {"none", "completed", "completed_with_failures", "failed"},
                   failed : 0 .. Cardinality(Symbols)]
    /\ failures \in [Symbols -> Failure]

LEMMA RaiseTypes ==
  ASSUME TypeOK, NEW w \in Workers, Raise(w), ArchiveOK'
  PROVE  TypeOK'
  BY EndTypes DEF Raise, history, TypeOK, ArchiveOK

LEMMA ReturnTypes ==
  ASSUME TypeOK, NEW w \in Workers, Return(w), ArchiveOK'
  PROVE  TypeOK'
<1>1. queue' \in [Symbols -> Failure]
  BY DEF Return, TypeOK
<1>2. known' \in SUBSET Symbols
  BY DEF Return, TypeOK
<1>3. owed' \in SUBSET (Dates \X Symbols)
  BY DEF Return, TypeOK
<1> QED BY <1>1, <1>2, <1>3, EndTypes DEF Return, TypeOK, ArchiveOK

LEMMA PutTypes ==
  ASSUME TypeOK, NEW w \in Workers
  PROVE  /\ \A d \in parts[w] : PutPartition(w, d) => ArchiveOK'
         /\ PutManifest(w) => ArchiveOK'
         /\ PutLedger(w) => ArchiveOK'
         /\ PutFailures(w) => ArchiveOK'
         /\ UNCHANGED archive => ArchiveOK'
<1>0. Target(job[w]) \in Datasets
  BY DEF Target
<1>1. ASSUME NEW d \in parts[w], PutPartition(w, d) PROVE ArchiveOK'
  <2>1. d \in Dates /\ rows[w][d] \in [Symbols -> Stamps]
    BY DEF TypeOK
  <2>2. lake' \in [Datasets -> Snapshot]
    BY <1>0, <1>1, <2>1 DEF PutPartition, TypeOK
  <2> QED BY <1>1, <2>2 DEF PutPartition, TypeOK, ArchiveOK
<1>2. ASSUME PutManifest(w) PROVE ArchiveOK'
  BY <1>0, <1>2 DEF PutManifest, TypeOK, ArchiveOK
<1>3. ASSUME PutLedger(w) PROVE ArchiveOK'
  <2>1. Cardinality(Pending(failed[w])) \in 0 .. Cardinality(Symbols)
    BY IngestAssumption, FS_CardinalityType, FS_Subset DEF Pending
  <2>2. ledger' \in [asOf : Stamps, rows : BOOLEAN,
                   status : {"none", "completed", "completed_with_failures", "failed"},
                   failed : 0 .. Cardinality(Symbols)]
    BY <1>3, <2>1 DEF PutLedger, Status, TypeOK
  <2> QED BY <1>3, <2>2 DEF PutLedger, TypeOK, ArchiveOK
<1>4. ASSUME PutFailures(w) PROVE ArchiveOK'
  BY <1>4 DEF PutFailures, TypeOK, ArchiveOK
<1>5. ASSUME UNCHANGED archive PROVE ArchiveOK'
  BY <1>5 DEF archive, TypeOK, ArchiveOK
<1> QED BY <1>1, <1>2, <1>3, <1>4, <1>5

LEMMA OverlayTypes ==
  ASSUME NEW new \in Snapshot, NEW old \in Snapshot
  PROVE  Overlay(new, old) \in Snapshot /\ Newest(new, old) \in Snapshot
  BY DEF Overlay, Newest

\* Every step keeps the types, whatever the other workers do.
LEMMA NextTypes == TypeOK /\ [Next]_vars => TypeOK'
<1> SUFFICES ASSUME TypeOK, [Next]_vars PROVE TypeOK'
  OBVIOUS
<1> USE IngestAssumption
<1>a. ASSUME UNCHANGED archive PROVE ArchiveOK'
  BY <1>a DEF archive, TypeOK, ArchiveOK
<1>1. ASSUME NEW w \in Workers, NEW j \in Jobs, NEW place \in {"fetch", "list"},
             NEW symbols \in SUBSET Symbols, NEW input \in [Symbols -> Failure],
             Start(w, j, place, symbols, input)
      PROVE  TypeOK'
  <2>1. started' \in Stamps /\ stamp' \in [Workers -> Stamps]
    BY <1>1 DEF Start, TypeOK
  <2> QED BY <1>1, <2>1 DEF Start, archive, history, TypeOK
<1>2. ASSUME NEW w \in Workers, StartIngest(w) \/ StartRetry(w) \/ StartReconcile(w) PROVE TypeOK'
  <2>1. Retryable(queue) \in SUBSET Symbols /\ queue \in [Symbols -> Failure]
    BY DEF Retryable, TypeOK
  <2> QED BY <1>1, <1>2, <2>1, NoRowsType DEF StartIngest, StartRetry, StartReconcile
<1>3. ASSUME NEW w \in Workers, FetchOk(w) PROVE TypeOK'
  <2>1. PICK s \in todo[w], days \in Payloads :
          /\ got' = [got EXCEPT ![w] = @ \cup (days \X {s})]
          /\ ok' = [ok EXCEPT ![w] = @ \cup {s}]
          /\ todo' = [todo EXCEPT ![w] = @ \ {s}]
          /\ failed' = [failed EXCEPT ![w][s] = NoFailure]
    BY <1>3 DEF FetchOk
  <2>2. s \in Symbols /\ days \in SUBSET Dates /\ NoFailure \in Failure
    BY DEF TypeOK, NoFailure
  <2>3. got' \in [Workers -> SUBSET (Dates \X Symbols)]
    <3>1. days \X {s} \in SUBSET (Dates \X Symbols)
      BY <2>2
    <3>2. got \in [Workers -> SUBSET (Dates \X Symbols)]
      BY DEF TypeOK
    <3>3. got[w] \cup (days \X {s}) \in SUBSET (Dates \X Symbols)
      BY <3>1, <3>2
    <3> QED BY <2>1, <3>2, <3>3
  <2>4. failed' \in [Workers -> [Symbols -> Failure]]
    BY <2>1, <2>2 DEF TypeOK
  <2> QED BY <1>3, <2>1, <2>2, <2>3, <2>4 DEF FetchOk, archive, publish, history, TypeOK
<1>4. ASSUME NEW w \in Workers, FetchFails(w) PROVE TypeOK'
  <2>1. PICK s \in todo[w] :
          \/ /\ attempt[w] < Attempts(job[w])
             /\ attempt' = [attempt EXCEPT ![w] = @ + 1]
             /\ UNCHANGED <<todo, failed>>
          \/ /\ attempt' = [attempt EXCEPT ![w] = 1]
             /\ todo' = [todo EXCEPT ![w] = @ \ {s}]
             /\ failed' = [failed EXCEPT ![w][s] = GivenUp(job[w], @)]
    BY <1>4 DEF FetchFails
  <2>2. s \in Symbols
    BY DEF TypeOK
  <2>3. GivenUp(job[w], failed[w][s]) \in Failure
    BY <2>2 DEF GivenUp, TypeOK
  <2>4. failed' \in [Workers -> [Symbols -> Failure]]
    <3> HIDE DEF Failure
    <3>1. CASE UNCHANGED failed
      BY <3>1 DEF TypeOK
    <3>2. CASE failed' = [failed EXCEPT ![w][s] = GivenUp(job[w], @)]
      BY <3>2, <2>2, <2>3 DEF TypeOK
    <3> QED BY <2>1, <3>1, <3>2
  <2>5. attempt' \in [Workers -> 1 .. MaxRetries]
    <3>1. ASSUME attempt[w] < Attempts(job[w]) PROVE attempt[w] + 1 \in 1 .. MaxRetries
      BY <3>1 DEF Attempts, TypeOK
    <3>2. CASE attempt[w] < Attempts(job[w]) /\ attempt' = [attempt EXCEPT ![w] = @ + 1]
      BY <3>1, <3>2 DEF TypeOK
    <3>3. CASE attempt' = [attempt EXCEPT ![w] = 1]
      BY <3>3 DEF TypeOK
    <3> QED BY <2>1, <3>2, <3>3
  <2>6. todo' \in [Workers -> SUBSET Symbols]
    <3>1. CASE UNCHANGED todo
      BY <3>1 DEF TypeOK
    <3>2. CASE todo' = [todo EXCEPT ![w] = @ \ {s}]
      BY <3>2 DEF TypeOK
    <3> QED BY <2>1, <3>1, <3>2
  <2> QED BY <1>4, <2>4, <2>5, <2>6 DEF FetchFails, archive, publish, history, TypeOK
<1>5. ASSUME NEW w \in Workers, Collected(w) PROVE TypeOK'
  <2>1. CASE got[w] = {} /\ job[w] = "retry"
    BY <1>5, <1>a, <2>1, ReturnTypes DEF Collected
  <2>2. CASE got[w] = {} /\ job[w] = "ingest"
    BY <1>5, <2>2 DEF Collected, archive, collect, publish, history, TypeOK
  <2>3. CASE got[w] # {}
    <3> DEFINE snap == [d \in Dates |-> [s \in Symbols |->
                           IF <<d, s>> \in got[w] THEN stamp[w] ELSE 0]]
    <3>1. snap \in Snapshot
      BY DEF TypeOK
    <3>2. rows' = [rows EXCEPT ![w] = snap]
      BY <1>5, <2>3 DEF Collected
    <3> HIDE DEF Snapshot, snap
    <3>3. rows' \in [Workers -> Snapshot]
      BY <3>1, <3>2 DEF TypeOK
    <3> QED BY <1>5, <2>3, <3>3 DEF Collected, archive, collect, history, TypeOK
  <2> QED BY <1>5, <2>1, <2>2, <2>3 DEF Collected
<1>6. ASSUME NEW w \in Workers PROVE Source(w) \in Datasets
  <2>1. want[w] \in {"own", "canonical", "recovery", "base"}
    BY DEF TypeOK
  <2> QED BY <2>1 DEF Source, Target
<1>7. ASSUME NEW w \in Workers, List(w) PROVE TypeOK'
  <2>1. Filled(lake[Source(w)]) \in SUBSET Dates
    BY DEF Filled
  <2> QED BY <1>7, <2>1, NoRowsType DEF List, archive, collect, history, TypeOK
<1>8. ASSUME NEW w \in Workers, ReadPartition(w) PROVE TypeOK'
  <2>1. PICK d \in parts[w] :
          /\ buf' = [buf EXCEPT ![w][d] = lake[Source(w)][d]]
          /\ parts' = [parts EXCEPT ![w] = @ \ {d}]
    BY <1>8 DEF ReadPartition
  <2>2. d \in Dates /\ lake[Source(w)][d] \in [Symbols -> Stamps]
    BY <1>6 DEF TypeOK
  <2>3. buf' \in [Workers -> Snapshot]
    BY <2>1, <2>2 DEF TypeOK
  <2> QED BY <1>8, <2>1, <2>3 DEF ReadPartition, archive, collect, history, TypeOK
<1>9. ASSUME NEW w \in Workers, RequestFails(w) PROVE TypeOK'
  BY <1>9, <1>a, RaiseTypes DEF RequestFails
<1>10. ASSUME NEW w \in Workers, NEW snap \in Snapshot,
              NEW what \in {"own", "canonical", "recovery", "base"}, ThenRead(w, snap, what)
       PROVE  TypeOK'
  BY <1>10 DEF ThenRead, archive, collect, history, TypeOK
<1>11. ASSUME NEW w \in Workers PROVE rows[w] \in Snapshot /\ buf[w] \in Snapshot
  BY DEF TypeOK
<1>12. ASSUME NEW w \in Workers, CombineRecovery(w) PROVE TypeOK'
  BY <1>10, <1>11, <1>12, OverlayTypes DEF CombineRecovery
<1>13. ASSUME NEW w \in Workers, TakeCanonical(w) PROVE TypeOK'
  BY <1>10, <1>11, <1>13 DEF TakeCanonical
<1>14. ASSUME NEW w \in Workers, MergeRecovery(w) PROVE TypeOK'
  <2>1. Merge(rows[w], buf[w]) \in Snapshot
    BY <1>11, OverlayTypes DEF Merge
  <2> QED BY <1>10, <1>14, <1>a, <2>1, ReturnTypes DEF MergeRecovery
<1>15. ASSUME NEW w \in Workers, Build(w) PROVE TypeOK'
  <2>1. Overlay(rows[w], buf[w]) \in Snapshot /\ Filled(Overlay(rows[w], buf[w])) \in SUBSET Dates
    BY <1>11, OverlayTypes DEF Filled
  <2> QED BY <1>15, <2>1 DEF Build, archive, collect, history, TypeOK
<1>16. ASSUME NEW w \in Workers, UploadPartition(w) PROVE TypeOK'
  <2>1. PICK d \in parts[w] :
          \/ /\ PutPartition(w, d)
             /\ parts' = [parts EXCEPT ![w] = @ \ {d}]
             /\ UNCHANGED <<started, pc, job, stamp, collect, want, buf, rows, history>>
          \/ (PutPartition(w, d) \/ UNCHANGED archive) /\ Raise(w)
    BY <1>16 DEF UploadPartition, UploadFails
  <2>2. ArchiveOK'
    BY <1>a, <2>1, PutTypes
  <2>3. CASE Raise(w)
    BY <2>2, <2>3, RaiseTypes
  <2>4. CASE /\ parts' = [parts EXCEPT ![w] = @ \ {d}]
             /\ UNCHANGED <<started, pc, job, stamp, collect, want, buf, rows, history>>
    <3> HIDE DEF Snapshot, Stamps, Failure
    <3> QED BY <2>2, <2>4 DEF ArchiveOK, collect, history, TypeOK
  <2> QED BY <2>1, <2>3, <2>4
<1>17. ASSUME NEW w \in Workers,
              NEW to \in {"manifest", "ledger", "failures", "return"}, ArchiveOK',
              pc' = [pc EXCEPT ![w] = to],
              UNCHANGED <<started, job, stamp, collect, publish, history>>
       PROVE  TypeOK'
  BY <1>17 DEF ArchiveOK, collect, publish, history, TypeOK
<1>18. ASSUME NEW w \in Workers, UploadIndex(w) PROVE TypeOK'
  BY <1>18, <1>17, <1>a, RaiseTypes DEF UploadIndex, Uploaded, UploadFails
<1>19. ASSUME NEW w \in Workers, UploadManifest(w) PROVE TypeOK'
  <2>1. ArchiveOK'
    BY <1>19, <1>a, PutTypes DEF UploadManifest, Uploaded, UploadFails
  <2> QED BY <1>19, <1>17, <2>1, RaiseTypes DEF UploadManifest, Uploaded, UploadFails, AfterManifest
<1>20. ASSUME NEW w \in Workers, Published(w) PROVE TypeOK'
  BY <1>20, <1>a, ReturnTypes DEF Published
<1>21. ASSUME NEW w \in Workers, UploadLedger(w) PROVE TypeOK'
  <2>1. ArchiveOK'
    BY <1>21, <1>a, PutTypes DEF UploadLedger, Uploaded, UploadFails
  <2> QED BY <1>21, <1>17, <2>1, RaiseTypes DEF UploadLedger, Uploaded, UploadFails
<1>22. ASSUME NEW w \in Workers, UploadFailures(w) PROVE TypeOK'
  <2>1. ArchiveOK'
    BY <1>22, <1>a, PutTypes DEF UploadFailures, UploadFails
  <2> QED BY <1>22, <2>1, RaiseTypes, ReturnTypes DEF UploadFailures, UploadFails
<1>23. CASE UNCHANGED vars
  BY <1>23 DEF vars, archive, collect, publish, history, TypeOK
<1> QED BY <1>2, <1>3, <1>4, <1>5, <1>7, <1>8, <1>9, <1>12, <1>13, <1>14, <1>15, <1>16, <1>18,
           <1>19, <1>20, <1>21, <1>22, <1>23 DEF Next, Step

\* With any number of workers, whatever requests fail and whatever the
\* provider delivers, archive, ledger, queue and locals keep their types and
\* no security is fetched more often than its job allows.
THEOREM IngestTypeCorrect == Spec => []TypeOK
  BY InitTypes, NextTypes, PTL DEF Spec

-----------------------------------------------------------------------------
(* One worker.                                                              *)

\* The archive is written by one worker only.
OneWorker == \A v, w \in Workers : v = w

Covers(new, old) == \A d \in Dates, s \in Symbols : old[d][s] # 0 => new[d][s] # 0
Keeps(new, old)  == \A d \in Dates, s \in Symbols : old[d][s] # 0 => new[d][s] = old[d][s]

Reading(w) == pc[w] \in {"list", "read"}

\* The locals of a job, and the job that is at each place.
Placed(w) ==
    /\ pc[w] = "idle" => got[w] = {} /\ ok[w] = {}
    /\ pc[w] # "idle" => stamp[w] = started /\ started > 0
    /\ job[w] = "reconcile" => got[w] = {} /\ pc[w] \notin {"fetch", "ledger", "failures"}
    /\ pc[w] \in {"ledger", "failures"} => job[w] = "ingest"
    /\ pc[w] # "fetch" => todo[w] = {}
    /\ Reading(w) /\ want[w] \in {"canonical", "recovery"} => job[w] = "reconcile"
    /\ Reading(w) /\ want[w] = "own" => job[w] = "retry"
    /\ pc[w] \in {"upload", "manifest"} => want[w] = "base"

\* What the job has collected and what has failed make up its input.
Accounted(w) ==
    /\ pc[w] # "idle" /\ job[w] = "ingest" => ok[w] \cup Pending(failed[w]) \cup todo[w] = Symbols
    /\ pc[w] # "idle" /\ job[w] = "retry"  => known \cup ok[w] \cup Pending(failed[w]) = Symbols

\* A partition that has been read is as it is in the archive.
Fresh(w) ==
    pc[w] = "read" => \A d \in Dates \ parts[w] : buf[w][d] = lake[Source(w)][d]

\* What is about to be published holds every row of the dataset it replaces,
\* and a partition that is not to be uploaded is as it should be.
Whole(w) ==
    /\ pc[w] = "upload" => /\ Covers(rows[w], lake[Target(job[w])])
                           /\ \A d \in Dates \ parts[w] : lake[Target(job[w])][d] = rows[w][d]
    /\ pc[w] = "manifest" => lake[Target(job[w])] = rows[w]

\* The collected rows are among the rows to be published, then in the archive.
Carried(w) ==
    /\ Reading(w) \/ pc[w] = "upload" => got[w] \subseteq Cells(rows[w])
    /\ pc[w] \in {"manifest", "ledger", "failures", "return"} =>
           got[w] \subseteq Cells(lake[Target(job[w])])

\* A reconciliation has kept the canonical rows and has taken the others.
Merged(w) ==
    job[w] = "reconcile" =>
        /\ (Reading(w) /\ want[w] \in {"recovery", "base"}) \/ pc[w] = "upload" =>
               Keeps(rows[w], lake["canonical"])
        /\ (Reading(w) /\ want[w] = "base") \/ pc[w] \in {"upload", "manifest"} =>
               Cells(lake["recovery"]) \subseteq Cells(rows[w])

\* The ledger is written after the manifest of its job.
Ordered(w) ==
    pc[w] = "ledger" /\ got[w] # {} => manifest["canonical"].asOf = stamp[w]

WorkerInv(w) == /\ Placed(w) /\ Accounted(w) /\ Fresh(w) /\ Whole(w)
                /\ Carried(w) /\ Merged(w) /\ Ordered(w)

SoloInv ==
    /\ NothingLost /\ PublishedBeforeLedger
    /\ ledger.asOf <= started
    /\ \A w \in Workers : WorkerInv(w)

\* The cells of a snapshot are its rows.
LEMMA CellsAre ==
  ASSUME NEW snap
  PROVE  /\ Cells(snap) \in SUBSET (Dates \X Symbols)
         /\ \A d \in Dates, s \in Symbols : <<d, s>> \in Cells(snap) <=> snap[d][s] # 0
  BY DEF Cells

LEMMA CoversCells ==
  ASSUME NEW new, NEW old
  PROVE  Covers(new, old) <=> Cells(old) \subseteq Cells(new)
<1>1. ASSUME Covers(new, old), NEW c \in Cells(old) PROVE c \in Cells(new)
  BY <1>1 DEF Covers, Cells
<1>2. ASSUME Cells(old) \subseteq Cells(new), NEW d \in Dates, NEW s \in Symbols, old[d][s] # 0
      PROVE  new[d][s] # 0
  BY <1>2, CellsAre
<1> QED BY <1>1, <1>2 DEF Covers

\* Laying rows over others loses neither, and keeps the upper ones.
LEMMA OverlayFacts ==
  ASSUME NEW new \in Snapshot, NEW old \in Snapshot
  PROVE  /\ Covers(Overlay(new, old), new) /\ Covers(Overlay(new, old), old)
         /\ Keeps(Overlay(new, old), new)
         /\ Covers(Newest(new, old), new)
  BY IngestAssumption DEF Overlay, Newest, Covers, Keeps

\* A partition without rows is the empty partition.
LEMMA EmptyPartition ==
  ASSUME NEW snap \in Snapshot, NEW d \in Dates \ Filled(snap)
  PROVE  snap[d] = NoRows[d]
  BY DEF Filled, NoRows

LEMMA SameSnapshot ==
  ASSUME NEW a \in Snapshot, NEW b \in Snapshot, \A d \in Dates : a[d] = b[d]
  PROVE  a = b
  OBVIOUS

\* Once the last partition is read, the worker holds the dataset.
LEMMA ReadAllFresh ==
  ASSUME TypeOK, NEW w \in Workers, Fresh(w), pc[w] = "read", parts[w] = {}
  PROVE  buf[w] = lake[Source(w)]
<1>1. Source(w) \in Datasets
  <2>1. want[w] \in {"own", "canonical", "recovery", "base"}
    BY DEF TypeOK
  <2> QED BY <2>1 DEF Source, Target
<1>2. buf[w] \in Snapshot /\ lake[Source(w)] \in Snapshot
  BY <1>1 DEF TypeOK
<1>3. \A d \in Dates : buf[w][d] = lake[Source(w)][d]
  BY DEF Fresh
<1> HIDE DEF Snapshot
<1> QED BY <1>2, <1>3, SameSnapshot

\* A worker that has ended its job owes nothing.
LEMMA EndInv ==
  ASSUME TypeOK, NEW w \in Workers, End(w)
  PROVE  WorkerInv(w)' /\ started' = started
<1>1. pc'[w] = "idle" /\ got'[w] = {} /\ ok'[w] = {} /\ todo'[w] = {} /\ started' = started
  BY DEF End, TypeOK
<1> QED BY <1>1 DEF WorkerInv, Placed, Accounted, Fresh, Whole, Carried, Merged, Ordered, Reading

\* The initial state satisfies the invariant.
LEMMA InitSolo == Init => SoloInv
<1> SUFFICES ASSUME Init PROVE SoloInv
  OBVIOUS
<1>1. NothingLost
  BY DEF Init, NothingLost, Pending
<1>3. ledger.rows = FALSE /\ ledger.asOf = 0 /\ started = 0
  BY DEF Init
<1>2. ASSUME NEW w \in Workers PROVE WorkerInv(w)
  <2>1. pc[w] = "idle" /\ got[w] = {} /\ ok[w] = {} /\ todo[w] = {}
    BY DEF Init
  <2> QED BY <2>1 DEF WorkerInv, Placed, Accounted, Fresh, Whole, Carried, Merged, Ordered, Reading
<1> QED BY <1>1, <1>2, <1>3 DEF SoloInv, PublishedBeforeLedger

\* What a step of a worker may do to the archive.
Effect(w) ==
    \/ UNCHANGED archive
    \/ pc[w] = "upload" /\ \E d \in parts[w] : PutPartition(w, d)
    \/ pc[w] = "manifest" /\ PutManifest(w)
    \/ pc[w] = "ledger" /\ PutLedger(w)
    \/ pc[w] = "failures" /\ PutFailures(w)

Growing == \A ds \in Datasets : Covers(lake'[ds], lake[ds])

LEMMA StepEffect ==
  ASSUME NEW w \in Workers, StartIngest(w) \/ StartRetry(w) \/ StartReconcile(w) \/ Step(w)
  PROVE  Effect(w)
<1>1. CASE StartIngest(w) \/ StartRetry(w) \/ StartReconcile(w)
  BY <1>1 DEF StartIngest, StartRetry, StartReconcile, Start, Effect
<1>2. CASE FetchOk(w) \/ FetchFails(w) \/ Collected(w)
  BY <1>2 DEF FetchOk, FetchFails, Collected, Effect
<1>3. CASE List(w) \/ ReadPartition(w) \/ RequestFails(w)
  BY <1>3 DEF List, ReadPartition, RequestFails, Effect
<1>4. CASE CombineRecovery(w) \/ TakeCanonical(w) \/ MergeRecovery(w) \/ Build(w)
  BY <1>4 DEF CombineRecovery, TakeCanonical, MergeRecovery, Build, ThenRead, Effect
<1>5. CASE UploadPartition(w)
  BY <1>5 DEF UploadPartition, UploadFails, Effect
<1>6. CASE UploadIndex(w) \/ UploadManifest(w) \/ Published(w) \/ UploadLedger(w) \/ UploadFailures(w)
  BY <1>6 DEF UploadIndex, UploadManifest, Published, UploadLedger, UploadFailures, Uploaded,
              UploadFails, Effect
<1> QED BY <1>1, <1>2, <1>3, <1>4, <1>5, <1>6 DEF Step

\* A write replaces one partition by rows that cover it.
LEMMA PutLake ==
  ASSUME TypeOK, NEW w \in Workers, NEW d \in parts[w], PutPartition(w, d)
  PROVE  /\ lake'[Target(job[w])][d] = rows[w][d]
         /\ \A e \in Dates \ {d} : lake'[Target(job[w])][e] = lake[Target(job[w])][e]
         /\ \A ds \in Datasets \ {Target(job[w])} : lake'[ds] = lake[ds]
<1>1. Target(job[w]) \in Datasets /\ d \in Dates
  BY DEF Target, TypeOK
<1> HIDE DEF Stamps
<1> QED BY <1>1 DEF PutPartition, TypeOK

LEMMA EffectGrows ==
  ASSUME TypeOK, NEW w \in Workers, WorkerInv(w), Effect(w)
  PROVE  Growing
<1>1. CASE pc[w] = "upload" /\ \E d \in parts[w] : PutPartition(w, d)
  <2>1. PICK d \in parts[w] : PutPartition(w, d)
    BY <1>1
  <2>2. Covers(rows[w], lake[Target(job[w])])
    BY <1>1 DEF WorkerInv, Whole
  <2>3. Covers(lake'[Target(job[w])], lake[Target(job[w])])
    BY <2>1, <2>2, PutLake DEF Covers
  <2> QED BY <2>1, <2>3, PutLake DEF Growing, Covers
<1>2. CASE UNCHANGED lake
  BY <1>2 DEF Growing, Covers
<1> QED BY <1>1, <1>2 DEF Effect, archive, PutManifest, PutLedger, PutFailures

\* The ledger stays behind the manifest.
LEMMA EffectOrdered ==
  ASSUME TypeOK, NEW w \in Workers, WorkerInv(w), Effect(w), started' = started,
         PublishedBeforeLedger, ledger.asOf <= started
  PROVE  PublishedBeforeLedger' /\ ledger'.asOf <= started'
<1>1. CASE pc[w] = "manifest" /\ PutManifest(w)
  <2>1. stamp[w] = started /\ ledger.asOf \in Int /\ started \in Int
    BY <1>1, IngestAssumption DEF WorkerInv, Placed, TypeOK
  <2>2. Target(job[w]) \in Datasets
    BY DEF Target
  <2>3. manifest'["canonical"].asOf \in {manifest["canonical"].asOf, stamp[w]} /\ ledger' = ledger
    BY <1>1, <2>2 DEF PutManifest, TypeOK
  <2> QED BY <2>1, <2>3 DEF PublishedBeforeLedger
<1>2. CASE pc[w] = "ledger" /\ PutLedger(w)
  <2>1. /\ ledger'.asOf = stamp[w] /\ (ledger'.rows => got[w] # {})
        /\ manifest' = manifest
    BY <1>2 DEF PutLedger
  <2>2. /\ stamp[w] = started /\ started \in Int
        /\ got[w] # {} => manifest["canonical"].asOf = stamp[w]
    BY <1>2, IngestAssumption DEF WorkerInv, Placed, Ordered, TypeOK
  <2> QED BY <2>1, <2>2 DEF PublishedBeforeLedger
<1>3. CASE UNCHANGED <<manifest, ledger>>
  BY <1>3 DEF PublishedBeforeLedger
<1> QED BY <1>1, <1>2, <1>3 DEF Effect, archive, PutPartition, PutFailures

\* What is owed stays in the archive.
LEMMA OwedKept ==
  ASSUME TypeOK, Growing, NEW c \in owed, \E ds \in Datasets : lake[ds][c[1]][c[2]] # 0
  PROVE  \E ds \in Datasets : lake'[ds][c[1]][c[2]] # 0
<1>1. c[1] \in Dates /\ c[2] \in Symbols
  BY DEF TypeOK
<1> QED BY <1>1 DEF Growing, Covers

\* A step that leaves the history alone and keeps what the worker knows.
LEMMA GoOn ==
  ASSUME OneWorker, TypeOK, SoloInv, NEW w \in Workers, Effect(w), UNCHANGED history,
         started' = started, WorkerInv(w)'
  PROVE  SoloInv'
<1>1. NothingLost'
  BY OwedKept, EffectGrows DEF SoloInv, NothingLost, history
<1>2. PublishedBeforeLedger' /\ ledger'.asOf <= started'
  BY EffectOrdered DEF SoloInv
<1>3. \A v \in Workers : WorkerInv(v)'
  BY DEF OneWorker
<1> QED BY <1>1, <1>2, <1>3 DEF SoloInv

LEMMA RaiseSolo ==
  ASSUME OneWorker, TypeOK, SoloInv, NEW w \in Workers, Effect(w), Raise(w)
  PROVE  SoloInv'
  BY GoOn, EndInv DEF Raise

\* A job that returns hands on all it has learned.
LEMMA ReturnSolo ==
  ASSUME OneWorker, TypeOK, SoloInv, NEW w \in Workers, Effect(w), UNCHANGED lake, Return(w),
         pc[w] # "idle", todo[w] = {}, got[w] \subseteq Cells(lake[Target(job[w])])
  PROVE  SoloInv'
<1>1. WorkerInv(w)' /\ started' = started
  BY EndInv DEF Return
<1>2. PublishedBeforeLedger' /\ ledger'.asOf <= started'
  BY <1>1, EffectOrdered DEF SoloInv
<1>3. \A c \in owed' : \E ds \in Datasets : lake'[ds][c[1]][c[2]] # 0
  <2>1. ASSUME NEW c \in got[w] PROVE \E ds \in Datasets : lake[ds][c[1]][c[2]] # 0
    BY <2>1 DEF Cells, Target
  <2> QED BY <2>1 DEF SoloInv, NothingLost, Return
<1>4. known' \cup Pending(queue') = Symbols
  <2>1. CASE job[w] = "ingest"
    <3>1. ok[w] \cup Pending(failed[w]) \cup todo[w] = Symbols
      BY <2>1 DEF SoloInv, WorkerInv, Accounted
    <3> QED BY <2>1, <3>1 DEF Return
  <2>2. CASE job[w] = "retry"
    <3>1. known \cup ok[w] \cup Pending(failed[w]) = Symbols
      BY <2>2 DEF SoloInv, WorkerInv, Accounted
    <3> QED BY <2>2, <3>1 DEF Return
  <2>3. CASE job[w] = "reconcile"
    BY <2>3 DEF SoloInv, NothingLost, Return
  <2> QED BY <2>1, <2>2, <2>3 DEF TypeOK
<1>5. \A v \in Workers : WorkerInv(v)'
  BY <1>1 DEF OneWorker
<1> QED BY <1>2, <1>3, <1>4, <1>5 DEF SoloInv, NothingLost

-----------------------------------------------------------------------------
(* The steps of one worker.                                                  *)

USE DEF Reading

\* While it collects, a worker only has to account for its securities.
LEMMA Collecting ==
  ASSUME NEW w \in Workers, pc[w]' = "fetch", job[w]' \in {"ingest", "retry"},
         stamp[w]' = started', started' > 0, Accounted(w)'
  PROVE  WorkerInv(w)'
  BY DEF WorkerInv, Placed, Fresh, Whole, Carried, Merged, Ordered

LEMMA StartSolo ==
  ASSUME OneWorker, TypeOK, SoloInv, NEW w \in Workers,
         StartIngest(w) \/ StartRetry(w) \/ StartReconcile(w)
  PROVE  SoloInv'
<1>0. pc[w] = "idle" /\ got[w] = {} /\ ok[w] = {}
  BY DEF StartIngest, StartRetry, StartReconcile, Start, SoloInv, WorkerInv, Placed
<1>1. UNCHANGED <<archive, history, ok, got>> /\ started' = started + 1 /\ started \in Nat
  BY IngestAssumption DEF StartIngest, StartRetry, StartReconcile, Start, TypeOK
<1>2. NothingLost' /\ PublishedBeforeLedger'
  BY <1>1 DEF SoloInv, NothingLost, PublishedBeforeLedger, archive, history
<1>3. ledger'.asOf <= started'
  BY <1>1, IngestAssumption DEF SoloInv, TypeOK, archive
<1>4. pc[w]' # "idle" /\ stamp[w]' = started' /\ started' > 0
  BY <1>1 DEF StartIngest, StartRetry, StartReconcile, Start, TypeOK
<1>5. ASSUME StartIngest(w) PROVE WorkerInv(w)'
  <2>1. job[w]' = "ingest" /\ pc[w]' = "fetch" /\ todo[w]' = Symbols
    BY <1>5 DEF StartIngest, Start, TypeOK
  <2>2. Accounted(w)'
    BY <1>0, <1>1, <2>1 DEF Accounted, Pending
  <2> QED BY <1>4, <2>1, <2>2, Collecting
<1>6. ASSUME StartRetry(w) PROVE WorkerInv(w)'
  <2>1. job[w]' = "retry" /\ pc[w]' = "fetch" /\ failed[w]' = queue /\ known' = known
    BY <1>1, <1>6 DEF StartRetry, Start, TypeOK, history
  <2>2. Accounted(w)'
    BY <1>0, <1>1, <2>1 DEF Accounted, SoloInv, NothingLost
  <2> QED BY <1>4, <2>1, <2>2, Collecting
<1>7. ASSUME StartReconcile(w) PROVE WorkerInv(w)'
  <2>1. /\ job[w]' = "reconcile" /\ pc[w]' = "list" /\ todo[w]' = {} /\ want[w]' = "canonical"
        /\ got[w]' = {}
    BY <1>0, <1>1, <1>7 DEF StartReconcile, Start, TypeOK
  <2> QED BY <1>4, <2>1 DEF WorkerInv, Placed, Accounted, Fresh, Whole, Carried, Merged, Ordered
<1>8. \A v \in Workers : WorkerInv(v)'
  <2>1. WorkerInv(w)'
    BY <1>5, <1>6, <1>7
  <2> QED BY <2>1 DEF OneWorker
<1> QED BY <1>2, <1>3, <1>8 DEF SoloInv

LEMMA FetchSolo ==
  ASSUME OneWorker, TypeOK, SoloInv, NEW w \in Workers, FetchOk(w) \/ FetchFails(w)
  PROVE  SoloInv'
<1>1. /\ pc[w] = "fetch" /\ Effect(w) /\ UNCHANGED <<history, started>>
      /\ pc[w]' = "fetch" /\ job[w]' = job[w] /\ stamp[w]' = stamp[w] /\ known' = known
  BY DEF FetchOk, FetchFails, Effect, history
<1>2. /\ job[w] \in {"ingest", "retry"} /\ stamp[w] = started /\ started > 0
  BY <1>1 DEF SoloInv, WorkerInv, Placed, TypeOK
<1>3. ASSUME NEW s \in Symbols, \A r \in Symbols \ {s} : failed[w]'[r] = failed[w][r],
             s \in ok[w]' \/ failed[w]'[s].attempts # 0,
             ok[w] \subseteq ok[w]', ok[w]' \subseteq Symbols,
             todo[w] \subseteq todo[w]' \cup {s}, todo[w]' \subseteq Symbols
      PROVE  Accounted(w)'
  <2>1. Pending(failed[w]) \subseteq Pending(failed[w]') \cup ok[w]'
    BY <1>3 DEF Pending
  <2>2. s \in ok[w]' \cup Pending(failed[w]')
    BY <1>3 DEF Pending
  <2>3. known \subseteq Symbols /\ Pending(failed[w]') \subseteq Symbols
    BY DEF TypeOK, Pending
  <2>4. CASE job[w] = "ingest"
    <3>1. ok[w] \cup Pending(failed[w]) \cup todo[w] = Symbols
      BY <1>1, <2>4 DEF SoloInv, WorkerInv, Accounted
    <3> QED BY <1>1, <1>3, <2>1, <2>2, <2>3, <2>4, <3>1 DEF Accounted
  <2>5. CASE job[w] = "retry"
    <3>1. known \cup ok[w] \cup Pending(failed[w]) = Symbols
      BY <1>1, <2>5 DEF SoloInv, WorkerInv, Accounted
    <3> QED BY <1>1, <1>3, <2>1, <2>2, <2>3, <2>5, <3>1 DEF Accounted
  <2> QED BY <1>2, <2>4, <2>5
<1>4. CASE FetchOk(w)
  <2>1. PICK s \in todo[w] :
          /\ ok' = [ok EXCEPT ![w] = @ \cup {s}]
          /\ todo' = [todo EXCEPT ![w] = @ \ {s}]
          /\ failed' = [failed EXCEPT ![w][s] = NoFailure]
    BY <1>4 DEF FetchOk
  <2>2. s \in Symbols
    BY DEF TypeOK
  <2>3. Accounted(w)'
    BY <1>3, <2>1, <2>2 DEF TypeOK
  <2> QED BY <1>1, <1>2, <2>3, Collecting, GoOn
<1>5. CASE FetchFails(w)
  <2>1. PICK s \in todo[w] :
          \/ UNCHANGED <<todo, failed>>
          \/ /\ todo' = [todo EXCEPT ![w] = @ \ {s}]
             /\ failed' = [failed EXCEPT ![w][s] = GivenUp(job[w], @)]
    BY <1>5 DEF FetchFails
  <2>2. s \in Symbols /\ ok' = ok
    BY <1>5 DEF FetchFails, TypeOK
  <2>3. ASSUME UNCHANGED <<todo, failed>> PROVE Accounted(w)'
    BY <1>1, <2>2, <2>3 DEF SoloInv, WorkerInv, Accounted
  <2>4. ASSUME todo' = [todo EXCEPT ![w] = @ \ {s}],
               failed' = [failed EXCEPT ![w][s] = GivenUp(job[w], @)]
        PROVE  Accounted(w)'
    <3>1. failed[w][s].attempts \in Nat /\ GivenUp(job[w], failed[w][s]).attempts # 0
      BY <2>2, IngestAssumption DEF GivenUp, TypeOK
    <3>2. failed[w]'[s].attempts # 0 /\ \A r \in Symbols \ {s} : failed[w]'[r] = failed[w][r]
      BY <2>2, <2>4, <3>1 DEF TypeOK
    <3>3. ok[w]' = ok[w] /\ todo[w]' = todo[w] \ {s} /\ todo[w] \subseteq Symbols /\ ok[w] \subseteq Symbols
      BY <2>2, <2>4 DEF TypeOK
    <3> QED BY <1>3, <2>2, <3>2, <3>3
  <2>5. Accounted(w)'
    BY <2>1, <2>3, <2>4
  <2> QED BY <1>1, <1>2, <2>5, Collecting, GoOn
<1> QED BY <1>4, <1>5

\* Everything is collected: the rows to be published are the collected ones.
LEMMA CollectedSolo ==
  ASSUME OneWorker, TypeOK, SoloInv, NEW w \in Workers, Collected(w)
  PROVE  SoloInv'
<1>1. pc[w] = "fetch" /\ todo[w] = {} /\ Effect(w)
  BY StepEffect DEF Collected, Step
<1>2. job[w] \in {"ingest", "retry"} /\ stamp[w] = started /\ started > 0 /\ Accounted(w)
  BY <1>1 DEF SoloInv, WorkerInv, Placed, TypeOK
<1>3. CASE got[w] # {}
  <2> DEFINE snap == [d \in Dates |-> [s \in Symbols |-> IF <<d, s>> \in got[w] THEN stamp[w] ELSE 0]]
  <2>1. /\ rows' = [rows EXCEPT ![w] = snap]
        /\ want' = [want EXCEPT ![w] = IF job[w] = "ingest" THEN "base" ELSE "own"]
        /\ pc' = [pc EXCEPT ![w] = "list"]
        /\ UNCHANGED <<archive, started, job, stamp, collect, parts, buf, history>>
    BY <1>1, <1>2, <1>3 DEF Collected
  <2>2. got[w] \subseteq Cells(snap)
    <3>1. ASSUME NEW c \in got[w] PROVE c \in Cells(snap)
      <4>1. c \in Dates \X Symbols /\ c = <<c[1], c[2]>>
        BY DEF TypeOK
      <4>2. snap[c[1]][c[2]] # 0
        BY <1>2, <4>1
      <4> QED BY <4>1, <4>2 DEF Cells
    <3> QED BY <3>1
  <2> HIDE DEF snap
  <2>3. /\ rows[w]' = snap /\ pc[w]' = "list" /\ got[w]' = got[w] /\ job[w]' = job[w]
        /\ want[w]' = IF job[w] = "ingest" THEN "base" ELSE "own"
        /\ todo[w]' = {} /\ stamp[w]' = stamp[w] /\ ok[w]' = ok[w] /\ failed[w]' = failed[w]
        /\ started' = started /\ known' = known
    BY <1>1, <2>1 DEF TypeOK, collect, history
  <2>4. WorkerInv(w)'
    BY <1>1, <1>2, <2>2, <2>3 DEF WorkerInv, Placed, Accounted, Fresh, Whole, Carried, Merged, Ordered
  <2> QED BY <1>1, <2>1, <2>4, GoOn
<1>4. CASE got[w] = {} /\ job[w] = "ingest"
  <2>1. /\ pc' = [pc EXCEPT ![w] = "ledger"]
        /\ UNCHANGED <<archive, started, job, stamp, collect, publish, history>>
    BY <1>1, <1>4 DEF Collected
  <2>2. pc[w]' = "ledger" /\ UNCHANGED <<started, job, stamp, todo, got, ok, failed, known>>
    BY <2>1 DEF TypeOK, collect, history
  <2>3. WorkerInv(w)'
    BY <1>1, <1>2, <1>4, <2>2 DEF WorkerInv, Placed, Accounted, Fresh, Whole, Carried, Merged, Ordered
  <2> QED BY <1>1, <2>1, <2>3, GoOn
<1>5. CASE got[w] = {} /\ job[w] = "retry"
  <2>1. Return(w) /\ UNCHANGED lake
    BY <1>1, <1>5 DEF Collected, archive
  <2> QED BY <1>1, <1>5, <2>1, ReturnSolo
<1> QED BY <1>2, <1>3, <1>4, <1>5

LEMMA ReadSolo ==
  ASSUME OneWorker, TypeOK, SoloInv, NEW w \in Workers, List(w) \/ ReadPartition(w)
  PROVE  SoloInv'
<1>1. /\ Reading(w) /\ UNCHANGED <<archive, started, job, stamp, collect, want, rows, history>>
      /\ Effect(w) /\ WorkerInv(w)
  BY DEF List, ReadPartition, Effect, SoloInv
<1>2. /\ pc[w]' = "read"
      /\ UNCHANGED <<lake, manifest, started, job, stamp, todo, got, ok, failed, want, rows, known>>
  BY <1>1 DEF List, ReadPartition, TypeOK, archive, collect, history
<1>3. Source(w) \in Datasets /\ Source(w)' = Source(w)
  <2>1. want[w] \in {"own", "canonical", "recovery", "base"}
    BY DEF TypeOK
  <2> QED BY <1>2, <2>1 DEF Source, Target
<1>4. Fresh(w)'
  <2>1. CASE List(w)
    <3>1. parts[w]' = Filled(lake[Source(w)]) /\ buf[w]' = NoRows
      BY <2>1 DEF List, TypeOK
    <3>2. lake[Source(w)] \in Snapshot
      BY <1>3 DEF TypeOK
    <3> QED BY <1>2, <1>3, <3>1, <3>2, EmptyPartition DEF Fresh
  <2>2. CASE ReadPartition(w)
    <3>1. PICK d \in parts[w] :
            /\ buf' = [buf EXCEPT ![w][d] = lake[Source(w)][d]]
            /\ parts' = [parts EXCEPT ![w] = @ \ {d}]
      BY <2>2 DEF ReadPartition
    <3>2. d \in Dates /\ pc[w] = "read"
      BY <2>2 DEF TypeOK, ReadPartition
    <3>3. /\ buf[w]'[d] = lake[Source(w)][d] /\ \A e \in Dates \ {d} : buf[w]'[e] = buf[w][e]
          /\ parts[w]' = parts[w] \ {d}
      BY <3>1, <3>2 DEF TypeOK
    <3> QED BY <1>1, <1>2, <1>3, <3>2, <3>3 DEF Fresh, WorkerInv
  <2> QED BY <2>1, <2>2
<1>5. WorkerInv(w)'
  BY <1>1, <1>2, <1>4 DEF WorkerInv, Placed, Accounted, Whole, Carried, Merged, Ordered
<1> QED BY <1>1, <1>5, GoOn

LEMMA RequestFailsSolo ==
  ASSUME OneWorker, TypeOK, SoloInv, NEW w \in Workers, RequestFails(w)
  PROVE  SoloInv'
  BY RaiseSolo DEF RequestFails, Effect

\* The rows are replaced by rows that have all that was collected.
LEMMA ThenReadSolo ==
  ASSUME OneWorker, TypeOK, SoloInv, NEW w \in Workers, NEW snap, NEW what,
         pc[w] = "read", ThenRead(w, snap, what), got[w] \subseteq Cells(snap),
         what \in {"base", "recovery"}, what = "recovery" => job[w] = "reconcile",
         job[w] = "reconcile" => /\ Keeps(snap, lake["canonical"])
                                 /\ what = "base" => Cells(lake["recovery"]) \subseteq Cells(snap)
  PROVE  SoloInv'
<1>1. Effect(w) /\ UNCHANGED <<history, started>> /\ WorkerInv(w)
  BY DEF ThenRead, Effect, SoloInv
<1>2. /\ rows[w]' = snap /\ want[w]' = what /\ pc[w]' = "list"
      /\ UNCHANGED <<lake, started, job, stamp, todo, got, ok, failed, known>>
  BY DEF ThenRead, TypeOK, archive, collect, history
<1>3. WorkerInv(w)'
  BY <1>1, <1>2 DEF WorkerInv, Placed, Accounted, Fresh, Whole, Carried, Merged, Ordered
<1> QED BY <1>1, <1>3, GoOn

LEMMA CombineSolo ==
  ASSUME OneWorker, TypeOK, SoloInv, NEW w \in Workers, CombineRecovery(w) \/ TakeCanonical(w)
  PROVE  SoloInv'
<1>1. rows[w] \in Snapshot /\ buf[w] \in Snapshot /\ WorkerInv(w)
  BY DEF TypeOK, SoloInv
<1>2. CASE CombineRecovery(w)
  <2>1. pc[w] = "read" /\ want[w] = "own" /\ ThenRead(w, Newest(rows[w], buf[w]), "base")
    BY <1>2 DEF CombineRecovery, ReadAll
  <2>2. job[w] = "retry" /\ got[w] \subseteq Cells(rows[w])
    BY <1>1, <2>1 DEF WorkerInv, Placed, Carried
  <2>3. got[w] \subseteq Cells(Newest(rows[w], buf[w]))
    BY <1>1, <2>2, OverlayFacts, CoversCells
  <2> QED BY <2>1, <2>2, <2>3, ThenReadSolo
<1>3. CASE TakeCanonical(w)
  <2>1. pc[w] = "read" /\ parts[w] = {} /\ want[w] = "canonical" /\ ThenRead(w, buf[w], "recovery")
    BY <1>3 DEF TakeCanonical, ReadAll
  <2>2. job[w] = "reconcile" /\ got[w] = {} /\ buf[w] = lake["canonical"]
    BY <1>1, <2>1, ReadAllFresh DEF WorkerInv, Placed, Source
  <2>3. Keeps(buf[w], lake["canonical"])
    BY <2>2 DEF Keeps
  <2> QED BY <2>1, <2>2, <2>3, ThenReadSolo
<1> QED BY <1>2, <1>3

LEMMA MergeSolo ==
  ASSUME OneWorker, TypeOK, SoloInv, NEW w \in Workers, MergeRecovery(w)
  PROVE  SoloInv'
<1> DEFINE merged == Overlay(rows[w], buf[w])
<1>1. rows[w] \in Snapshot /\ buf[w] \in Snapshot /\ WorkerInv(w)
  BY DEF TypeOK, SoloInv
<1>2. pc[w] = "read" /\ parts[w] = {} /\ want[w] = "recovery"
  BY DEF MergeRecovery, ReadAll
<1>3. job[w] = "reconcile" /\ got[w] = {} /\ buf[w] = lake["recovery"] /\ todo[w] = {}
  BY <1>1, <1>2, ReadAllFresh DEF WorkerInv, Placed, Source
<1>4. Keeps(rows[w], lake["canonical"])
  BY <1>1, <1>2, <1>3 DEF WorkerInv, Merged
<1>5. /\ Keeps(merged, rows[w]) /\ Cells(lake["recovery"]) \subseteq Cells(merged)
  BY <1>1, <1>3, OverlayFacts, CoversCells
<1>6. \/ ThenRead(w, merged, "base")
      \/ Return(w) /\ UNCHANGED archive
  BY DEF MergeRecovery, Merge
<1> HIDE DEF merged
<1>7. Keeps(merged, lake["canonical"])
  BY <1>4, <1>5 DEF Keeps
<1>8. CASE ThenRead(w, merged, "base")
  BY <1>2, <1>3, <1>5, <1>7, <1>8, ThenReadSolo
<1>9. CASE Return(w) /\ UNCHANGED archive
  BY <1>2, <1>3, <1>9, ReturnSolo DEF Effect, archive
<1> QED BY <1>6, <1>8, <1>9

\* The current snapshot is read in full before the rows are laid over it.
LEMMA BuildSolo ==
  ASSUME OneWorker, TypeOK, SoloInv, NEW w \in Workers, Build(w)
  PROVE  SoloInv'
<1> DEFINE unique == Overlay(rows[w], buf[w])
<1>1. rows[w] \in Snapshot /\ buf[w] \in Snapshot /\ WorkerInv(w) /\ unique \in Snapshot
  BY OverlayTypes DEF TypeOK, SoloInv
<1>2. pc[w] = "read" /\ parts[w] = {} /\ want[w] = "base"
  BY DEF Build, ReadAll
<1>3. buf[w] = lake[Target(job[w])]
  BY <1>1, <1>2, ReadAllFresh DEF WorkerInv, Source
<1>4. Effect(w) /\ UNCHANGED <<history, started>>
  BY DEF Build, Effect
<1>5. /\ Covers(unique, rows[w]) /\ Covers(unique, buf[w]) /\ Keeps(unique, rows[w])
  BY <1>1, OverlayFacts
<1>6. /\ rows[w]' = unique /\ parts[w]' = Filled(unique) /\ pc[w]' = "upload"
      /\ UNCHANGED <<lake, started, job, stamp, todo, got, ok, failed, want, known>>
  BY DEF Build, TypeOK, archive, collect, history
<1>7. \A d \in Dates \ Filled(unique) : unique[d] = NoRows[d] /\ buf[w][d] = NoRows[d]
  <2>1. ASSUME NEW d \in Dates \ Filled(unique) PROVE d \notin Filled(buf[w])
    BY <1>5 DEF Covers, Filled
  <2> HIDE DEF unique, Snapshot
  <2> QED BY <1>1, <2>1, EmptyPartition
<1> HIDE DEF unique
<1>8. Whole(w)'
  BY <1>3, <1>5, <1>6, <1>7 DEF Whole
<1>9. got[w] \subseteq Cells(unique)
  BY <1>1, <1>2, <1>5, CoversCells DEF WorkerInv, Carried
<1>10. ASSUME job[w] = "reconcile"
       PROVE  Keeps(unique, lake["canonical"]) /\ Cells(lake["recovery"]) \subseteq Cells(unique)
  <2>1. Keeps(rows[w], lake["canonical"]) /\ Cells(lake["recovery"]) \subseteq Cells(rows[w])
    BY <1>1, <1>2, <1>10 DEF WorkerInv, Merged
  <2>2. Keeps(unique, lake["canonical"])
    BY <1>5, <2>1 DEF Keeps
  <2> QED BY <1>5, <2>1, <2>2, CoversCells
<1>11. WorkerInv(w)'
  BY <1>1, <1>2, <1>6, <1>8, <1>9, <1>10
     DEF WorkerInv, Placed, Accounted, Fresh, Carried, Merged, Ordered
<1> QED BY <1>4, <1>11, GoOn

LEMMA UploadSolo ==
  ASSUME OneWorker, TypeOK, SoloInv, NEW w \in Workers, UploadPartition(w)
  PROVE  SoloInv'
<1>1. PICK d \in parts[w] :
        \/ /\ PutPartition(w, d)
           /\ parts' = [parts EXCEPT ![w] = @ \ {d}]
           /\ UNCHANGED <<started, pc, job, stamp, collect, want, buf, rows, history>>
        \/ Raise(w)
  BY DEF UploadPartition, UploadFails
<1>2. pc[w] = "upload" /\ d \in Dates /\ Effect(w) /\ WorkerInv(w)
  BY StepEffect DEF UploadPartition, TypeOK, Step, SoloInv
<1>3. CASE Raise(w)
  BY <1>2, <1>3, RaiseSolo
<1>4. CASE /\ PutPartition(w, d)
           /\ parts' = [parts EXCEPT ![w] = @ \ {d}]
           /\ UNCHANGED <<started, pc, job, stamp, collect, want, buf, rows, history>>
  <2> DEFINE ds == Target(job[w])
  <2>1. /\ parts[w]' = parts[w] \ {d}
        /\ UNCHANGED <<started, pc, job, stamp, todo, got, ok, failed, want, rows, known>>
    BY <1>4 DEF TypeOK, collect, history
  <2>2. /\ lake'[ds][d] = rows[w][d] /\ \A e \in Dates \ {d} : lake'[ds][e] = lake[ds][e]
        /\ \A e \in Datasets \ {ds} : lake'[e] = lake[e]
    BY <1>4, PutLake
  <2>3. Covers(rows[w], lake[ds]) /\ \A e \in Dates \ parts[w] : lake[ds][e] = rows[w][e]
    BY <1>2 DEF WorkerInv, Whole
  <2>4. Covers(rows[w], lake'[ds]) /\ \A e \in Dates \ parts[w]' : lake'[ds][e] = rows[w][e]
    BY <2>1, <2>2, <2>3 DEF Covers
  <2>5. Whole(w)'
    BY <1>2, <2>1, <2>4 DEF Whole
  <2>6. Merged(w)'
    <3> SUFFICES ASSUME job[w] = "reconcile" PROVE Merged(w)'
      BY <2>1 DEF Merged
    <3>1. Keeps(rows[w], lake["canonical"]) /\ Cells(lake["recovery"]) \subseteq Cells(rows[w])
      BY <1>2 DEF WorkerInv, Merged
    <3>2. ds = "canonical" /\ lake'["recovery"] = lake["recovery"]
      BY <2>2 DEF Target
    <3>3. Keeps(rows[w], lake'["canonical"])
      BY <2>2, <3>1, <3>2 DEF Keeps
    <3> QED BY <1>2, <2>1, <3>1, <3>2, <3>3 DEF Merged
  <2>7. WorkerInv(w)'
    BY <1>2, <2>1, <2>5, <2>6 DEF WorkerInv, Placed, Accounted, Fresh, Carried, Ordered
  <2> QED BY <1>2, <1>4, <2>7, GoOn
<1> QED BY <1>1, <1>3, <1>4

LEMMA IndexSolo ==
  ASSUME OneWorker, TypeOK, SoloInv, NEW w \in Workers, UploadIndex(w)
  PROVE  SoloInv'
<1>1. pc[w] = "upload" /\ parts[w] = {} /\ Effect(w) /\ WorkerInv(w)
  BY StepEffect DEF UploadIndex, Uploaded, UploadFails, Step, SoloInv
<1>2. CASE Raise(w)
  BY <1>1, <1>2, RaiseSolo
<1>3. CASE Uploaded(w, "upload", "manifest", UNCHANGED archive)
  <2>1. /\ pc[w]' = "manifest"
        /\ UNCHANGED <<lake, started, job, stamp, todo, got, ok, failed, want, rows, known, history>>
    BY <1>3 DEF Uploaded, TypeOK, archive, collect, publish, history
  <2>2. lake[Target(job[w])] = rows[w]
    <3>1. \A d \in Dates : lake[Target(job[w])][d] = rows[w][d]
      BY <1>1 DEF WorkerInv, Whole
    <3>2. lake[Target(job[w])] \in Snapshot /\ rows[w] \in Snapshot
      BY DEF TypeOK, Target
    <3> HIDE DEF Snapshot
    <3> QED BY <3>1, <3>2, SameSnapshot
  <2>3. WorkerInv(w)'
    BY <1>1, <2>1, <2>2 DEF WorkerInv, Placed, Accounted, Fresh, Whole, Carried, Merged, Ordered
  <2> QED BY <1>1, <2>1, <2>3, GoOn
<1> QED BY <1>2, <1>3 DEF UploadIndex, UploadFails

LEMMA ManifestSolo ==
  ASSUME OneWorker, TypeOK, SoloInv, NEW w \in Workers, UploadManifest(w)
  PROVE  SoloInv'
<1>1. pc[w] = "manifest" /\ Effect(w) /\ WorkerInv(w)
  BY StepEffect DEF UploadManifest, Uploaded, UploadFails, Step, SoloInv
<1>2. CASE Raise(w)
  BY <1>1, <1>2, RaiseSolo
<1>3. CASE Uploaded(w, "manifest", AfterManifest(job[w]), PutManifest(w))
  <2>1. /\ pc[w]' = AfterManifest(job[w])
        /\ UNCHANGED <<lake, started, job, stamp, todo, got, ok, failed, known, history>>
    BY <1>3 DEF Uploaded, PutManifest, TypeOK, collect, publish, history
  <2>2. job[w] = "ingest" => manifest'["canonical"].asOf = stamp[w]
    BY <1>3 DEF Uploaded, PutManifest, Target, TypeOK
  <2>3. WorkerInv(w)'
    BY <1>1, <2>1, <2>2
       DEF WorkerInv, Placed, Accounted, Fresh, Whole, Carried, Merged, Ordered, AfterManifest
  <2> QED BY <1>1, <2>1, <2>3, GoOn
<1> QED BY <1>2, <1>3 DEF UploadManifest, UploadFails

LEMMA LedgerSolo ==
  ASSUME OneWorker, TypeOK, SoloInv, NEW w \in Workers, UploadLedger(w)
  PROVE  SoloInv'
<1>1. pc[w] = "ledger" /\ Effect(w) /\ WorkerInv(w)
  BY StepEffect DEF UploadLedger, Uploaded, UploadFails, Step, SoloInv
<1>2. CASE Raise(w)
  BY <1>1, <1>2, RaiseSolo
<1>3. CASE Uploaded(w, "ledger", "failures", PutLedger(w))
  <2>1. /\ pc[w]' = "failures"
        /\ UNCHANGED <<lake, started, job, stamp, todo, got, ok, failed, known, history>>
    BY <1>3 DEF Uploaded, PutLedger, TypeOK, collect, publish, history
  <2>2. WorkerInv(w)'
    BY <1>1, <2>1 DEF WorkerInv, Placed, Accounted, Fresh, Whole, Carried, Merged, Ordered
  <2> QED BY <1>1, <2>1, <2>2, GoOn
<1> QED BY <1>2, <1>3 DEF UploadLedger, UploadFails

\* The job hands its results to its caller.
LEMMA HandOverSolo ==
  ASSUME OneWorker, TypeOK, SoloInv, NEW w \in Workers, Published(w) \/ UploadFailures(w)
  PROVE  SoloInv'
<1>1. pc[w] \in {"return", "failures"} /\ Effect(w) /\ WorkerInv(w)
  BY StepEffect DEF Published, UploadFailures, UploadFails, Step, SoloInv
<1>2. todo[w] = {} /\ got[w] \subseteq Cells(lake[Target(job[w])])
  BY <1>1 DEF WorkerInv, Placed, Carried
<1>3. CASE Raise(w)
  BY <1>1, <1>3, RaiseSolo
<1>4. CASE Return(w) /\ UNCHANGED lake
  BY <1>1, <1>2, <1>4, ReturnSolo
<1> QED BY <1>3, <1>4 DEF Published, UploadFailures, UploadFails, PutFailures, archive

LEMMA NextSolo == OneWorker /\ TypeOK /\ SoloInv /\ [Next]_vars => SoloInv'
<1> SUFFICES ASSUME OneWorker, TypeOK, SoloInv, [Next]_vars PROVE SoloInv'
  OBVIOUS
<1>1. CASE UNCHANGED vars
  <2>1. UNCHANGED <<lake, manifest, ledger, started, pc, job, stamp, todo, got, ok, failed, want,
                    parts, buf, rows, queue, known, owed>>
    BY <1>1 DEF vars, archive, collect, publish, history
  <2>2. NothingLost' /\ PublishedBeforeLedger' /\ ledger'.asOf <= started'
    BY <2>1 DEF SoloInv, NothingLost, PublishedBeforeLedger
  <2>3. ASSUME NEW w \in Workers PROVE WorkerInv(w)'
    <3>1. WorkerInv(w) /\ Source(w)' = Source(w)
      BY <2>1 DEF SoloInv, Source
    <3> QED BY <2>1, <3>1 DEF WorkerInv, Placed, Accounted, Fresh, Whole, Carried, Merged, Ordered
  <2> QED BY <2>2, <2>3 DEF SoloInv
<1>2. CASE Next
  BY <1>2, StartSolo, FetchSolo, CollectedSolo, ReadSolo, RequestFailsSolo, CombineSolo, MergeSolo,
     BuildSolo, UploadSolo, IndexSolo, ManifestSolo, LedgerSolo, HandOverSolo DEF Next, Step
<1> QED BY <1>1, <1>2

LEMMA SpecSolo == OneWorker /\ Spec => [](TypeOK /\ SoloInv)
<1>1. Spec => []TypeOK
  BY IngestTypeCorrect
<1>2. OneWorker /\ Spec => []SoloInv
  <2> SUFFICES ASSUME OneWorker PROVE Spec => []SoloInv
    OBVIOUS
  <2>1. TypeOK /\ SoloInv /\ [Next]_vars => SoloInv'
    BY NextSolo
  <2> QED BY <1>1, <2>1, InitSolo, PTL DEF Spec
<1> QED BY <1>1, <1>2, PTL

-----------------------------------------------------------------------------
(* What one worker guarantees.                                               *)

\* With one worker, whatever fails, every row delivered to a job that returned
\* is in one of the datasets, and every security of the last pipeline run is
\* collected or in the failure queue its caller holds.
THEOREM SoloNothingLost == OneWorker /\ Spec => []NothingLost
<1>1. SoloInv => NothingLost
  BY DEF SoloInv
<1> QED BY <1>1, SpecSolo, PTL

\* With one worker, a run manifest that counts rows is never ahead of the
\* dataset manifest.
THEOREM SoloPublishedBeforeLedger == OneWorker /\ Spec => []PublishedBeforeLedger
<1>1. SoloInv => PublishedBeforeLedger
  BY DEF SoloInv
<1> QED BY <1>1, SpecSolo, PTL

\* With one worker, no step drops a row from a dataset: build reads the whole
\* current snapshot before any partition is replaced.
THEOREM SoloNothingErased == OneWorker /\ Spec => NothingErased
<1>1. ASSUME TypeOK, SoloInv, [Next]_vars
      PROVE  [\A ds \in Datasets, d \in Dates, s \in Symbols :
                lake[ds][d][s] # 0 => lake'[ds][d][s] # 0]_vars
  <2>1. CASE UNCHANGED vars
    BY <2>1
  <2>2. CASE Next
    <3>1. PICK w \in Workers : Effect(w)
      BY <2>2, StepEffect DEF Next
    <3>2. Growing
      BY <1>1, <3>1, EffectGrows DEF SoloInv
    <3> QED BY <3>2 DEF Growing, Covers
  <2> QED BY <1>1, <2>1, <2>2
<1> QED BY <1>1, SpecSolo, PTL DEF Spec, NothingErased

\* With one worker, a dataset manifest is written only when the partition
\* files hold the rows it describes.
THEOREM SoloManifestMatches == OneWorker /\ Spec => ManifestMatches
<1>1. ASSUME TypeOK, SoloInv, [Next]_vars
      PROVE  [\A ds \in Datasets :
                manifest'[ds] # manifest[ds] => lake'[ds] = manifest'[ds].parts]_vars
  <2>1. CASE UNCHANGED vars
    BY <2>1
  <2>2. CASE Next
    <3>1. PICK w \in Workers : Effect(w)
      BY <2>2, StepEffect DEF Next
    <3>2. CASE pc[w] = "manifest" /\ PutManifest(w)
      <4>1. lake[Target(job[w])] = rows[w] /\ Target(job[w]) \in Datasets
        BY <1>1, <3>2 DEF SoloInv, WorkerInv, Whole, Target
      <4>2. /\ manifest'[Target(job[w])].parts = rows[w] /\ lake' = lake
            /\ \A ds \in Datasets \ {Target(job[w])} : manifest'[ds] = manifest[ds]
        BY <1>1, <3>2, <4>1 DEF PutManifest, TypeOK
      <4> QED BY <4>1, <4>2
    <3>3. CASE UNCHANGED manifest
      BY <3>3
    <3> QED BY <3>1, <3>2, <3>3 DEF Effect, archive, PutPartition, PutLedger, PutFailures
  <2> QED BY <1>1, <2>1, <2>2
<1> QED BY <1>1, SpecSolo, PTL DEF Spec, ManifestMatches

\* With one worker, a reconciliation changes no canonical row, and when its
\* manifest is written every recovered row is in the canonical dataset.
THEOREM SoloReconcileFillsGaps == OneWorker /\ Spec => ReconcileFillsGaps
<1> SUFFICES ASSUME OneWorker PROVE Spec => ReconcileFillsGaps
  OBVIOUS
<1> DEFINE Fills ==
      /\ \A c \in Cells(lake["canonical"]) :
             lake'["canonical"][c[1]][c[2]] = lake["canonical"][c[1]][c[2]]
      /\ manifest' # manifest => Cells(lake["recovery"]) \subseteq Cells(lake'["canonical"])
<1>1. ASSUME TypeOK, SoloInv, [Next]_vars
      PROVE  [\A w \in Workers : job[w] = "reconcile" /\ pc[w] # "idle" => Fills]_vars
  <2>1. CASE UNCHANGED vars
    BY <2>1
  <2>2. CASE Next
    <3>1. SUFFICES ASSUME NEW w \in Workers, job[w] = "reconcile", pc[w] # "idle"
                   PROVE  Fills
      OBVIOUS
    <3>2. Effect(w) /\ WorkerInv(w)
      BY <1>1, <2>2, StepEffect DEF Next, OneWorker, SoloInv
    <3>3. CASE pc[w] = "upload" /\ \E d \in parts[w] : PutPartition(w, d)
      <4>1. PICK d \in parts[w] : PutPartition(w, d)
        BY <3>3
      <4>2. Keeps(rows[w], lake["canonical"]) /\ Target(job[w]) = "canonical"
        BY <3>1, <3>2, <3>3 DEF WorkerInv, Merged, Target
      <4>3. \A e \in Dates, s \in Symbols :
              lake["canonical"][e][s] # 0 => lake'["canonical"][e][s] = lake["canonical"][e][s]
        BY <1>1, <4>1, <4>2, PutLake DEF Keeps
      <4> QED BY <4>1, <4>3 DEF Cells, PutPartition
    <3>4. CASE pc[w] = "manifest" /\ PutManifest(w)
      <4>1. Cells(lake["recovery"]) \subseteq Cells(rows[w]) /\ lake["canonical"] = rows[w]
        BY <3>1, <3>2, <3>4 DEF WorkerInv, Merged, Whole, Target
      <4> QED BY <3>4, <4>1 DEF PutManifest
    <3>5. CASE UNCHANGED <<lake, manifest>>
      BY <3>5
    <3> QED BY <3>2, <3>3, <3>4, <3>5 DEF Effect, archive, PutLedger, PutFailures
  <2> QED BY <1>1, <2>1, <2>2
<1> QED BY <1>1, SpecSolo, PTL DEF Spec, ReconcileFillsGaps
=============================================================================
