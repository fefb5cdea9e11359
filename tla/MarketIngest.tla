---------------------------- MODULE MarketIngest ----------------------------
(***************************************************************************)
(* The market data archive and the three jobs that publish to it:          *)
(*   ingest     IngestionPipeline.run: collect every security with bounded  *)
(*              retries, publish the canonical dataset, write the ledger;   *)
(*   retry      IngestionRetryService.run: collect the failed securities of *)
(*              a failure queue, publish the recovery dataset;              *)
(*   reconcile  reconcile_from_drive: merge recovery into canonical.        *)
(* A worker is a process that runs one job after the other.  Every request  *)
(* to the provider or to the archive is a step of its own and may fail; a   *)
(* failed upload may still have taken effect (the answer was lost).  The    *)
(* archive has no lock and no transaction.                                  *)
(*                                                                          *)
(* A row is abstracted to its available_at, which is the number of the job  *)
(* that fetched it; 0 says that there is no row.  A security stands for a   *)
(* (market, symbol) pair and a date for a partition.                        *)
(***************************************************************************)
EXTENDS Integers, FiniteSets

CONSTANTS Workers,      \* processes that publish to the archive
          Symbols,      \* the active securities, numbered in sorted order
          Dates,        \* the trade dates of the requested window
          Payloads,     \* the sets of dates a provider may have prices for
          MaxRetries,   \* fetches per security in a pipeline run
          MaxAttempts,  \* the retry service's max_attempts
          MaxJobs       \* bound on the number of jobs

ASSUME IngestAssumption ==
    /\ Symbols \subseteq Nat /\ IsFiniteSet(Symbols)
    /\ Dates \subseteq Nat /\ IsFiniteSet(Dates)
    /\ Payloads \subseteq SUBSET Dates
    /\ MaxRetries \in Nat \ {0} /\ MaxAttempts \in Nat \ {0} /\ MaxJobs \in Nat

Datasets == {"canonical", "recovery"}
Jobs     == {"ingest", "retry", "reconcile"}
Stamps   == 0 .. MaxJobs
Snapshot == [Dates -> [Symbols -> Stamps]]
NoRows   == [d \in Dates |-> [s \in Symbols |-> 0]]

\* IngestionFailure and FailureQueue: one failure at most per security and
\* window; attempts = 0 says that the security is not in the queue.
Failure    == [attempts : Nat, retryable : BOOLEAN]
NoFailure  == [attempts |-> 0, retryable |-> FALSE]
NoFailures == [s \in Symbols |-> NoFailure]

VARIABLES
    lake,       \* the rows of every partition file of every dataset
    manifest,   \* per dataset, the latest manifest.json: as_of and contents
    ledger,     \* runs/<market>/<run_id>/manifest.json: one file for a window
    failures,   \* runs/<market>/<run_id>/failures.jsonl
    queue,      \* the failure queue the last finished job gave its caller
    started,    \* number of jobs started: the clock behind available_at
    pc, job, stamp,     \* per worker: place, job and available_at
    todo, attempt,      \* securities still to be collected, attempts made
    got, ok, failed,    \* rows, ok symbols and failures of the job
    want, parts, buf,   \* the read or upload under way
    rows,               \* what the job is going to publish
    known, owed         \* history: securities and rows of the finished jobs

archive == <<lake, manifest, ledger, failures>>
collect == <<todo, attempt, got, ok, failed>>
publish == <<want, parts, buf, rows>>
history == <<queue, known, owed>>
vars    == <<archive, started, pc, job, stamp, collect, publish, history>>

Cells(snap)    == {c \in Dates \X Symbols : snap[c[1]][c[2]] # 0}
Filled(snap)   == {d \in Dates : \E s \in Symbols : snap[d][s] # 0}
Pending(q)     == {s \in Symbols : q[s].attempts # 0}
Smallest(s, S) == s \in S /\ \A r \in S : s <= r

\* TypeOK: archive, queue and locals keep their types; a security is never
\* fetched more often than its job allows.
TypeOK ==
    /\ lake \in [Datasets -> Snapshot]
    /\ manifest \in [Datasets -> [asOf : Stamps, parts : Snapshot]]
    /\ ledger \in [asOf : Stamps, rows : BOOLEAN,
                   status : {"none", "completed", "completed_with_failures", "failed"},
                   failed : 0 .. Cardinality(Symbols)]
    /\ failures \in [Symbols -> Failure]
    /\ queue \in [Symbols -> Failure]
    /\ started \in Stamps
    /\ pc \in [Workers -> {"idle", "fetch", "list", "read", "upload",
                           "manifest", "ledger", "failures", "return"}]
    /\ job \in [Workers -> Jobs] /\ stamp \in [Workers -> Stamps]
    /\ todo \in [Workers -> SUBSET Symbols] /\ attempt \in [Workers -> 1 .. MaxRetries]
    /\ got \in [Workers -> SUBSET (Dates \X Symbols)]
    /\ ok \in [Workers -> SUBSET Symbols]
    /\ failed \in [Workers -> [Symbols -> Failure]]
    /\ want \in [Workers -> {"own", "canonical", "recovery", "base"}]
    /\ parts \in [Workers -> SUBSET Dates]
    /\ buf \in [Workers -> Snapshot] /\ rows \in [Workers -> Snapshot]
    /\ known \in SUBSET Symbols /\ owed \in SUBSET (Dates \X Symbols)

\* An empty archive, and nothing asked for yet.
Init ==
    /\ lake = [ds \in Datasets |-> NoRows]
    /\ manifest = [ds \in Datasets |-> [asOf |-> 0, parts |-> NoRows]]
    /\ ledger = [asOf |-> 0, rows |-> FALSE, status |-> "none", failed |-> 0]
    /\ failures = NoFailures
    /\ queue = NoFailures /\ known = Symbols /\ owed = {}
    /\ started = 0
    /\ pc = [w \in Workers |-> "idle"] /\ job = [w \in Workers |-> "ingest"]
    /\ stamp = [w \in Workers |-> 0]
    /\ todo = [w \in Workers |-> {}] /\ attempt = [w \in Workers |-> 1]
    /\ got = [w \in Workers |-> {}] /\ ok = [w \in Workers |-> {}]
    /\ failed = [w \in Workers |-> NoFailures]
    /\ want = [w \in Workers |-> "base"] /\ parts = [w \in Workers |-> {}]
    /\ buf = [w \in Workers |-> NoRows] /\ rows = [w \in Workers |-> NoRows]

-----------------------------------------------------------------------------
(* Starting and ending a job. *)

\* The failures the retry service will try again.  A pipeline run whose
\* MaxRetries is MaxAttempts or more leaves it nothing to do.
Retryable(q) == {s \in Symbols : /\ q[s].attempts # 0
                                 /\ q[s].retryable
                                 /\ q[s].attempts < MaxAttempts}

Start(w, j, place, symbols, input) ==
    /\ pc[w] = "idle" /\ started < MaxJobs
    /\ started' = started + 1
    /\ job' = [job EXCEPT ![w] = j]
    /\ stamp' = [stamp EXCEPT ![w] = started + 1]
    /\ pc' = [pc EXCEPT ![w] = place]
    /\ todo' = [todo EXCEPT ![w] = symbols]
    /\ failed' = [failed EXCEPT ![w] = input]
    /\ want' = [want EXCEPT ![w] = "canonical"]
    /\ UNCHANGED <<archive, history, attempt, got, ok, parts, buf, rows>>

StartIngest(w)    == Start(w, "ingest", "fetch", Symbols, NoFailures)
StartRetry(w)     == Start(w, "retry", "fetch", Retryable(queue), queue)
StartReconcile(w) == Start(w, "reconcile", "list", {}, NoFailures)

\* The local variables of a job are gone when it ends.
End(w) ==
    /\ pc' = [pc EXCEPT ![w] = "idle"]
    /\ stamp' = [stamp EXCEPT ![w] = 0]
    /\ todo' = [todo EXCEPT ![w] = {}] /\ attempt' = [attempt EXCEPT ![w] = 1]
    /\ got' = [got EXCEPT ![w] = {}] /\ ok' = [ok EXCEPT ![w] = {}]
    /\ failed' = [failed EXCEPT ![w] = NoFailures]
    /\ parts' = [parts EXCEPT ![w] = {}]
    /\ buf' = [buf EXCEPT ![w] = NoRows] /\ rows' = [rows EXCEPT ![w] = NoRows]
    /\ UNCHANGED <<started, job, want>>

\* A job that raises gives its caller nothing; what it uploaded stays.
Raise(w) == End(w) /\ UNCHANGED history

\* A job that returns: the caller gets the failures that remain.
Return(w) ==
    /\ End(w)
    /\ queue' = IF job[w] = "reconcile" THEN queue ELSE failed[w]
    /\ known' = CASE job[w] = "ingest" -> ok[w]
                  [] job[w] = "retry"  -> known \cup ok[w]
                  [] OTHER             -> known
    /\ owed' = owed \cup got[w]

-----------------------------------------------------------------------------
(* ResilientDailyCollector.collect, with persist = False. *)

\* The provider answers and every row of the payload is normalised; an empty
\* payload counts as a success.
FetchOk(w) ==
    /\ pc[w] = "fetch"
    /\ \E s \in todo[w], days \in Payloads :
        /\ Smallest(s, todo[w])
        /\ got' = [got EXCEPT ![w] = @ \cup (days \X {s})]
        /\ ok' = [ok EXCEPT ![w] = @ \cup {s}]
        /\ todo' = [todo EXCEPT ![w] = @ \ {s}]
        /\ failed' = [failed EXCEPT ![w][s] = NoFailure]
    /\ attempt' = [attempt EXCEPT ![w] = 1]
    /\ UNCHANGED <<archive, started, pc, job, stamp, publish, history>>

\* The record of a security that has used up its attempts: the pipeline's
\* failures say retryable whatever happened, the retry service's say so while
\* attempts are left.
GivenUp(j, old) ==
    IF j = "ingest"
    THEN [attempts |-> MaxRetries, retryable |-> TRUE]
    ELSE [attempts |-> old.attempts + 1, retryable |-> old.attempts + 1 < MaxAttempts]

\* A mutation: the last attempt is made once too often.
Attempts_OneMore(j) == IF j = "ingest" THEN MaxRetries + 1 ELSE 1

\* range(1, max_retries + 1); the retry service builds its collector with 1.
Attempts(j) == IF j = "ingest" THEN MaxRetries ELSE 1

\* A mutation: the failure of a security is forgotten instead of queued.
FetchFails_Forgotten(w) ==
    /\ pc[w] = "fetch"
    /\ \E s \in todo[w] :
        /\ Smallest(s, todo[w])
        /\ \/ /\ attempt[w] < Attempts(job[w])
              /\ attempt' = [attempt EXCEPT ![w] = @ + 1]
              /\ UNCHANGED <<todo, failed>>
           \/ /\ attempt[w] = Attempts(job[w])
              /\ attempt' = [attempt EXCEPT ![w] = 1]
              /\ todo' = [todo EXCEPT ![w] = @ \ {s}]
              /\ failed' = [failed EXCEPT ![w][s] = NoFailure]
    /\ UNCHANGED <<archive, started, pc, job, stamp, got, ok, publish, history>>

\* A mutation: after the last attempt the security is tried all over again.
FetchFails_Forever(w) ==
    /\ pc[w] = "fetch"
    /\ todo[w] # {}
    /\ attempt' = [attempt EXCEPT ![w] = IF @ < Attempts(job[w]) THEN @ + 1 ELSE 1]
    /\ UNCHANGED <<archive, started, pc, job, stamp, todo, failed, got, ok, publish, history>>

\* The fetch or the normalisation raises: once more, or a failure.
FetchFails(w) ==
    /\ pc[w] = "fetch"
    /\ \E s \in todo[w] :
        /\ Smallest(s, todo[w])
        /\ \/ /\ attempt[w] < Attempts(job[w])
              /\ attempt' = [attempt EXCEPT ![w] = @ + 1]
              /\ UNCHANGED <<todo, failed>>
           \/ /\ attempt[w] = Attempts(job[w])
              /\ attempt' = [attempt EXCEPT ![w] = 1]
              /\ todo' = [todo EXCEPT ![w] = @ \ {s}]
              /\ failed' = [failed EXCEPT ![w][s] = GivenUp(job[w], @)]
    /\ UNCHANGED <<archive, started, pc, job, stamp, got, ok, publish, history>>

\* Everything is collected.  Without a row there is nothing to publish: the
\* pipeline goes on to its ledger and the retry service returns.
Collected(w) ==
    /\ pc[w] = "fetch" /\ todo[w] = {}
    /\ \/ /\ got[w] # {}
          /\ rows' = [rows EXCEPT ![w] = [d \in Dates |-> [s \in Symbols |->
                          IF <<d, s>> \in got[w] THEN stamp[w] ELSE 0]]]
          /\ want' = [want EXCEPT ![w] = IF job[w] = "ingest" THEN "base" ELSE "own"]
          /\ pc' = [pc EXCEPT ![w] = "list"]
          /\ UNCHANGED <<archive, started, job, stamp, collect, parts, buf, history>>
       \/ /\ got[w] = {} /\ job[w] = "ingest"
          /\ pc' = [pc EXCEPT ![w] = "ledger"]
          /\ UNCHANGED <<archive, started, job, stamp, collect, publish, history>>
       \/ /\ got[w] = {} /\ job[w] = "retry"
          /\ Return(w) /\ UNCHANGED archive

-----------------------------------------------------------------------------
(* read_partitioned_jsonl: list the partitions, then download one by one. *)

Target(j) == IF j = "retry" THEN "recovery" ELSE "canonical"

Source(w) == CASE want[w] = "canonical"           -> "canonical"
               [] want[w] \in {"own", "recovery"} -> "recovery"
               [] want[w] = "base"                -> Target(job[w])

List(w) ==
    /\ pc[w] = "list"
    /\ parts' = [parts EXCEPT ![w] = Filled(lake[Source(w)])]
    /\ buf' = [buf EXCEPT ![w] = NoRows]
    /\ pc' = [pc EXCEPT ![w] = "read"]
    /\ UNCHANGED <<archive, started, job, stamp, collect, want, rows, history>>

ReadPartition(w) ==
    /\ pc[w] = "read"
    /\ \E d \in parts[w] :
        /\ buf' = [buf EXCEPT ![w][d] = lake[Source(w)][d]]
        /\ parts' = [parts EXCEPT ![w] = @ \ {d}]
    /\ UNCHANGED <<archive, started, pc, job, stamp, collect, want, rows, history>>

\* The request of the step fails, or the factory has no provider for the next
\* security's market; nothing was written.
RequestFails(w) == /\ \/ pc[w] \in {"list", "read"}
                      \/ pc[w] = "fetch" /\ todo[w] # {}
                   /\ Raise(w) /\ UNCHANGED archive

-----------------------------------------------------------------------------
(* What a job makes of the rows it has read. *)

\* A dict update: a row of new replaces the row of old with the same key.
Overlay(new, old) == [d \in Dates |-> [s \in Symbols |->
                         IF new[d][s] # 0 THEN new[d][s] ELSE old[d][s]]]

\* The retry service keeps the later of two recovery rows.
Newest(new, old) == [d \in Dates |-> [s \in Symbols |->
                        IF new[d][s] # 0 /\ new[d][s] >= old[d][s]
                        THEN new[d][s] ELSE old[d][s]]]

\* A mutation: recovered rows replace the canonical ones.
Merge_RecoveryWins(canonical, recovery) == Overlay(recovery, canonical)

\* RecoveryReconciler.merge: a recovery row only fills a gap.
Merge(canonical, recovery) == Overlay(canonical, recovery)

ReadAll(w, what) == pc[w] = "read" /\ parts[w] = {} /\ want[w] = what

\* The rows are replaced and the next read begins.
ThenRead(w, snap, what) ==
    /\ rows' = [rows EXCEPT ![w] = snap]
    /\ want' = [want EXCEPT ![w] = what]
    /\ pc' = [pc EXCEPT ![w] = "list"]
    /\ UNCHANGED <<archive, started, job, stamp, collect, parts, buf, history>>

CombineRecovery(w) == /\ ReadAll(w, "own")
                      /\ ThenRead(w, Newest(rows[w], buf[w]), "base")

TakeCanonical(w) == /\ ReadAll(w, "canonical")
                    /\ ThenRead(w, buf[w], "recovery")

MergeRecovery(w) ==
    /\ ReadAll(w, "recovery")
    /\ LET merged == Merge(rows[w], buf[w])
       IN  \/ /\ Cells(merged) # {} /\ ThenRead(w, merged, "base")
           \/ /\ Cells(merged) = {} /\ Return(w) /\ UNCHANGED archive

\* A mutation: the snapshot in the archive is not read before it is replaced.
Build_NoBase(w) ==
    /\ ReadAll(w, "base")
    /\ parts' = [parts EXCEPT ![w] = Filled(rows[w])]
    /\ pc' = [pc EXCEPT ![w] = "upload"]
    /\ UNCHANGED <<archive, started, job, stamp, collect, want, buf, rows, history>>

\* DailyDatasetBuilder.build: the rows are laid over the current snapshot and
\* cut into partitions by date.
Build(w) ==
    /\ ReadAll(w, "base")
    /\ LET unique == Overlay(rows[w], buf[w])
       IN  /\ rows' = [rows EXCEPT ![w] = unique]
           /\ parts' = [parts EXCEPT ![w] = Filled(unique)]
    /\ pc' = [pc EXCEPT ![w] = "upload"]
    /\ UNCHANGED <<archive, started, job, stamp, collect, want, buf, history>>

-----------------------------------------------------------------------------
(* write_partitioned_jsonl and IngestionRunLedger.write. *)

\* The request fails, before or after the archive has changed.
UploadFails(w, from, effect) ==
    /\ pc[w] = from
    /\ \/ effect \/ UNCHANGED archive
    /\ Raise(w)

\* The request is answered and the job goes on to the next place.
Uploaded(w, from, to, effect) ==
    /\ pc[w] = from
    /\ effect
    /\ pc' = [pc EXCEPT ![w] = to]
    /\ UNCHANGED <<started, job, stamp, collect, publish, history>>

\* The partition files are replaced in the order of their dates.
PutPartition(w, d) ==
    /\ Smallest(d, parts[w])
    /\ lake' = [lake EXCEPT ![Target(job[w])][d] = rows[w][d]]
    /\ UNCHANGED <<manifest, ledger, failures>>

\* A mutation: the index is written after the first partition.
UploadPartition_Once(w) ==
    /\ pc[w] = "upload"
    /\ \E d \in parts[w] :
        \/ /\ PutPartition(w, d)
           /\ parts' = [parts EXCEPT ![w] = {}]
           /\ UNCHANGED <<started, pc, job, stamp, collect, want, buf, rows, history>>
        \/ UploadFails(w, "upload", PutPartition(w, d))

UploadPartition(w) ==
    /\ pc[w] = "upload"
    /\ \E d \in parts[w] :
        \/ /\ PutPartition(w, d)
           /\ parts' = [parts EXCEPT ![w] = @ \ {d}]
           /\ UNCHANGED <<started, pc, job, stamp, collect, want, buf, rows, history>>
        \/ UploadFails(w, "upload", PutPartition(w, d))

\* partitions.json goes to the folder of this as_of; no code reads it back.
UploadIndex(w) ==
    /\ parts[w] = {}
    /\ \/ Uploaded(w, "upload", "manifest", UNCHANGED archive)
       \/ UploadFails(w, "upload", UNCHANGED archive)

PutManifest(w) ==
    /\ manifest' = [manifest EXCEPT ![Target(job[w])] = [asOf |-> stamp[w], parts |-> rows[w]]]
    /\ UNCHANGED <<lake, ledger, failures>>

\* The retry service and the reconciliation have nothing else to write.
AfterManifest(j) == IF j = "ingest" THEN "ledger" ELSE "return"

\* A mutation: the job goes on although its manifest was refused.
UploadManifest_Ignored(w) ==
    \/ Uploaded(w, "manifest", AfterManifest(job[w]), PutManifest(w))
    \/ Uploaded(w, "manifest", AfterManifest(job[w]), UNCHANGED archive)

UploadManifest(w) ==
    \/ Uploaded(w, "manifest", AfterManifest(job[w]), PutManifest(w))
    \/ UploadFails(w, "manifest", PutManifest(w))

Published(w) == pc[w] = "return" /\ Return(w) /\ UNCHANGED archive

\* build_manifest: the status of the run; an empty universe is completed.
Status(w) == IF ok[w] = {} /\ Symbols # {} THEN "failed"
             ELSE IF Pending(failed[w]) = {} THEN "completed"
             ELSE "completed_with_failures"

PutLedger(w) ==
    /\ ledger' = [asOf |-> stamp[w], rows |-> got[w] # {}, status |-> Status(w),
                  failed |-> Cardinality(Pending(failed[w]))]
    /\ UNCHANGED <<lake, manifest, failures>>

UploadLedger(w) == \/ Uploaded(w, "ledger", "failures", PutLedger(w))
                   \/ UploadFails(w, "ledger", PutLedger(w))

PutFailures(w) == /\ failures' = failed[w]
                  /\ UNCHANGED <<lake, manifest, ledger>>

UploadFailures(w) == \/ pc[w] = "failures" /\ PutFailures(w) /\ Return(w)
                     \/ UploadFails(w, "failures", PutFailures(w))

-----------------------------------------------------------------------------
Step(w) ==
    \/ FetchOk(w) \/ FetchFails(w) \/ Collected(w)
    \/ List(w) \/ ReadPartition(w) \/ RequestFails(w)
    \/ CombineRecovery(w) \/ TakeCanonical(w) \/ MergeRecovery(w) \/ Build(w)
    \/ UploadPartition(w) \/ UploadIndex(w) \/ UploadManifest(w) \/ Published(w)
    \/ UploadLedger(w) \/ UploadFailures(w)

Next == \E w \in Workers :
    StartIngest(w) \/ StartRetry(w) \/ StartReconcile(w) \/ Step(w)

Spec     == Init /\ [][Next]_vars
FairSpec == Spec /\ \A w \in Workers : WF_vars(Step(w))

-----------------------------------------------------------------------------
(* Properties. *)

\* A row that is in a dataset stays there: however its jobs fail, a worker
\* that publishes alone replaces rows and adds rows, and drops none of another
\* provider or date (the read of the current snapshot in build).
NothingErased ==
    [][\A ds \in Datasets, d \in Dates, s \in Symbols :
          lake[ds][d][s] # 0 => lake'[ds][d][s] # 0]_vars

\* Nothing a finished job has learned is lost on the way through collection,
\* retry, recovery and reconciliation: every row the provider has delivered to
\* a job that returned is in the canonical or in the recovery dataset, and
\* every security of the last pipeline run has been collected or is a failure
\* its caller knows of.
NothingLost ==
    /\ \A c \in owed : \E ds \in Datasets : lake[ds][c[1]][c[2]] # 0
    /\ known \cup Pending(queue) = Symbols

\* A dataset manifest is a publication record: when it is written, the
\* partition files hold exactly the rows whose checksum it carries, those that
\* earlier jobs left half replaced included.
ManifestMatches ==
    [][\A ds \in Datasets :
          manifest'[ds] # manifest[ds] => lake'[ds] = manifest'[ds].parts]_vars

\* The run manifest never speaks of rows that were not published: when it
\* counts rows, the dataset manifest of that run or of a later one is there
\* (the order of build and ledger.write, and that no failure is swallowed).
PublishedBeforeLedger ==
    ledger.rows => manifest["canonical"].asOf >= ledger.asOf

\* A reconciliation leaves every canonical row as it is, and when it is
\* published no recovered row is missing from the canonical dataset.
ReconcileFillsGaps ==
    [][\A w \in Workers : job[w] = "reconcile" /\ pc[w] # "idle" =>
          /\ \A c \in Cells(lake["canonical"]) :
                 lake'["canonical"][c[1]][c[2]] = lake["canonical"][c[1]][c[2]]
          /\ manifest' # manifest => Cells(lake["recovery"]) \subseteq Cells(lake'["canonical"])]_vars

\* Every job comes to an end, whatever the provider and the archive answer:
\* retries are bounded and every request has a timeout.
JobsEnd == \A w \in Workers : pc[w] # "idle" ~> pc[w] = "idle"
=============================================================================
