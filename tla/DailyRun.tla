------------------------------- MODULE DailyRun -------------------------------
(***************************************************************************)
(* One DailyRecommendationJob.run (daily_recommendation_job.py): ingestion,*)
(* recommendations, the paper batch of PaperExecutionOrchestrator          *)
(* (paper_execution.py) with its preflight and its row by row submission,  *)
(* the execution audit trail (execution_audit.py) and the run manifest     *)
(* (run_manifest.py), in memory and on the Drive storage.  Every write to  *)
(* the storage may raise and the process may be killed between any two     *)
(* steps.  The job is single threaded, so a submission's gateway.execute,  *)
(* which uses a fresh client order id, is one step (PaperGateway shows why *)
(* that is enough: AtomicExecution).                                       *)
(***************************************************************************)
EXTENDS PortfolioRisk, Sequences

CONSTANTS
  Selections,      \* the sequences of selected rows a run may end up with
  InitialAccounts, \* records [cash, positions] the account may start with
  MaxFaults        \* bound: storage writes that raise

Stages == {"ingestion", "recommendations", "risk", "execution_audit", "fill", "pnl"}
NoManifest == [status |-> "absent", stages |-> [g \in Stages |-> "not_run"]]
NoAudit == [preflight |-> [s \in Symbols |-> "none"], orders |-> [s \in Symbols |-> "none"],
            pnl |-> {}]

\* RecommendationPipeline keeps one row per market and symbol; a symbol is
\* taken to belong to one market.
ASSUME DailyAssumption ==
  /\ MaxFaults \in Nat
  /\ \A selected \in Selections :
       /\ selected \in Seq(Symbols)
       /\ \A m, n \in 1..Len(selected) : selected[m] = selected[n] => m = n
  /\ \A a \in InitialAccounts : a.cash \in Nat /\ a.positions \in [Symbols -> Nat]

VARIABLES
  pc,         \* the step of run() that comes next
  rows,       \* selected rows, in rank order
  queue,      \* rows the submission loop has still to look at
  verdicts,   \* what preflight decided per selected row
  cash, positions,
  tripped,    \* the circuit breaker
  paper,      \* the environment is in a paper mode
  mem,        \* the manifest in RunManifestTracker.manifests
  disk,       \* the manifest on the storage
  audit,      \* ExecutionAuditTrail.records
  auditDisk,  \* the persisted audit artifact
  ledger,     \* PortfolioLedger: quantity per symbol
  traded,     \* history: quantity traded by this run per symbol
  faults,     \* bound: storage writes that have raised
  lateFault   \* history: one of them was in the except block

store == <<disk, auditDisk>>
account == <<cash, positions, ledger, traded>>
switches == <<tripped, paper>>
vars == <<pc, rows, queue, verdicts, cash, positions, tripped, paper, mem, disk, audit, auditDisk,
          ledger, traded, faults, lateFault>>

Places == {"ingest", "recommend", "preflight", "refuse", "submit", "execute", "record", "pnl",
           "stage_fill", "stage_pnl", "save_audit", "finalize", "fail_audit", "fail_finalize",
           "done", "raised", "killed"}
Ends == {"done", "raised", "killed"}

\* The prices run() passes on: one per selected row.
Priced == {rows[n] : n \in 1..Len(rows)}

Init ==
  /\ pc = "ingest"
  /\ rows = <<>> /\ queue = <<>>
  /\ verdicts = [s \in Symbols |-> "none"]
  /\ \E a \in InitialAccounts : cash = a.cash /\ positions = a.positions
  /\ ledger = [s \in Symbols |-> 0]
  /\ traded = [s \in Symbols |-> 0]
  /\ tripped = FALSE /\ paper = TRUE
  /\ mem = NoManifest /\ disk = NoManifest
  /\ audit = NoAudit /\ auditDisk = NoAudit
  /\ faults = 0 /\ lateFault = FALSE

-----------------------------------------------------------------------------
(* Writes to the storage.  One that raises may have taken effect or not.    *)
Raises(handler, late) ==
  /\ faults < MaxFaults /\ faults' = faults + 1
  /\ pc' = handler /\ lateFault' = late

\* The tracker replaces its manifest and then persists it.
SaveManifest(manifest, next, handler, late) ==
  /\ mem' = manifest
  /\ UNCHANGED auditDisk
  /\ \/ disk' = manifest /\ pc' = next /\ UNCHANGED <<faults, lateFault>>
     \/ disk' \in {disk, manifest} /\ Raises(handler, late)

\* tracker.bind_stage inside the try block.
Bind(stage, status, next) ==
  SaveManifest([mem EXCEPT !.stages[stage] = status], next, "fail_audit", FALSE)

\* _persist_audit: nothing is written while there are no records.
SaveAudit(next, handler, late) ==
  /\ UNCHANGED <<mem, disk>>
  /\ \/ /\ auditDisk' = (IF audit = NoAudit THEN auditDisk ELSE audit)
        /\ pc' = next /\ UNCHANGED <<faults, lateFault>>
     \/ audit # NoAudit /\ auditDisk' \in {auditDisk, audit} /\ Raises(handler, late)

-----------------------------------------------------------------------------
\* Ingestion, outside the try block, and the first register(persist=False).
Ingest ==
  /\ pc = "ingest"
  /\ \/ \E status \in {"completed", "completed_with_failures", "failed"} :
          /\ mem' = [mem EXCEPT !.status = status, !.stages["ingestion"] = status]
          /\ pc' = "recommend"
     \/ pc' = "raised" /\ UNCHANGED mem
  /\ UNCHANGED <<rows, queue, verdicts, account, switches, store, audit, faults, lateFault>>

\* Recommendations, skipped when ingestion has no rows; the second register.
Recommend ==
  /\ pc = "recommend"
  /\ \/ /\ mem.status = "failed"
        /\ pc' = "save_audit" /\ UNCHANGED <<rows, mem>>
     \/ /\ mem.status # "failed"
        /\ rows' \in Selections
        /\ mem' = [mem EXCEPT !.stages["recommendations"] = "completed"]
        /\ pc' = IF rows' = <<>> THEN "save_audit" ELSE "preflight"
     \/ /\ mem.status # "failed"
        /\ pc' = "fail_audit" /\ UNCHANGED <<rows, mem>>
  /\ UNCHANGED <<queue, verdicts, account, switches, store, audit, faults, lateFault>>

VerdictNow(s) == Verdict(cash, positions, Priced, tripped, s)

\* The status record_preflight gives a row: every row that is not in the
\* approved list is recorded as rejected.
PreflightStatus(verdict) ==
  IF verdict = "order" THEN "PREFLIGHT_APPROVED" ELSE "PREFLIGHT_REJECTED"

\* Mutant of Preflight: a batch with a rejected row goes on with the others.
Preflight_GoesOn ==
  LET decided == [s \in Symbols |-> IF s \in Priced THEN VerdictNow(s) ELSE "none"] IN
  /\ pc = "preflight"
  /\ verdicts' = decided
  /\ queue' = rows
  /\ Bind("risk", "completed", "submit")
  /\ UNCHANGED <<rows, account, switches, audit>>

\* execute: the environment must be a paper one.  Then preflight_portfolio:
\* each row against the account as it is before the batch; the audit records;
\* the risk stage of the manifest.
Preflight ==
  LET decided == [s \in Symbols |-> IF s \in Priced THEN VerdictNow(s) ELSE "none"]
      refused == \E s \in Priced : decided[s] = "reject"
  IN
  /\ pc = "preflight"
  /\ \/ /\ paper
        /\ verdicts' = decided
        /\ audit' = [audit EXCEPT !.preflight =
                       [s \in Symbols |-> IF s \in Priced THEN PreflightStatus(decided[s]) ELSE "none"]]
        /\ queue' = rows
        /\ Bind("risk", IF refused THEN "rejected" ELSE "completed", IF refused THEN "refuse" ELSE "submit")
     \/ ~paper /\ pc' = "fail_audit" /\ UNCHANGED <<queue, verdicts, audit, mem, store, faults, lateFault>>
  /\ UNCHANGED <<rows, account, switches>>

\* A batch with a rejected row is not executed at all.
Refuse ==
  /\ pc = "refuse"
  /\ Bind("risk", "rejected", "save_audit")
  /\ UNCHANGED <<rows, queue, verdicts, account, switches, audit>>

\* The loop over the approved rows, up to the gateway: the row is decided
\* again on the account as the rows before it left it.  An order that risk
\* refuses is audited too (SUBMITTED, not risk_approved: "REFUSED" here), and
\* the PermissionError ends the batch; so does a live mode, as the batch has no
\* approval_id.  An account that preflight could value stays valued: the batch
\* trades selected symbols only.
Submit ==
  LET s == Head(queue)  verdict == VerdictNow(s) IN
  /\ pc = "submit"
  /\ \/ /\ queue = <<>>
        /\ pc' = "stage_fill"
        /\ UNCHANGED <<queue, audit, mem, store, faults, lateFault>>
     \/ /\ queue # <<>> /\ (verdicts[s] # "order" \/ verdict = "noop")
        /\ queue' = Tail(queue)
        /\ UNCHANGED <<pc, audit, mem, store, faults, lateFault>>
     \/ /\ queue # <<>> /\ verdicts[s] = "order" /\ verdict # "noop"
        /\ audit' = [audit EXCEPT !.orders[s] = IF verdict = "order" THEN "SUBMITTED" ELSE "REFUSED"]
        /\ Bind("execution_audit", "SUBMITTED",
                IF verdict = "order" /\ paper THEN "execute" ELSE "fail_audit")
        /\ UNCHANGED queue
  /\ UNCHANGED <<rows, verdicts, account, switches>>

\* Mutant of Execute: the engine does not check the cash.
Execute_AnyCash ==
  LET s == Head(queue)  delta == Delta(cash, positions, s) IN
  /\ pc = "execute"
  /\ cash' = IF delta > 0 THEN cash - BuyTotal(Price[s], Size(delta))
                          ELSE cash + SellProceeds(Price[s], Size(delta))
  /\ positions' = [positions EXCEPT ![s] = @ + delta]
  /\ traded' = [traded EXCEPT ![s] = delta]
  /\ pc' = "record"
  /\ UNCHANGED <<rows, queue, verdicts, ledger, switches, mem, store, audit, faults, lateFault>>

\* gateway.execute of a new market order: all of it, or an error when the
\* cash does not cover price, slippage and fee or the mode is no paper mode.
Execute ==
  LET s == Head(queue)  delta == Delta(cash, positions, s)
      cost == BuyTotal(Price[s], Size(delta))
  IN
  /\ pc = "execute"
  /\ \/ /\ ~paper \/ (delta > 0 /\ cash < cost)
        /\ pc' = "fail_audit"
        /\ UNCHANGED <<cash, positions, traded>>
     \/ /\ paper /\ (delta > 0 => cash >= cost)
        /\ cash' = IF delta > 0 THEN cash - cost ELSE cash + SellProceeds(Price[s], Size(delta))
        /\ positions' = [positions EXCEPT ![s] = @ + delta]
        /\ traded' = [traded EXCEPT ![s] = delta]
        /\ pc' = "record"
  /\ UNCHANGED <<rows, queue, verdicts, ledger, switches, mem, store, audit, faults, lateFault>>

\* Mutant of Record: the manifest first, the audit record only after it.
Record_ManifestFirst ==
  /\ pc = "record"
  /\ Bind("fill", "FILLED", "pnl")
  /\ audit' = IF pc' = "pnl" THEN [audit EXCEPT !.orders[Head(queue)] = "FILLED"] ELSE audit
  /\ UNCHANGED <<rows, queue, verdicts, account, switches>>

\* record_fill: the audit record first, then the manifest.
Record ==
  /\ pc = "record"
  /\ audit' = [audit EXCEPT !.orders[Head(queue)] = "FILLED"]
  /\ Bind("fill", "FILLED", "pnl")
  /\ UNCHANGED <<rows, queue, verdicts, account, switches>>

\* What ledger.apply_fill makes of the fill just traded.
LedgerQuantity(s) == ledger[s] + traded[s]

\* The ledger and record_pnl.  The ledger starts empty: a sale of what the
\* account held before raises ValueError, which the loop swallows.
Pnl ==
  LET s == Head(queue)  held == LedgerQuantity(s) IN
  /\ pc = "pnl"
  /\ queue' = Tail(queue)
  /\ \/ /\ held < 0
        /\ pc' = "submit"
        /\ UNCHANGED <<ledger, audit, mem, store, faults, lateFault>>
     \/ /\ held >= 0
        /\ ledger' = [ledger EXCEPT ![s] = held]
        /\ audit' = [audit EXCEPT !.pnl = @ \cup {s}]
        /\ Bind("pnl", "COMPLETED", "submit")
  /\ UNCHANGED <<rows, verdicts, cash, positions, traded, switches>>

\* _persist_stage for fills and pnl: the rows, then the stage of the manifest;
\* skipped when there is nothing to write.
PersistStage(stage, next) ==
  \/ Bind(stage, "completed", next)
  \/ Raises("fail_audit", FALSE) /\ UNCHANGED <<mem, store>>

StageFill ==
  /\ pc = "stage_fill"
  /\ \/ /\ \A s \in Symbols : traded[s] = 0
        /\ pc' = "stage_pnl" /\ UNCHANGED <<mem, store, faults, lateFault>>
     \/ /\ \E s \in Symbols : traded[s] # 0
        /\ PersistStage("fill", "stage_pnl")
  /\ UNCHANGED <<rows, queue, verdicts, account, switches, audit>>

StagePnl ==
  /\ pc = "stage_pnl"
  /\ \/ /\ audit.pnl = {}
        /\ pc' = "save_audit" /\ UNCHANGED <<mem, store, faults, lateFault>>
     \/ /\ audit.pnl # {}
        /\ PersistStage("pnl", "save_audit")
  /\ UNCHANGED <<rows, queue, verdicts, account, switches, audit>>

\* The end of the try block: the audit artifact, then finalize("completed").
PersistAudit ==
  /\ pc = "save_audit"
  /\ SaveAudit("finalize", "fail_audit", FALSE)
  /\ UNCHANGED <<rows, queue, verdicts, account, switches, audit>>

\* Mutant of Finalize: finalize(persist=False).
Finalize_InMemory ==
  /\ pc = "finalize"
  /\ mem' = [mem EXCEPT !.status = "completed"] /\ pc' = "done"
  /\ UNCHANGED <<rows, queue, verdicts, account, switches, audit, store, faults, lateFault>>

Finalize ==
  /\ pc = "finalize"
  /\ SaveManifest([mem EXCEPT !.status = "completed"], "done", "fail_audit", FALSE)
  /\ UNCHANGED <<rows, queue, verdicts, account, switches, audit>>

\* The except block; an error in it skips the rest, and run() raises anyway.
FailAudit ==
  /\ pc = "fail_audit"
  /\ SaveAudit("fail_finalize", "raised", TRUE)
  /\ UNCHANGED <<rows, queue, verdicts, account, switches, audit>>

\* Mutant of FailFinalize: the status is changed in memory only.
FailFinalize_InMemory ==
  /\ pc = "fail_finalize"
  /\ mem' = [mem EXCEPT !.status = "failed"] /\ pc' = "raised"
  /\ UNCHANGED <<rows, queue, verdicts, account, switches, audit, store, faults, lateFault>>

FailFinalize ==
  /\ pc = "fail_finalize"
  /\ SaveManifest([mem EXCEPT !.status = "failed"], "raised", "raised", TRUE)
  /\ UNCHANGED <<rows, queue, verdicts, account, switches, audit>>

Step ==
  \/ Ingest \/ Recommend \/ Preflight \/ Refuse \/ Submit \/ Execute \/ Record \/ Pnl
  \/ StageFill \/ StagePnl \/ PersistAudit \/ Finalize \/ FailAudit \/ FailFinalize

\* The process is killed.
Kill ==
  /\ pc \notin Ends
  /\ pc' = "killed"
  /\ UNCHANGED <<rows, queue, verdicts, account, switches, mem, store, audit, faults, lateFault>>

\* Someone trips or resets the circuit breaker while the job runs.
SetBreaker ==
  /\ pc \notin Ends
  /\ tripped' = ~tripped
  /\ UNCHANGED <<pc, rows, queue, verdicts, account, paper, mem, store, audit, faults, lateFault>>

\* Another thread of the process calls set_mode.
SetMode ==
  /\ pc \notin Ends
  /\ paper' = ~paper
  /\ UNCHANGED <<pc, rows, queue, verdicts, account, tripped, mem, store, audit, faults, lateFault>>

Ended == pc \in Ends /\ UNCHANGED vars

Next == Step \/ Kill \/ SetBreaker \/ SetMode \/ Ended

Spec == Init /\ [][Next]_vars
-----------------------------------------------------------------------------
(* Properties.                                                             *)
Manifests == [status : {"absent", "completed", "completed_with_failures", "failed"},
              stages : [Stages -> {"not_run", "completed", "completed_with_failures", "failed",
                                   "rejected", "SUBMITTED", "FILLED", "COMPLETED"}]]
Audits == [preflight : [Symbols -> {"none", "PREFLIGHT_APPROVED", "PREFLIGHT_REJECTED"}],
           orders : [Symbols -> {"none", "SUBMITTED", "REFUSED", "FILLED"}],
           pnl : SUBSET Symbols]

\* TypeOK: every variable keeps its type; cash and positions stay non-negative.
TypeOK ==
  /\ pc \in Places
  /\ rows \in Seq(Symbols) /\ queue \in Seq(Symbols)
  /\ verdicts \in [Symbols -> {"none", "noop", "order", "reject"}]
  /\ cash \in Nat /\ positions \in [Symbols -> Nat]
  /\ ledger \in [Symbols -> Nat] /\ traded \in [Symbols -> Int]
  /\ tripped \in BOOLEAN /\ paper \in BOOLEAN
  /\ mem \in Manifests /\ disk \in Manifests
  /\ audit \in Audits /\ auditDisk \in Audits
  /\ faults \in 0..MaxFaults /\ lateFault \in BOOLEAN

\* EveryTradeAudited: an audit artifact on the storage covers every trade the
\* run has made, also when the batch broke off after some of its rows, when a
\* manifest write raised right after a fill, and when the process was killed.
EveryTradeAudited ==
  auditDisk # NoAudit => \A s \in Symbols : traded[s] # 0 => auditDisk.orders[s] = "FILLED"

\* RejectedBatchTradesNothing: a preflight with a rejected row stops the whole
\* batch, and only rows that preflight approved are ever traded.
RejectedBatchTradesNothing ==
  \A s \in Symbols : traded[s] # 0 =>
    /\ verdicts[s] = "order"
    /\ \A r \in Symbols : verdicts[r] # "reject"

\* FailedRunMarked: a run that raised after ingestion has a durable manifest
\* that says "failed", unless the storage also raised in the except block.
FailedRunMarked ==
  pc = "raised" /\ mem # NoManifest /\ ~lateFault => disk.status = "failed"

\* ResultIsDurable: a run that returned normally left its final manifest and
\* its whole audit trail on the storage.
ResultIsDurable == pc = "done" => disk = mem /\ disk.status = "completed" /\ auditDisk = audit

\* CompletedMeansDone: a run that ended without completing is not "completed"
\* on the storage.
CompletedMeansDone == pc \in Ends /\ disk.status = "completed" => pc = "done"
=============================================================================
