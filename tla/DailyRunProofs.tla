---------------------------- MODULE DailyRunProofs ----------------------------
(***************************************************************************)
(* The batch, the audit trail and the manifest of a daily run, and the     *)
(* amounts on its account, for every selection of rows, every account,     *)
(* every limit and any number of writes that fail.                         *)
(***************************************************************************)
EXTENDS DailyRun, SequenceTheorems, FiniteSetTheorems, WellFoundedInduction, TLAPS

\* The types of everything but the amounts of money and shares.
Shape ==
  /\ pc \in Places
  /\ rows \in Seq(Symbols) /\ queue \in Seq(Symbols)
  /\ verdicts \in [Symbols -> {"none", "noop", "order", "reject"}]
  /\ traded = [s \in Symbols |-> traded[s]]
  /\ mem \in Manifests /\ disk \in Manifests
  /\ audit \in Audits /\ auditDisk \in Audits

Early == {"ingest", "recommend", "preflight"}
Unsaved == Early \cup {"refuse", "submit", "execute", "record", "pnl", "stage_fill", "stage_pnl"}

\* The places where Head(queue) is being worked on.
Busy == {"execute", "record", "pnl"}

\* The rows still to come are distinct and untraded.
Fresh ==
  /\ \A m, n \in 1..Len(rows) : rows[m] = rows[n] => m = n
  /\ \A m, n \in 1..Len(queue) : queue[m] = queue[n] => m = n
  /\ pc \in Early => \A s \in Symbols : traded[s] = 0
  /\ pc \in {"submit", "execute"} => \A n \in 1..Len(queue) : traded[queue[n]] = 0
  /\ pc \in {"record", "pnl"} => \A n \in 2..Len(queue) : traded[queue[n]] = 0
  /\ pc \in Busy => queue # <<>>

\* The audit trail lags behind the trades only between Execute and Record, and
\* the artifact on the storage is the whole trail or nothing.
Audited ==
  /\ pc \notin {"record", "killed"} => \A s \in Symbols : traded[s] # 0 => audit.orders[s] = "FILLED"
  /\ pc = "record" => \A s \in Symbols \ {Head(queue)} : traded[s] # 0 => audit.orders[s] = "FILLED"
  /\ pc \in Unsaved => auditDisk = NoAudit
  /\ auditDisk \in {NoAudit, audit}
  /\ pc \in {"finalize", "done"} => auditDisk = audit

\* Only approved rows of a batch without a rejected row are traded.
Batched ==
  /\ \A s \in Symbols : traded[s] # 0 => verdicts[s] = "order"
  /\ (pc \in {"submit"} \cup Busy \/ \E s \in Symbols : traded[s] # 0)
       => \A r \in Symbols : verdicts[r] # "reject"
  /\ pc = "execute" => verdicts[Head(queue)] = "order"

\* What the manifest in memory and the one on the storage say at the ends.
Marked ==
  /\ pc = "ingest" => mem = NoManifest
  /\ FailedRunMarked
  /\ pc = "done" => disk = mem /\ disk.status = "completed"

IInv == Shape /\ Fresh /\ Audited /\ EveryTradeAudited /\ Batched /\ Marked

\* A run starts with nothing traded, audited or stored.
LEMMA InitIInv == Init => IInv
<1> SUFFICES ASSUME Init PROVE IInv
  OBVIOUS
<1>1. NoManifest \in Manifests /\ NoAudit \in Audits
  BY DEF NoManifest, Manifests, NoAudit, Audits, Stages
<1>2. Shape
  BY <1>1 DEF Init, Shape, Places
<1>3. Fresh /\ Audited /\ EveryTradeAudited
  BY DEF Init, Fresh, Audited, EveryTradeAudited, Early, Unsaved, Busy
<1>4. Batched /\ Marked
  BY DEF Init, Batched, Busy, Marked, FailedRunMarked
<1>5. QED
  BY <1>2, <1>3, <1>4 DEF IInv

\* A write of the manifest: what it leaves in memory and on the storage.
LEMMA SaveManifestFacts ==
  ASSUME NEW manifest \in Manifests, NEW next, NEW handler, NEW late,
         disk \in Manifests, SaveManifest(manifest, next, handler, late)
  PROVE  /\ mem' = manifest /\ disk' \in Manifests /\ auditDisk' = auditDisk
         /\ \/ pc' = next /\ disk' = manifest /\ lateFault' = lateFault
            \/ pc' = handler /\ lateFault' = late
  BY DEF SaveManifest, Raises

\* A stage bound in the try block: on to the next step, or to the handler.
LEMMA BindFacts ==
  ASSUME Shape, NEW stage \in Stages, NEW next,
         NEW status \in {"completed", "rejected", "SUBMITTED", "FILLED", "COMPLETED"},
         Bind(stage, status, next)
  PROVE  /\ mem' \in Manifests /\ disk' \in Manifests /\ auditDisk' = auditDisk
         /\ pc' \in {next, "fail_audit"}
<1>1. [mem EXCEPT !.stages[stage] = status] \in Manifests
  BY DEF Shape, Manifests
<1>2. QED
  BY <1>1, SaveManifestFacts DEF Bind, Shape

\* The rows left after the first one are rows that were there before.
LEMMA TailFacts ==
  ASSUME NEW q \in Seq(Symbols), q # <<>>
  PROVE  /\ Tail(q) \in Seq(Symbols) /\ Len(Tail(q)) = Len(q) - 1 /\ Len(q) \in Nat \ {0}
         /\ Head(q) = q[1] /\ Head(q) \in Symbols
         /\ \A n \in 1..Len(Tail(q)) : Tail(q)[n] = q[n + 1] /\ n + 1 \in 2..Len(q)
  BY HeadTailProperties, EmptySeq, LenProperties

\* Every step of the job, a kill and the operators keep the invariant.
LEMMA NextIInv == IInv /\ [Next]_vars => IInv'
<1> SUFFICES ASSUME IInv, [Next]_vars PROVE IInv'
  OBVIOUS
<1>s. Shape
  BY DEF IInv
<1> USE DEF Early, Unsaved, Busy, account, switches, store
<1>1. CASE Ingest
  <2>1. mem' \in Manifests
    <3>1. ASSUME NEW status \in {"completed", "completed_with_failures", "failed"}
          PROVE  [mem EXCEPT !.status = status, !.stages["ingestion"] = status] \in Manifests
      BY <1>s DEF Shape, Manifests
    <3>2. QED
      BY <1>1, <1>s, <3>1 DEF Ingest, Shape
  <2>2. Shape'
    BY <1>1, <1>s, <2>1 DEF Ingest, Shape, Places
  <2>3. QED
    BY <1>1, <2>2 DEF Ingest, IInv, Fresh, Audited, EveryTradeAudited, Batched, Marked, FailedRunMarked
<1>2. CASE Recommend
  <2>1. mem' \in Manifests
    BY <1>2, <1>s DEF Recommend, Shape, Manifests, Stages
  <2>2. rows' \in Seq(Symbols) /\ \A m, n \in 1..Len(rows') : rows'[m] = rows'[n] => m = n
    BY <1>2, <1>s, DailyAssumption DEF Recommend, Shape, IInv, Fresh
  <2>3. Shape'
    BY <1>2, <1>s, <2>1, <2>2 DEF Recommend, Shape, Places
  <2>4. QED
    BY <1>2, <2>2, <2>3 DEF Recommend, IInv, Fresh, Audited, EveryTradeAudited, Batched, Marked, FailedRunMarked
<1>3. CASE Preflight
  <2> DEFINE decided == [s \in Symbols |-> IF s \in Priced THEN VerdictNow(s) ELSE "none"]
             refused == \E s \in Priced : decided[s] = "reject"
             status == IF refused THEN "rejected" ELSE "completed"
             next == IF refused THEN "refuse" ELSE "submit"
  <2>1. CASE ~paper
    BY <1>3, <1>s, <2>1 DEF Preflight, Shape, Places, IInv, Fresh, Audited, EveryTradeAudited, Batched,
                            Marked, FailedRunMarked
  <2>2. CASE paper
    <3>1. decided \in [Symbols -> {"none", "noop", "order", "reject"}]
      BY DEF VerdictNow, Verdict
    <3>2. ~refused => \A s \in Symbols : decided[s] # "reject"
      OBVIOUS
    <3>3. /\ verdicts' = decided /\ queue' = rows /\ Bind("risk", status, next)
          /\ UNCHANGED <<rows, traded>> /\ pc = "preflight"
      BY <1>3, <2>2 DEF Preflight
    <3>4. audit' \in Audits /\ audit'.orders = audit.orders
      <4> DEFINE recorded == [s \in Symbols |-> IF s \in Priced THEN PreflightStatus(decided[s]) ELSE "none"]
      <4>1. recorded \in [Symbols -> {"none", "PREFLIGHT_APPROVED", "PREFLIGHT_REJECTED"}]
        BY DEF PreflightStatus
      <4>2. audit' = [audit EXCEPT !.preflight = recorded]
        BY <1>3, <2>2 DEF Preflight
      <4> HIDE DEF recorded
      <4>3. QED
        BY <1>s, <4>1, <4>2 DEF Shape, Audits
    <3>5. /\ mem' \in Manifests /\ disk' \in Manifests /\ auditDisk' = auditDisk
          /\ pc' \in {next, "fail_audit"}
      BY <1>s, <3>3, BindFacts DEF Stages
    <3> HIDE DEF decided, refused
    <3>6. Shape'
      BY <1>s, <3>1, <3>3, <3>4, <3>5 DEF Shape, Places
    <3>7. auditDisk = NoAudit /\ (\A s \in Symbols : traded[s] = 0) /\ pc' \in {"refuse", "submit", "fail_audit"}
      BY <3>3, <3>5 DEF IInv, Fresh, Audited
    <3>8. \A n \in 1..Len(rows) : rows[n] \in Symbols
      BY <1>s, ElementOfSeq DEF Shape
    <3>9. Fresh'
      BY <3>3, <3>7, <3>8 DEF IInv, Fresh
    <3>10. Audited' /\ EveryTradeAudited'
      BY <3>3, <3>5, <3>7 DEF Audited, EveryTradeAudited
    <3>11. Batched' /\ Marked'
      BY <3>2, <3>3, <3>5, <3>7 DEF Batched, Marked, FailedRunMarked
    <3>12. QED
      BY <3>6, <3>9, <3>10, <3>11 DEF IInv
  <2>3. QED
    BY <1>3, <2>1, <2>2 DEF Preflight
<1>4. CASE Refuse
  <2>1. /\ mem' \in Manifests /\ disk' \in Manifests /\ auditDisk' = auditDisk
        /\ pc' \in {"save_audit", "fail_audit"}
    BY <1>4, <1>s, BindFacts DEF Refuse, Stages
  <2>2. Shape'
    BY <1>4, <1>s, <2>1 DEF Refuse, Shape, Places
  <2>3. QED
    BY <1>4, <2>1, <2>2 DEF Refuse, IInv, Fresh, Audited, EveryTradeAudited, Batched, Marked, FailedRunMarked
<1>5. CASE Submit
  <2>1. CASE queue = <<>>
    BY <1>5, <1>s, <2>1 DEF Submit, Shape, Places, IInv, Fresh, Audited, EveryTradeAudited, Batched,
                            Marked, FailedRunMarked
  <2>2. CASE queue # <<>>
    <3>1. /\ Tail(queue) \in Seq(Symbols) /\ Len(Tail(queue)) = Len(queue) - 1 /\ Len(queue) \in Nat \ {0}
          /\ Head(queue) = queue[1] /\ Head(queue) \in Symbols
          /\ \A n \in 1..Len(Tail(queue)) : Tail(queue)[n] = queue[n + 1] /\ n + 1 \in 2..Len(queue)
      BY <1>s, <2>2, TailFacts DEF Shape
    <3>2. ASSUME queue' = Tail(queue), pc' = pc, UNCHANGED <<audit, mem, store, faults, lateFault>>
          PROVE  IInv'
      <4>1. Shape'
        BY <1>5, <1>s, <3>1, <3>2 DEF Submit, Shape
      <4>2. Fresh'
        <5>1. pc = "submit" /\ UNCHANGED <<rows, traded>>
          BY <1>5 DEF Submit
        <5>2. \A m, n \in 1..Len(queue') : queue'[m] = queue'[n] => m = n
          BY <3>1, <3>2 DEF IInv, Fresh
        <5>3. \A n \in 1..Len(queue') : traded[queue'[n]] = 0
          BY <3>1, <3>2, <5>1 DEF IInv, Fresh
        <5>4. QED
          BY <3>2, <5>1, <5>2, <5>3 DEF IInv, Fresh
      <4>3. QED
        BY <1>5, <3>2, <4>1, <4>2 DEF Submit, IInv, Audited, EveryTradeAudited, Batched, Marked, FailedRunMarked
    <3>3. ASSUME NEW status \in {"SUBMITTED", "REFUSED"}, NEW next \in {"execute", "fail_audit"},
                 verdicts[Head(queue)] = "order",
                 audit' = [audit EXCEPT !.orders[Head(queue)] = status],
                 Bind("execution_audit", "SUBMITTED", next), UNCHANGED queue
          PROVE  IInv'
      <4>1. /\ mem' \in Manifests /\ disk' \in Manifests /\ auditDisk' = auditDisk
            /\ pc' \in {next, "fail_audit"}
        BY <1>s, <3>3, BindFacts DEF Stages
      <4>2. audit' \in Audits /\ \A s \in Symbols \ {Head(queue)} : audit'.orders[s] = audit.orders[s]
        <5> DEFINE recorded == [audit.orders EXCEPT ![Head(queue)] = status]
        <5>1. audit' = [audit EXCEPT !.orders = recorded]
          BY <1>s, <3>3 DEF Shape, Audits
        <5>2. /\ recorded \in [Symbols -> {"none", "SUBMITTED", "REFUSED", "FILLED"}]
              /\ \A s \in Symbols \ {Head(queue)} : recorded[s] = audit.orders[s]
          BY <1>s, <3>1 DEF Shape, Audits
        <5> HIDE DEF recorded
        <5>3. QED
          BY <1>s, <5>1, <5>2 DEF Shape, Audits
      <4>3. traded[Head(queue)] = 0 /\ pc = "submit" /\ UNCHANGED <<rows, queue, verdicts, traded>>
        <5>1. pc = "submit" /\ UNCHANGED <<rows, queue, verdicts, traded>>
          BY <1>5, <3>3 DEF Submit
        <5>2. QED
          BY <3>1, <5>1 DEF IInv, Fresh
      <4>4. Shape'
        BY <1>s, <4>1, <4>2, <4>3 DEF Shape, Places
      <4>5. Fresh'
        BY <2>2, <4>1, <4>3 DEF IInv, Fresh
      <4>6. QED
        BY <3>3, <4>1, <4>2, <4>3, <4>4, <4>5
           DEF IInv, Audited, EveryTradeAudited, Batched, Marked, FailedRunMarked
    <3>4. QED
      BY <1>5, <2>2, <3>2, <3>3 DEF Submit
  <2>3. QED
    BY <2>1, <2>2
<1>6. CASE Execute
  <2>1. Head(queue) = queue[1] /\ Head(queue) \in Symbols /\ Len(queue) \in Nat \ {0}
    BY <1>6, <1>s, TailFacts DEF Execute, Shape, IInv, Fresh
  <2>2. /\ UNCHANGED <<rows, queue, verdicts, mem, disk, auditDisk, audit, lateFault>> /\ pc = "execute"
        /\ \/ pc' = "fail_audit" /\ UNCHANGED traded
           \/ /\ pc' = "record"
              /\ \E delta : traded' = [traded EXCEPT ![Head(queue)] = delta]
    BY <1>6 DEF Execute
  <2>3. traded' = [s \in Symbols |-> traded'[s]] /\ \A s \in Symbols \ {Head(queue)} : traded'[s] = traded[s]
    BY <1>s, <2>1, <2>2 DEF Shape
  <2>4. Shape'
    BY <1>s, <2>2, <2>3 DEF Shape, Places
  <2>5. Fresh'
    BY <1>s, <2>1, <2>2, <2>3, ElementOfSeq DEF IInv, Fresh, Shape
  <2>6. QED
    BY <2>1, <2>2, <2>3, <2>4, <2>5 DEF IInv, Audited, EveryTradeAudited, Batched, Marked, FailedRunMarked
<1>7. CASE Record
  <2>1. /\ mem' \in Manifests /\ disk' \in Manifests /\ auditDisk' = auditDisk
        /\ pc' \in {"pnl", "fail_audit"}
    BY <1>7, <1>s, BindFacts DEF Record, Stages
  <2>2. Head(queue) \in Symbols
    BY <1>7, <1>s, TailFacts DEF Record, Shape, IInv, Fresh
  <2>3. /\ audit' \in Audits /\ audit'.orders[Head(queue)] = "FILLED"
        /\ \A s \in Symbols \ {Head(queue)} : audit'.orders[s] = audit.orders[s]
    BY <1>7, <1>s, <2>2 DEF Record, Shape, Audits
  <2>4. Shape'
    BY <1>7, <1>s, <2>1, <2>3 DEF Record, Shape, Places
  <2>5. QED
    BY <1>7, <2>1, <2>3, <2>4 DEF Record, IInv, Fresh, Audited, EveryTradeAudited, Batched, Marked, FailedRunMarked
<1>8. CASE Pnl
  <2>1. /\ Tail(queue) \in Seq(Symbols) /\ Len(Tail(queue)) = Len(queue) - 1 /\ Len(queue) \in Nat \ {0}
        /\ Head(queue) \in Symbols
        /\ \A n \in 1..Len(Tail(queue)) : Tail(queue)[n] = queue[n + 1] /\ n + 1 \in 2..Len(queue)
    BY <1>8, <1>s, TailFacts DEF Pnl, Shape, IInv, Fresh
  <2>2. /\ mem' \in Manifests /\ disk' \in Manifests /\ auditDisk' = auditDisk
        /\ pc' \in {"submit", "fail_audit"}
    BY <1>8, <1>s, BindFacts DEF Pnl, Stages, Shape
  <2>3. audit' \in Audits /\ audit'.orders = audit.orders
    <3>1. CASE audit' = audit
      BY <1>s, <3>1 DEF Shape
    <3>2. CASE audit' = [audit EXCEPT !.pnl = @ \cup {Head(queue)}]
      BY <1>s, <2>1, <3>2 DEF Shape, Audits
    <3>3. QED
      BY <1>8, <3>1, <3>2 DEF Pnl
  <2>4. Shape'
    BY <1>8, <1>s, <2>1, <2>2, <2>3 DEF Pnl, Shape, Places
  <2>5. Fresh'
    BY <1>8, <2>1, <2>2 DEF Pnl, IInv, Fresh
  <2>6. traded' = traded /\ verdicts' = verdicts /\ pc = "pnl"
    BY <1>8 DEF Pnl
  <2>7. Batched'
    BY <2>2, <2>6 DEF IInv, Batched
  <2>8. QED
    BY <2>2, <2>3, <2>4, <2>5, <2>6, <2>7 DEF IInv, Audited, EveryTradeAudited, Marked, FailedRunMarked
<1>9. CASE StageFill \/ StagePnl
  <2>1. /\ mem' \in Manifests /\ disk' \in Manifests /\ auditDisk' = auditDisk
        /\ pc' \in {"stage_pnl", "save_audit", "fail_audit"}
    BY <1>9, <1>s, BindFacts DEF StageFill, StagePnl, PersistStage, Raises, Stages, Shape
  <2>2. /\ pc \in {"stage_fill", "stage_pnl"} /\ (pc = "stage_pnl" => pc' # "stage_pnl")
        /\ UNCHANGED <<rows, queue, verdicts, traded, audit>>
    BY <1>9, <1>s, BindFacts DEF StageFill, StagePnl, PersistStage, Raises, Stages
  <2>3. Shape'
    BY <1>s, <2>1, <2>2 DEF Shape, Places
  <2>4. QED
    BY <2>1, <2>2, <2>3 DEF IInv, Fresh, Audited, EveryTradeAudited, Batched, Marked, FailedRunMarked
<1>10. CASE PersistAudit \/ FailAudit
  <2>1. /\ UNCHANGED <<mem, disk, rows, queue, verdicts, traded, audit>>
        /\ \/ /\ auditDisk' = IF audit = NoAudit THEN auditDisk ELSE audit
              /\ lateFault' = lateFault /\ pc = "save_audit" /\ pc' = "finalize"
           \/ /\ auditDisk' = IF audit = NoAudit THEN auditDisk ELSE audit
              /\ lateFault' = lateFault /\ pc = "fail_audit" /\ pc' = "fail_finalize"
           \/ /\ auditDisk' \in {auditDisk, audit} /\ pc = "save_audit" /\ pc' = "fail_audit"
           \/ /\ auditDisk' \in {auditDisk, audit} /\ pc = "fail_audit" /\ pc' = "raised"
              /\ lateFault' = TRUE
    BY <1>10 DEF PersistAudit, FailAudit, SaveAudit, Raises
  <2>2. Shape'
    BY <1>s, <2>1 DEF Shape, Places
  <2>3. QED
    BY <2>1, <2>2 DEF IInv, Fresh, Audited, EveryTradeAudited, Batched, Marked, FailedRunMarked
<1>11. CASE Finalize \/ FailFinalize
  <2> DEFINE completed == [mem EXCEPT !.status = "completed"]
             failed == [mem EXCEPT !.status = "failed"]
  <2>1. /\ completed \in Manifests /\ completed.status = "completed"
        /\ failed \in Manifests /\ failed.status = "failed"
    BY <1>s DEF Shape, Manifests
  <2>2. /\ mem' \in Manifests /\ disk' \in Manifests
        /\ UNCHANGED <<rows, queue, verdicts, traded, audit, auditDisk>>
        /\ \/ pc = "finalize" /\ pc' = "done" /\ disk' = mem' /\ disk' = completed
           \/ pc = "finalize" /\ pc' = "fail_audit"
           \/ pc = "fail_finalize" /\ pc' = "raised" /\ disk' = failed
           \/ pc = "fail_finalize" /\ pc' = "raised" /\ lateFault' = TRUE
    BY <1>11, <1>s, <2>1 DEF Finalize, FailFinalize, SaveManifest, Raises, Shape
  <2> HIDE DEF completed, failed
  <2>3. Shape'
    BY <1>s, <2>2 DEF Shape, Places
  <2>4. QED
    BY <2>1, <2>2, <2>3 DEF IInv, Fresh, Audited, EveryTradeAudited, Batched, Marked, FailedRunMarked
<1>12. CASE Kill
  BY <1>12, <1>s DEF Kill, Ends, Shape, Places, IInv, Fresh, Audited, EveryTradeAudited, Batched, Marked, FailedRunMarked
<1>13. CASE SetBreaker \/ SetMode \/ Ended \/ UNCHANGED vars
  BY <1>13, <1>s DEF SetBreaker, SetMode, Ended, vars, Shape, IInv, Fresh, Audited, EveryTradeAudited, Batched,
                     Marked, FailedRunMarked
<1>14. QED
  BY <1>1, <1>2, <1>3, <1>4, <1>5, <1>6, <1>7, <1>8, <1>9, <1>10, <1>11, <1>12, <1>13 DEF Next, Step

\* The inductive invariant holds in every state of a run.
LEMMA SpecIInv == Spec => []IInv
  BY InitIInv, NextIInv, PTL DEF Spec

\* An audit artifact on the storage covers every trade of the run, wherever
\* the batch, the storage or the process fails.
THEOREM TradesAreAudited == Spec => []EveryTradeAudited
<1>1. IInv => EveryTradeAudited
  BY DEF IInv
<1>2. QED
  BY <1>1, SpecIInv, PTL

\* A batch with a rejected row trades nothing; only approved rows are traded.
THEOREM RejectedBatchIsInert == Spec => []RejectedBatchTradesNothing
<1>1. IInv => RejectedBatchTradesNothing
  BY DEF IInv, Batched, RejectedBatchTradesNothing
<1>2. QED
  BY <1>1, SpecIInv, PTL

\* A run that raised left a durable failed marker, unless the storage raised in
\* the except block too.
THEOREM FailedRunsAreMarked == Spec => []FailedRunMarked
<1>1. IInv => FailedRunMarked
  BY DEF IInv, Marked
<1>2. QED
  BY <1>1, SpecIInv, PTL

\* A run that returned left its final manifest and its whole audit trail.
THEOREM ResultsAreDurable == Spec => []ResultIsDurable
<1>1. IInv => ResultIsDurable
  BY DEF IInv, Marked, Audited, ResultIsDurable
<1>2. QED
  BY <1>1, SpecIInv, PTL

-----------------------------------------------------------------------------
(* The amounts of a trade, for every price and every rate. *)

\* What \div, i.e. ROUND_DOWN, does to a product with a rate.
LEMMA DivBounds ==
  ASSUME NEW n \in Nat, NEW s \in Nat \ {0}
  PROVE  n \div s \in Nat /\ s * (n \div s) <= n
  BY Z3

\* A product of natural numbers is one.
LEMMA TimesNat == ASSUME NEW a \in Nat, NEW b \in Nat PROVE a * b \in Nat
  BY Z3

\* A factor common to both sides of an inequality can be dropped.
LEMMA CancelFactor ==
  ASSUME NEW a \in Int, NEW b \in Int, NEW s \in Nat \ {0}, s * a <= s * b
  PROVE  a <= b
  BY Z3

\* A larger rate gives a larger product.
LEMMA TimesMonotone ==
  ASSUME NEW g \in Nat, NEW a \in Nat, NEW b \in Nat, a <= b
  PROVE  g * a <= g * b
  BY Z3

\* Multiplication distributes over addition.
LEMMA Distributes ==
  ASSUME NEW g \in Int, NEW a \in Int, NEW b \in Int
  PROVE  g * (a + b) = g * a + g * b
  BY Z3

\* Multiplication commutes.
LEMMA Commutes == ASSUME NEW a \in Int, NEW b \in Int PROVE a * b = b * a
  BY Z3

\* fee and tax, each rounded down, never exceed the gross amount together.
LEMMA ChargesBelowGross ==
  ASSUME NEW g \in Nat
  PROVE  Fee(g) \in Nat /\ Tax(g) \in Nat /\ Fee(g) + Tax(g) <= g
<1> USE RateAssumption
<1>1. g * FeeRate \in Nat /\ g * TaxRate \in Nat
  BY TimesNat
<1>2. /\ Fee(g) \in Nat /\ Scale * Fee(g) <= g * FeeRate
      /\ Tax(g) \in Nat /\ Scale * Tax(g) <= g * TaxRate
  BY <1>1, DivBounds DEF Fee, Tax
<1>3. g * (FeeRate + TaxRate) <= g * Scale
  BY TimesMonotone
<1>4. Scale * (Fee(g) + Tax(g)) = Scale * Fee(g) + Scale * Tax(g)
  BY <1>2, Distributes
<1>5. g * (FeeRate + TaxRate) = g * FeeRate + g * TaxRate
  BY Distributes
<1>6. g * Scale = Scale * g
  BY Commutes
<1>7. Scale * (Fee(g) + Tax(g)) <= Scale * g
  <2> DEFINE a == Scale * Fee(g)  b == Scale * Tax(g)  c == g * FeeRate  d == g * TaxRate
             e == Scale * (Fee(g) + Tax(g))  f == g * (FeeRate + TaxRate)  h == g * Scale
  <2>1. a \in Int /\ b \in Int /\ c \in Int /\ d \in Int /\ h \in Int
    BY <1>1, <1>2, TimesNat
  <2>2. a <= c /\ b <= d /\ f <= h /\ e = a + b /\ f = c + d /\ h = Scale * g
    BY <1>2, <1>3, <1>4, <1>5, <1>6
  <2> HIDE DEF a, b, c, d, e, f, h
  <2>3. e <= h
    BY <2>1, <2>2
  <2>4. QED
    BY <2>2, <2>3 DEF e
<1>8. QED
  BY <1>2, <1>7, CancelFactor

\* A buy costs something that is not negative, and a sale pays as much.
LEMMA AmountsNat ==
  ASSUME NEW p \in Nat, NEW q \in Nat
  PROVE  BuyTotal(p, q) \in Nat /\ SellProceeds(p, q) \in Nat
<1> USE RateAssumption
<1>1. FillPrice("BUY", p) \in Nat /\ FillPrice("SELL", p) \in Nat
  <2>1. Scale + Slippage \in Nat /\ Scale - Slippage \in Nat
    OBVIOUS
  <2>2. QED
    BY <2>1, TimesNat DEF FillPrice
<1>2. Gross("BUY", p, q) \in Nat /\ Gross("SELL", p, q) \in Nat
  BY <1>1, TimesNat, DivBounds DEF Gross
<1>3. QED
  BY <1>2, ChargesBelowGross DEF BuyTotal, SellProceeds

-----------------------------------------------------------------------------
(* The valuation of the account: a sum over the symbols is a natural number. *)
(* Inductions over subsets are arguments about a minimal subset on which the *)
(* claim fails.                                                              *)

LEMMA MinimalSubset ==
  ASSUME NEW S, IsFiniteSet(S), NEW bad, bad \subseteq SUBSET S, bad # {}
  PROVE  \E D \in bad : \A x \in D : D \ {x} \notin bad
<1>1. IsWellFoundedOn(StrictSubsetOrdering(S), SUBSET S)
  BY FS_StrictSubsetOrderingWellFounded, FS_FiniteSubsetsOfFinite
<1>2. PICK D \in bad : \A E \in bad : <<E, D>> \notin StrictSubsetOrdering(S)
  BY <1>1, WFMin
<1>3. ASSUME NEW x \in D PROVE D \ {x} \notin bad
  BY <1>2 DEF StrictSubsetOrdering
<1> QED BY <1>2, <1>3

\* The element MapThenSumSet takes first, and one step of its recursion.
First(s) == CHOOSE x \in s : TRUE
Unfold(g, f, s) == IF s = {} THEN 0 ELSE f[First(s)] + g[s \ {First(s)}]

\* g[s] is the sum of f over s, for every subset s of S.
Unfolded(g, f, S) == g \in [SUBSET S -> Nat] /\ \A s \in SUBSET S : g[s] = Unfold(g, f, s)

\* The recursion has a solution: one that is right for the subsets of at most
\* a given size is extended to those of one more element.
LEMMA SumExists ==
  ASSUME NEW S, IsFiniteSet(S), NEW f \in [S -> Nat]
  PROVE  \E g : Unfolded(g, f, S)
<1> DEFINE upto(D) == \E g \in [SUBSET S -> Nat] : \A s \in SUBSET S :
                         Cardinality(s) <= Cardinality(D) => g[s] = Unfold(g, f, s)
<1>1. \A D \in SUBSET S : IsFiniteSet(D) /\ Cardinality(D) \in Nat /\ Cardinality(D) <= Cardinality(S)
  BY FS_Subset, FS_CardinalityType
<1>2. \A s \in SUBSET S : s # {} => First(s) \in s /\ s \ {First(s)} \in SUBSET S
  BY DEF First
<1>3. ASSUME NEW D \in SUBSET S, NEW z \in D, upto(D \ {z}) PROVE upto(D)
  <2>1. PICK g \in [SUBSET S -> Nat] : \A s \in SUBSET S :
          Cardinality(s) <= Cardinality(D \ {z}) => g[s] = Unfold(g, f, s)
    BY <1>3
  <2> DEFINE h == [s \in SUBSET S |-> Unfold(g, f, s)]
  <2>2. h \in [SUBSET S -> Nat]
    BY <1>2 DEF Unfold
  <2>3. Cardinality(D \ {z}) = Cardinality(D) - 1
    BY <1>1, <1>3, FS_RemoveElement
  <2>4. ASSUME NEW s \in SUBSET S, Cardinality(s) <= Cardinality(D) PROVE h[s] = Unfold(h, f, s)
    <3>1. CASE s = {}
      BY <3>1 DEF Unfold
    <3>2. CASE s # {}
      <4> DEFINE r == s \ {First(s)}
      <4>1. Cardinality(r) = Cardinality(s) - 1 /\ r \in SUBSET S
        BY <1>1, <1>2, <3>2, FS_RemoveElement
      <4>2. Cardinality(r) <= Cardinality(D \ {z})
        BY <1>1, <1>3, <2>3, <2>4, <4>1
      <4>3. h[r] = g[r]
        BY <2>1, <4>1, <4>2
      <4> HIDE DEF r
      <4> QED BY <3>2, <4>3 DEF Unfold, r
    <3> QED BY <3>1, <3>2
  <2> HIDE DEF h
  <2> QED BY <2>2, <2>4
<1>4. upto({})
  <2>1. [s \in SUBSET S |-> 0] \in [SUBSET S -> Nat]
    OBVIOUS
  <2>2. \A s \in SUBSET S : Cardinality(s) <= Cardinality({}) => s = {}
    BY <1>1, FS_EmptySet
  <2> QED BY <2>1, <2>2 DEF Unfold
<1> HIDE DEF upto
<1>5. upto(S)
  <2> DEFINE bad == {D \in SUBSET S : ~upto(D)}
  <2> SUFFICES ASSUME bad # {} PROVE FALSE
    OBVIOUS
  <2>1. PICK D \in bad : \A x \in D : D \ {x} \notin bad
    BY MinimalSubset
  <2>2. PICK z \in D : TRUE
    BY <1>4, <2>1
  <2> QED BY <1>3, <2>1, <2>2
<1>6. PICK g \in [SUBSET S -> Nat] : \A s \in SUBSET S : g[s] = Unfold(g, f, s)
  BY <1>1, <1>5 DEF upto
<1> QED BY <1>6 DEF Unfolded

\* What the account holds is worth a natural number.
LEMMA NotionalNat ==
  ASSUME NEW held \in [Symbols -> Nat], NEW S \in SUBSET Symbols
  PROVE  Notional(held, S) \in Nat
<1> DEFINE f == [s \in S |-> held[s] * Price[s]]
           Iter(it) == it = [s \in SUBSET S |-> IF s = {} THEN 0
                                ELSE LET x == CHOOSE x \in s : TRUE IN held[x] * Price[x] + it[s \ {x}]]
           iter == CHOOSE it : Iter(it)
<1>1. IsFiniteSet(S)
  BY FS_Subset, RiskAssumption
<1>2. f \in [S -> Nat]
  BY TimesNat, RiskAssumption
<1>3. PICK g \in [SUBSET S -> Nat] : \A s \in SUBSET S : g[s] = Unfold(g, f, s)
  <2> HIDE DEF f
  <2>1. PICK g : Unfolded(g, f, S)
    BY <1>1, <1>2, SumExists
  <2> QED BY <2>1 DEF Unfolded
<1>4. Notional(held, S) = iter[S]
  BY DEF Notional, MapThenSumSet, MapThenFoldSet
<1>5. \A s \in SUBSET S : s # {} => /\ First(s) \in s /\ s \ {First(s)} \in SUBSET S
                                    /\ f[First(s)] = held[First(s)] * Price[First(s)]
  BY DEF First
<1>6. Iter(g)
  <2> HIDE DEF f
  <2>1. \A s \in SUBSET S : g[s] = IF s = {} THEN 0 ELSE held[First(s)] * Price[First(s)] + g[s \ {First(s)}]
    BY <1>3, <1>5 DEF Unfold
  <2> QED BY <1>3, <2>1 DEF First
<1> HIDE DEF Iter
<1>7. Iter(iter)
  BY <1>6
<1> HIDE DEF iter
<1>8. /\ iter[{}] = 0
      /\ \A s \in SUBSET S : s # {} => iter[s] = f[First(s)] + iter[s \ {First(s)}]
  <2>1. iter[{}] = 0 /\ \A s \in SUBSET S : s # {} =>
          iter[s] = held[First(s)] * Price[First(s)] + iter[s \ {First(s)}]
    BY <1>7 DEF Iter, First
  <2> QED BY <1>5, <2>1
<1> HIDE DEF f
<1>9. \A D \in SUBSET S : iter[D] \in Nat
  <2> DEFINE bad == {D \in SUBSET S : iter[D] \notin Nat}
  <2> SUFFICES ASSUME bad # {} PROVE FALSE
    OBVIOUS
  <2>1. PICK D \in bad : \A x \in D : D \ {x} \notin bad
    BY <1>1, MinimalSubset
  <2>2. iter[{}] \in Nat
    BY <1>8
  <2>3. D \in SUBSET S /\ iter[D] \notin Nat /\ D # {}
    BY <2>1, <2>2
  <2>4. iter[D \ {First(D)}] \in Nat /\ f[First(D)] \in Nat
    BY <1>2, <1>5, <2>1, <2>3
  <2>5. iter[D] = f[First(D)] + iter[D \ {First(D)}]
    BY <1>8, <2>3
  <2> QED BY <2>3, <2>4, <2>5
<1> QED BY <1>4, <1>9

-----------------------------------------------------------------------------
(* Types, with the amounts. *)

\* The order that brings a row to its target: the position it leaves is the
\* target, which is not negative, whatever the account holds.
LEMMA DeltaFacts ==
  ASSUME NEW c \in Nat, NEW held \in [Symbols -> Nat], NEW s \in Symbols
  PROVE  /\ Delta(c, held, s) \in Int /\ held[s] + Delta(c, held, s) \in Nat
         /\ Size(Delta(c, held, s)) \in Nat
<1>1. AccountValue(c, held) \in Nat
  BY NotionalNat DEF AccountValue
<1>2. /\ Scale \in Nat \ {0} /\ Price[s] \in Nat \ {0} /\ Weight[s] \in Nat
  BY RateAssumption, RiskAssumption
<1> DEFINE n == AccountValue(c, held) * Weight[s]
           d == Scale * Price[s]
           target == n \div d
<1>3. n \in Nat /\ d \in Nat \ {0}
  BY <1>1, <1>2, Z3
<1>4. target \in Nat
  <2> HIDE DEF n, d
  <2> QED BY <1>3, DivBounds
<1>5. Delta(c, held, s) = target - held[s] /\ held[s] \in Nat
  BY DEF Delta
<1> HIDE DEF target
<1> QED BY <1>4, <1>5 DEF Size

\* The amounts, the switches and the bound.
Amounts ==
  /\ cash \in Nat /\ positions \in [Symbols -> Nat]
  /\ ledger \in [Symbols -> Nat] /\ traded \in [Symbols -> Int]
  /\ tripped \in BOOLEAN /\ paper \in BOOLEAN
  /\ faults \in 0..MaxFaults /\ lateFault \in BOOLEAN

LEMMA InitAmounts == Init => Amounts
<1> SUFFICES ASSUME Init PROVE Amounts
  OBVIOUS
<1>1. cash \in Nat /\ positions \in [Symbols -> Nat]
  BY DailyAssumption DEF Init
<1>2. ledger \in [Symbols -> Nat] /\ traded \in [Symbols -> Int]
  BY DEF Init
<1>3. faults \in 0..MaxFaults /\ tripped = FALSE /\ paper = TRUE /\ lateFault = FALSE
  BY DailyAssumption DEF Init
<1> QED BY <1>1, <1>2, <1>3 DEF Amounts

\* A write that raises is counted.
LEMMA RaisesFacts ==
  ASSUME NEW handler, NEW late \in BOOLEAN, Amounts, Raises(handler, late)
  PROVE  faults' \in 0..MaxFaults /\ lateFault' \in BOOLEAN
  BY DailyAssumption DEF Raises, Amounts

\* So is every write of the manifest and of the audit artifact.
LEMMA WriteFacts ==
  ASSUME Amounts, NEW next, NEW handler, NEW late \in BOOLEAN,
         \/ SaveAudit(next, handler, late)
         \/ \E manifest : SaveManifest(manifest, next, handler, late)
  PROVE  faults' \in 0..MaxFaults /\ lateFault' \in BOOLEAN
<1>1. Raises(handler, late) \/ UNCHANGED <<faults, lateFault>>
  BY DEF SaveAudit, SaveManifest
<1> QED BY <1>1, RaisesFacts DEF Amounts

LEMMA BindCounts ==
  ASSUME Amounts, NEW stage, NEW status, NEW next, Bind(stage, status, next)
  PROVE  faults' \in 0..MaxFaults /\ lateFault' \in BOOLEAN
  BY WriteFacts DEF Bind

LEMMA NextAmounts == IInv /\ Amounts /\ [Next]_vars => Amounts'
<1> SUFFICES ASSUME IInv, Amounts, [Next]_vars PROVE Amounts'
  OBVIOUS
<1> USE DEF account, switches, store
<1>1. CASE Ingest \/ Recommend
  BY <1>1 DEF Ingest, Recommend, Amounts
<1>2. CASE Preflight
  <2>1. faults' \in 0..MaxFaults /\ lateFault' \in BOOLEAN
    BY <1>2, BindCounts DEF Preflight, Amounts
  <2> QED BY <1>2, <2>1 DEF Preflight, Amounts
<1>3. CASE Refuse \/ Record
  <2>1. faults' \in 0..MaxFaults /\ lateFault' \in BOOLEAN
    BY <1>3, BindCounts DEF Refuse, Record
  <2> QED BY <1>3, <2>1 DEF Refuse, Record, Amounts
<1>4. CASE Submit
  <2>1. faults' \in 0..MaxFaults /\ lateFault' \in BOOLEAN
    BY <1>4, BindCounts DEF Submit, Amounts
  <2> QED BY <1>4, <2>1 DEF Submit, Amounts
<1>5. CASE Execute
  <2> DEFINE s == Head(queue)
             delta == Delta(cash, positions, s)
             cost == BuyTotal(Price[s], Size(delta))
             gain == SellProceeds(Price[s], Size(delta))
  <2>1. s \in Symbols
    BY <1>5, TailFacts DEF Execute, IInv, Shape, Fresh, Busy
  <2>2. delta \in Int /\ positions[s] + delta \in Nat /\ Size(delta) \in Nat
    BY <2>1, DeltaFacts DEF Amounts
  <2>3. cost \in Nat /\ gain \in Nat
    <3>1. Price[s] \in Nat
      BY <2>1, RiskAssumption
    <3> HIDE DEF delta, s
    <3> QED BY <2>2, <3>1, AmountsNat
  <2>4. \/ UNCHANGED <<cash, positions, traded>>
        \/ /\ delta > 0 => cash >= cost
           /\ cash' = IF delta > 0 THEN cash - cost ELSE cash + gain
           /\ positions' = [positions EXCEPT ![s] = @ + delta]
           /\ traded' = [traded EXCEPT ![s] = delta]
    BY <1>5 DEF Execute
  <2> HIDE DEF s, delta, cost, gain
  <2>5. cash' \in Nat
    BY <2>2, <2>3, <2>4 DEF Amounts
  <2>6. positions' \in [Symbols -> Nat] /\ traded' \in [Symbols -> Int]
    BY <2>1, <2>2, <2>4 DEF Amounts
  <2> QED BY <1>5, <2>5, <2>6 DEF Execute, Amounts
<1>6. CASE Pnl
  <2>1. Head(queue) \in Symbols
    BY <1>6, TailFacts DEF Pnl, IInv, Shape, Fresh, Busy
  <2>2. LedgerQuantity(Head(queue)) \in Int
    BY <2>1 DEF LedgerQuantity, Amounts
  <2>3. ledger' \in [Symbols -> Nat]
    BY <1>6, <2>1, <2>2 DEF Pnl, Amounts
  <2>4. faults' \in 0..MaxFaults /\ lateFault' \in BOOLEAN
    BY <1>6, BindCounts DEF Pnl, Amounts
  <2> QED BY <1>6, <2>3, <2>4 DEF Pnl, Amounts
<1>7. CASE StageFill \/ StagePnl
  <2>1. faults' \in 0..MaxFaults /\ lateFault' \in BOOLEAN
    BY <1>7, BindCounts, RaisesFacts DEF StageFill, StagePnl, PersistStage, Amounts
  <2> QED BY <1>7, <2>1 DEF StageFill, StagePnl, Amounts
<1>8. CASE PersistAudit \/ Finalize \/ FailAudit \/ FailFinalize
  <2>1. faults' \in 0..MaxFaults /\ lateFault' \in BOOLEAN
    BY <1>8, WriteFacts DEF PersistAudit, Finalize, FailAudit, FailFinalize
  <2> QED BY <1>8, <2>1 DEF PersistAudit, Finalize, FailAudit, FailFinalize, Amounts
<1>9. CASE Kill \/ SetBreaker \/ SetMode \/ Ended \/ UNCHANGED vars
  BY <1>9 DEF Kill, SetBreaker, SetMode, Ended, vars, Amounts
<1> QED BY <1>1, <1>2, <1>3, <1>4, <1>5, <1>6, <1>7, <1>8, <1>9 DEF Next, Step

\* TypeOK: every variable keeps its type; in particular no batch overdraws the
\* account or sells more than it holds, for any prices, weights and rates.
THEOREM DailyTypeCorrect == Spec => []TypeOK
<1>1. IInv /\ Amounts => TypeOK
  BY DEF IInv, Shape, Amounts, TypeOK
<1> QED BY <1>1, InitIInv, NextIInv, InitAmounts, NextAmounts, PTL DEF Spec
=============================================================================
