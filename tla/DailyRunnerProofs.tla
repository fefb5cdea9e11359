--------------------------- MODULE DailyRunnerProofs ---------------------------
(***************************************************************************)
(* Mutual exclusion within the lease and the own-token release, for every  *)
(* set of schedulers and every lease length.                               *)
(***************************************************************************)
EXTENDS DailyRunner, TLAPS

\* Two schedulers never hold the same token.
TokensDiffer == \A r, s \in Schedulers : token[r] = token[s] /\ token[r] # 0 => r = s

\* A scheduler that is about to SET the key has a token.
TokenReady == \A s \in Schedulers : pc[s] = "acquire" \/ Holding(s) => token[s] # 0

\* A run within its lease owns the key, and the key's remaining life is the
\* rest of that lease.
LeaseOwnsKey ==
  \A s \in Schedulers : Holding(s) /\ age[s] < Ttl => key = token[s] /\ left = Ttl - age[s]

IInv == TypeOK /\ TokensDiffer /\ TokenReady /\ LeaseOwnsKey

\* Initially no scheduler runs and there is no key.
LEMMA InitIInv == Init => IInv
  BY LeaseAssumption DEF Init, IInv, TypeOK, TokensDiffer, TokenReady, LeaseOwnsKey, Holding, Places

\* Every step of a scheduler and of time keeps the inductive invariant.
LEMMA NextIInv == IInv /\ [Next]_vars => IInv'
<1> SUFFICES ASSUME IInv, [Next]_vars PROVE IInv'
  OBVIOUS
<1> USE LeaseAssumption DEF IInv, TypeOK, TokensDiffer, TokenReady, LeaseOwnsKey, Holding, Places, Goto
<1>1. ASSUME NEW s \in Schedulers, Start(s) PROVE IInv'
  BY <1>1 DEF Start
<1>2. ASSUME NEW s \in Schedulers, Acquire(s) PROVE IInv'
  BY <1>2 DEF Acquire
<1>3. ASSUME NEW s \in Schedulers, JobEnds(s) \/ Notify(s) \/ Die(s) PROVE IInv'
  BY <1>3 DEF JobEnds, Notify, Die
<1>4. ASSUME NEW s \in Schedulers, Release(s) PROVE IInv'
  BY <1>4 DEF Release
<1>5. CASE Tick
  BY <1>5 DEF Tick
<1>6. CASE UNCHANGED vars
  BY <1>6 DEF vars
<1>7. QED
  BY <1>1, <1>2, <1>3, <1>4, <1>5, <1>6 DEF Next, Step, Finished

\* The inductive invariant holds in every state of the lock and its schedulers.
LEMMA SpecIInv == Spec => []IInv
  BY InitIInv, NextIInv, PTL DEF Spec

\* The type invariant of the lock and the runners, for any lease.
THEOREM LeaseTypeCorrect == Spec => []TypeOK
<1>1. IInv => TypeOK
  BY DEF IInv
<1>2. QED
  BY <1>1, SpecIInv, PTL

\* RedisLeaseLock excludes: two runs that are both within ttl_ms of their SET
\* are the same run, for any number of schedulers and any lease.
THEOREM LeaseIsExclusive == Spec => []LeaseExcludes
<1>1. IInv => LeaseExcludes
  BY DEF IInv, TokensDiffer, TokenReady, LeaseOwnsKey, LeaseExcludes
<1>2. QED
  BY <1>1, SpecIInv, PTL

\* The compare-and-delete of RedisLeaseLock's release only removes the lock of
\* the run that releases: the key of a run within its lease goes away when
\* that run ends or when its lease runs out, and for no other reason.
THEOREM ReleaseIsOwn == Spec => ReleaseOwnOnly
<1> DEFINE Own == \A s \in Schedulers :
             Holding(s) /\ key = token[s] /\ age[s] < Ttl /\ key' = 0
               => pc'[s] = "idle" \/ age'[s] = Ttl
<1>1. ASSUME IInv, [Next]_vars PROVE [Own]_vars
  <2> SUFFICES ASSUME NEW s \in Schedulers, Holding(s), key = token[s], age[s] < Ttl, key' = 0
               PROVE pc'[s] = "idle" \/ age'[s] = Ttl
    OBVIOUS
  <2> USE <1>1, LeaseAssumption DEF IInv, TypeOK, TokensDiffer, TokenReady, LeaseOwnsKey, Holding, Goto
  <2>1. token[s] # 0
    OBVIOUS
  <2>2. ASSUME NEW r \in Schedulers, Start(r) \/ JobEnds(r) \/ Notify(r) \/ Die(r) PROVE FALSE
    BY <2>1, <2>2 DEF Start, JobEnds, Notify, Die
  <2>3. ASSUME NEW r \in Schedulers, Acquire(r) PROVE FALSE
    BY <2>1, <2>3 DEF Acquire
  <2>4. ASSUME NEW r \in Schedulers, Release(r) PROVE pc'[s] = "idle"
    BY <2>1, <2>4 DEF Release
  <2>5. ASSUME Tick PROVE age'[s] = Ttl
    BY <2>1, <2>5 DEF Tick
  <2>6. ASSUME UNCHANGED vars PROVE FALSE
    BY <2>1, <2>6 DEF vars
  <2>7. QED
    BY <2>2, <2>3, <2>4, <2>5, <2>6 DEF Next, Step, Finished
<1>2. QED
  BY <1>1, SpecIInv, PTL DEF Spec, ReleaseOwnOnly
=============================================================================
