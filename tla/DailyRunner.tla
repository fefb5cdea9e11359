------------------------------ MODULE DailyRunner ------------------------------
(***************************************************************************)
(* OperationalDailyRunner (operations.py) of several schedulers, guarded   *)
(* by RedisLeaseLock (locking.py): SET NX PX with a fresh token, no        *)
(* renewal while the job runs, and a compare-and-delete release.  Time is  *)
(* counted in ticks of the lease; a job takes any number of them.          *)
(***************************************************************************)
EXTENDS Integers, FiniteSets

CONSTANTS
  Schedulers,
  Ttl,        \* the lease, ttl_ms, in ticks
  MaxTokens   \* bound: runs started, each with a token of its own

ASSUME LeaseAssumption == Ttl \in Nat \ {0} /\ MaxTokens \in Nat

VARIABLES
  key,        \* the token stored under the lock's key in Redis; 0 is no key
  left,       \* ticks until Redis drops the key
  pc,         \* where each scheduler's run() is
  token,      \* its token; 0 before its first run
  age,        \* ticks since its SET, counted up to Ttl
  tokens      \* tokens handed out

vars == <<key, left, pc, token, age, tokens>>

Places == {"idle", "acquire", "job", "notify", "release"}

Init ==
  /\ key = 0 /\ left = 0
  /\ pc = [s \in Schedulers |-> "idle"]
  /\ token = [s \in Schedulers |-> 0]
  /\ age = [s \in Schedulers |-> Ttl]
  /\ tokens = 0

Goto(s, place) == pc' = [pc EXCEPT ![s] = place]

\* A scheduler starts a run: token_factory() gives it a new token.
Start(s) ==
  /\ pc[s] = "idle" /\ tokens < MaxTokens
  /\ tokens' = tokens + 1
  /\ token' = [token EXCEPT ![s] = tokens + 1]
  /\ Goto(s, "acquire")
  /\ UNCHANGED <<key, left, age>>

\* Mutant of Acquire: SET without NX.
Acquire_Overwrites(s) ==
  /\ pc[s] = "acquire"
  /\ key' = token[s] /\ left' = Ttl
  /\ age' = [age EXCEPT ![s] = 0]
  /\ Goto(s, "job")
  /\ UNCHANGED <<token, tokens>>

\* SET key token NX PX ttl: LockError when the key exists.
Acquire(s) ==
  /\ pc[s] = "acquire"
  /\ \/ /\ key = 0
        /\ key' = token[s] /\ left' = Ttl
        /\ age' = [age EXCEPT ![s] = 0]
        /\ Goto(s, "job")
     \/ key # 0 /\ Goto(s, "idle") /\ UNCHANGED <<key, left, age>>
  /\ UNCHANGED <<token, tokens>>

\* job.run returns or raises; both are notified.
JobEnds(s) ==
  /\ pc[s] = "job"
  /\ Goto(s, "notify")
  /\ UNCHANGED <<key, left, token, age, tokens>>

\* _notify swallows every error of the notifier.
Notify(s) ==
  /\ pc[s] = "notify"
  /\ Goto(s, "release")
  /\ UNCHANGED <<key, left, token, age, tokens>>

\* Mutant of Release: a plain DEL, whoever holds the key.
Release_Unconditional(s) ==
  /\ pc[s] = "release"
  /\ key' = 0 /\ left' = 0
  /\ Goto(s, "idle")
  /\ UNCHANGED <<token, age, tokens>>

\* The Lua script: delete the key if it still holds this run's token.
Release(s) ==
  /\ pc[s] = "release"
  /\ IF key = token[s] THEN key' = 0 /\ left' = 0 ELSE UNCHANGED <<key, left>>
  /\ Goto(s, "idle")
  /\ UNCHANGED <<token, age, tokens>>

\* The scheduler's process dies, or Redis does not answer the release.
Die(s) ==
  /\ pc[s] \in {"job", "notify", "release"}
  /\ Goto(s, "idle")
  /\ UNCHANGED <<key, left, token, age, tokens>>

\* Mutants of Tick: the key outlives its lease; the lease never runs down.
Tick_KeepsKey ==
  /\ left > 0
  /\ left' = left - 1
  /\ UNCHANGED <<key, pc, token, age, tokens>>
Tick_Renews ==
  /\ \E s \in Schedulers : age[s] < Ttl
  /\ age' = [s \in Schedulers |-> IF age[s] < Ttl THEN age[s] + 1 ELSE Ttl]
  /\ UNCHANGED <<key, left, pc, token, tokens>>

\* Time passes; Redis drops the key at the end of its lease.
Tick ==
  /\ left > 0 \/ \E s \in Schedulers : age[s] < Ttl
  /\ left' = IF left > 0 THEN left - 1 ELSE 0
  /\ key' = IF left' = 0 THEN 0 ELSE key
  /\ age' = [s \in Schedulers |-> IF age[s] < Ttl THEN age[s] + 1 ELSE Ttl]
  /\ UNCHANGED <<pc, token, tokens>>

Step(s) == Acquire(s) \/ JobEnds(s) \/ Notify(s) \/ Release(s)

Finished == tokens = MaxTokens /\ key = 0 /\ (\A s \in Schedulers : pc[s] = "idle") /\ UNCHANGED vars

Next == Tick \/ Finished \/ \E s \in Schedulers : Start(s) \/ Step(s) \/ Die(s)

Spec == Init /\ [][Next]_vars

\* Redis expires keys, and a scheduler that is alive goes on.
FairSpec == Spec /\ WF_vars(Tick) /\ \A s \in Schedulers : WF_vars(Step(s))

-----------------------------------------------------------------------------
(* Properties.                                                             *)
Holding(s) == pc[s] \in {"job", "notify", "release"}

\* TypeOK: every variable keeps its type, and the key lives as long as its
\* lease has ticks left.
TypeOK ==
  /\ key \in 0..tokens /\ left \in 0..Ttl /\ (key = 0 <=> left = 0)
  /\ pc \in [Schedulers -> Places]
  /\ token \in [Schedulers -> 0..tokens]
  /\ age \in [Schedulers -> 0..Ttl]
  /\ tokens \in 0..MaxTokens

\* LeaseExcludes: of the runs that are within their lease, only one is between
\* its SET and its release: a job shorter than ttl_ms is alone.
LeaseExcludes ==
  \A r, s \in Schedulers :
    Holding(r) /\ Holding(s) /\ age[r] < Ttl /\ age[s] < Ttl => r = s

\* ReleaseOwnOnly: a run's release never removes the lock of another run, not
\* even when its own lease ran out while the job was still busy.
ReleaseOwnOnly ==
  [][\A s \in Schedulers : Holding(s) /\ key = token[s] /\ age[s] < Ttl /\ key' = 0
       => pc'[s] = "idle" \/ age'[s] = Ttl]_vars

\* LockComesFree: the lock is never held for ever, even by a dead scheduler.
LockComesFree == key # 0 ~> key = 0

=============================================================================
