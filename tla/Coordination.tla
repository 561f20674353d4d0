---------------------------- MODULE Coordination ----------------------------
(***************************************************************************)
(* The token buckets of packages/maxstack-core/src/sprout/coordination.ts: *)
(* in process, a map every instance has to itself, or one table they share. *)
(*                                                                         *)
(* A caller stamps its request with the clock of its instance, and the     *)
(* statement that spends runs some time later; statements on one bucket    *)
(* run one after another, not always in the order of their stamps.  A      *)
(* bucket is full when Window units of time have passed since it was       *)
(* drained, whatever its budget, so its level is counted in those units:   *)
(* a token of a budget of max costs Window \div max of them, and an edited *)
(* budget rescales the tokens by leaving the level where it is.            *)
(***************************************************************************)
EXTENDS Integers, FiniteSets

CONSTANTS
  Keys,       \* buckets: an api key, a portal and its visitor
  Window,     \* windowMs: the time of a full refill
  Budgets,    \* the values `max` takes, as budgets are edited
  Retention,  \* BUCKET_RETENTION_MS
  Instances,  \* processes
  Skew,       \* instance -> how far its clock is ahead of the slowest one
  Table,      \* the shared table, where an instance has no map of its own
  Callers,    \* requests that may be in progress together
  At,         \* caller -> the instance that serves it
  MaxClock,    \* bound: the clock stops there
  MaxCalls,   \* bound: requests that come
  MaxRestarts \* bound: restarts of a process

ASSUME BucketsAssumption ==
  /\ Window \in Nat \ {0} /\ Retention \in Nat
  /\ Keys # {} /\ Budgets # {} /\ Budgets \subseteq Nat
  /\ \A max \in Budgets : max >= 1 => Window % max = 0 /\ Window \div max \in Nat
  /\ Skew \in [Instances -> Nat] /\ At \in [Callers -> Instances]
  /\ Instances # {} /\ Table \notin Instances
  /\ MaxClock \in Nat /\ MaxCalls \in Nat /\ MaxRestarts \in Nat

\* "A bucket idle for longer than its own window is full" (coordination.ts,
\* BUCKET_RETENTION_MS): so it must be kept that long.
ASSUME RetentionAssumption == Window <= Retention

VARIABLES
  kind,     \* the coordinator of the deployment: "in-process" or "postgres"
  clock,
  bucket,   \* store -> key -> the stored row
  call,     \* the requests in progress
  given,    \* bucketHistory: what the callers of a bucket were given, as level
  seen,     \* bucketHistory: the last stamp a bucket was written or removed with
  setBack,  \* bucketHistory: how far older stamps have set it back in all
  restarts, \* bucketHistory: restarts of an instance
  calls

bucketHistory == <<given, seen, setBack>>
bucketVars == <<kind, clock, bucket, call, bucketHistory, restarts, calls>>

-----------------------------------------------------------------------------
None   == [level |-> Window, at |-> -1]
Bucket == [level : 0..Window, at : Nat] \cup {None}

Call == [pc : {"idle", "take", "sweep"}, key : Keys, max : Budgets, now : Nat]

Idle == CHOOSE c \in [pc : {"idle"}, key : Keys, max : Budgets, now : {0}] : TRUE

ClockOf(i) == clock + Skew[i]

\* Where the buckets of a deployment live: in the table, or in the maps of its
\* instances.
Stores == Instances \cup {Table}
StoreOf(i) == IF kind = "postgres" THEN Table ELSE i

Elapsed(b, now) == IF now > b.at THEN now - b.at ELSE 0

\* spendToken and refillExpr: a bucket that is not there is full, and time
\* never runs backwards.
Refilled(b, now) ==
  IF b = None \/ b.level + Elapsed(b, now) >= Window THEN Window
  ELSE b.level + Elapsed(b, now)

Cost(max) == Window \div max

SetBack(st, k, now) ==
  [setBack EXCEPT ![st][k] = IF now < seen[st][k] THEN @ + (seen[st][k] - now) ELSE @]

\* RateLimiter.check: the stamp is taken, the statement is on its way.
Check(c) ==
  /\ call[c].pc = "idle"
  /\ calls < MaxCalls
  /\ calls' = calls + 1
  /\ \E k \in Keys, max \in Budgets :
       call' = [call EXCEPT ![c] = [pc |-> "take", key |-> k, max |-> max, now |-> ClockOf(At[c])]]
  /\ UNCHANGED <<kind, clock, bucket, bucketHistory, restarts>>

\* A budget of none is refused without touching the bucket.
RefuseUnbudgeted(c) ==
  /\ call[c].pc = "take" /\ ~(call[c].max >= 1)
  /\ call' = [call EXCEPT ![c] = Idle]
  /\ UNCHANGED <<kind, clock, bucket, bucketHistory, restarts, calls>>

\* TAKE_SQL, or the map of the in-process coordinator: refill, spend and stamp
\* in one step.  The shared table is swept after some of the takes.
Take(c) ==
  /\ call[c].pc = "take" /\ call[c].max >= 1
  /\ LET st == StoreOf(At[c])
         k == call[c].key
         now == call[c].now
         level == Refilled(bucket[st][k], now)
         cost == Cost(call[c].max)
         paid == IF level >= cost THEN cost ELSE 0
     IN  /\ bucket' = [bucket EXCEPT ![st][k] = [level |-> level - paid, at |-> now]]
         /\ given' = [given EXCEPT ![st][k] = @ + paid]
         /\ setBack' = SetBack(st, k, now)
         /\ seen' = [seen EXCEPT ![st][k] = now]
         /\ call' \in {[call EXCEPT ![c] = Idle]} \cup
                      {f \in {[call EXCEPT ![c].pc = "sweep"]} : kind = "postgres"}
  /\ UNCHANGED <<kind, clock, restarts, calls>>

\* Mutant: every bucket that has not been used just now goes.
NotJustUsed(b, now) == b.at < now

\* `updated_at < now - BUCKET_RETENTION_MS`
Untouched(b, now) == b.at < now - Retention

\* The sweep: buckets untouched for long are deleted, whoever's they are.
Sweep(c) ==
  /\ call[c].pc = "sweep"
  /\ LET st == StoreOf(At[c])
         now == call[c].now
         gone == {k \in Keys : bucket[st][k] # None /\ Untouched(bucket[st][k], now)}
     IN  /\ bucket' = [bucket EXCEPT ![st] = [k \in Keys |-> IF k \in gone THEN None ELSE bucket[st][k]]]
         /\ seen' = [seen EXCEPT ![st] = [k \in Keys |-> IF k \in gone THEN now ELSE seen[st][k]]]
  /\ call' = [call EXCEPT ![c] = Idle]
  /\ UNCHANGED <<kind, clock, given, setBack, restarts, calls>>

\* A process restarts: its requests are gone, and its map is.
Restart(i) ==
  /\ restarts[i] < MaxRestarts
  /\ restarts' = [restarts EXCEPT ![i] = @ + 1]
  /\ call' = [c \in Callers |-> IF At[c] = i THEN Idle ELSE call[c]]
  /\ bucket' = [bucket EXCEPT ![i] = [k \in Keys |-> None]]
  /\ UNCHANGED <<kind, clock, bucketHistory, calls>>

ClockTicks ==
  /\ clock < MaxClock
  /\ clock' = clock + 1
  /\ UNCHANGED <<kind, bucket, call, bucketHistory, restarts, calls>>

PerBucket(x) == [st \in Stores |-> [k \in Keys |-> x]]

BucketsInit ==
  /\ kind \in {"in-process", "postgres"}
  /\ clock = 0
  /\ bucket = PerBucket(None)
  /\ call = [c \in Callers |-> Idle]
  /\ given = PerBucket(0) /\ seen = PerBucket(0) /\ setBack = PerBucket(0)
  /\ restarts = [i \in Instances |-> 0]
  /\ calls = 0

BucketsNext ==
  \/ \E c \in Callers : Check(c) \/ RefuseUnbudgeted(c) \/ Take(c) \/ Sweep(c)
  \/ \E i \in Instances : Restart(i)
  \/ ClockTicks

BucketsSpec == BucketsInit /\ [][BucketsNext]_bucketVars

-----------------------------------------------------------------------------
(* Properties                                                              *)

\* Every variable has its type.
BucketsTypeOK ==
  /\ kind \in {"in-process", "postgres"}
  /\ clock \in Nat /\ calls \in Nat
  /\ bucket \in [Stores -> [Keys -> Bucket]]
  /\ call \in [Callers -> Call]
  /\ given \in [Stores -> [Keys -> Nat]]
  /\ seen \in [Stores -> [Keys -> Nat]]
  /\ setBack \in [Stores -> [Keys -> Nat]]
  /\ restarts \in [Instances -> Nat]

\* What a bucket gives, over any stretch of calls by any number of callers and
\* through every change of its budget: one full bucket, another one per restart
\* of a process that keeps it in memory, the refill of the time that has passed,
\* and no more than that but for the time that stamps older than the last one set
\* it back, which the next call refills again (coordination.ts:141-166, 295-325).
WithinBudget ==
  \A st \in Stores, k \in Keys : \E i \in Instances :
    given[st][k] <= Window * (1 + (IF st = Table THEN 0 ELSE restarts[st]))
                      + ClockOf(i) + setBack[st][k]

\* A shared budget is served at the declared number (rate-limit.ts:24-28).
DeclaredBudget ==
  \A k \in Keys : \E i \in Instances : given[Table][k] <= Window + ClockOf(i)
=============================================================================
