------------------------------ MODULE JobQueue ------------------------------
(***************************************************************************)
(* The durable background-job runtime of packages/features/src/jobs: the   *)
(* JobQueue class of service.ts over a JobStore.                           *)
(*                                                                         *)
(* A row of the `job` table is an element of Ids, numbered in creation     *)
(* order.  Four kinds of actor share the table:                            *)
(*   - enqueuers   run JobQueue.enqueue: pre-check, insert, re-read;       *)
(*   - ticks       run JobQueue.tick: claim, handler, record the outcome.  *)
(*                 start() polls with setInterval, so one process may have *)
(*                 several ticks in flight, and several processes may poll;*)
(*   - operators   run JobQueue.retry from the dead-letter list of /jobs,   *)
(*                 on whatever has become of the row by then;              *)
(*   - the clock   makes a backed-off row due.                             *)
(* Each await in the code is a boundary between two actions here.          *)
(***************************************************************************)
EXTENDS Naturals, FiniteSets

CONSTANTS
  MaxJobs,      \* bound: rows the table may come to hold
  Keys,         \* idempotency keys callers use
  NoKey,        \* idempotencyKey: null (fire-and-forget work)
  Budgets,      \* values of EnqueueInput.maxAttempts (3 when omitted)
  Types,        \* job types that are enqueued
  Handled,      \* the types somebody registered a handler for
  Enqueuers,    \* concurrent callers of enqueue()
  Ticks,        \* concurrent calls of tick()
  Operators,    \* concurrent callers of retry()
  Procs,        \* processes
  ProcOf,       \* the process a call runs in
  AtomicClaim,  \* TRUE: createMemoryJobStore; FALSE: createDrizzleJobStore
  ListLimit,    \* the rows retry() looks at (1000 in the code)
  MaxGrants,    \* bound: operator retries of one row
  MaxFaults     \* bound: process crashes and rejected store writes

ASSUME ConstantsAssumption ==
  /\ MaxJobs \in Nat /\ ListLimit \in Nat /\ MaxGrants \in Nat /\ MaxFaults \in Nat
  /\ NoKey \notin Keys
  /\ Budgets \subseteq Nat \ {0}
  /\ Handled \subseteq Types
  /\ ProcOf \in [Enqueuers \cup Ticks \cup Operators -> Procs]
  /\ AtomicClaim \in BOOLEAN

Ids == 1..MaxJobs
NoId == 0

VARIABLES
  jobs,     \* the job table: id -> row
  req,      \* enqueuer -> its call in progress, or the last one's answer
  tick,     \* tick slot -> its call in progress and the record it claimed
  op,       \* operator -> its retry in progress
  runs,     \* history: how often a row's handler was invoked
  grants,   \* history: how often an operator's retry was written to a row
  clobbered,\* history: the rows a write by id found other than as they were read
  faults    \* crashes and rejected writes so far

vars == <<jobs, req, tick, op, runs, grants, clobbered, faults>>

-----------------------------------------------------------------------------
(* Types and reads of the table                                            *)

Outcomes == {"ok", "error", "permanent", "noHandler"}

Row == [status      : {"absent", "pending", "running", "succeeded", "failed"},
        type        : Types \cup {"none"},
        key         : Keys \cup {NoKey},
        attempts    : Nat,
        maxAttempts : Nat,
        due         : BOOLEAN,    \* availableAt <= now
        dead        : BOOLEAN]    \* deadLetteredAt # null

Request == [pc     : {"idle", "inserting", "lost", "done"},
            key    : Keys \cup {NoKey},
            type   : Types \cup {"none"},
            budget : Nat,
            id     : Ids \cup {NoId}]

Call == [pc      : {"idle", "selected", "running", "recording"},
         id      : Ids \cup {NoId},
         attempt : Nat,
         max     : Nat,
         outcome : Outcomes]

Retry == [pc : {"idle", "read", "refused"}, id : Ids \cup {NoId}, attempts : Nat]

NoRow == [status |-> "absent", type |-> "none", key |-> NoKey, attempts |-> 0,
          maxAttempts |-> 0, due |-> FALSE, dead |-> FALSE]
NoRequest == [pc |-> "idle", key |-> NoKey, type |-> "none", budget |-> 0,
              id |-> NoId]
NoCall == [pc |-> "idle", id |-> NoId, attempt |-> 0, max |-> 0, outcome |-> "ok"]
NoRetry == [pc |-> "idle", id |-> NoId, attempts |-> 0]

Exists(i) == jobs[i].status # "absent"

\* findByIdempotencyKey(key) as the set of rows it may return.
Holders(k) == {i \in Ids : Exists(i) /\ jobs[i].key = k}

\* Mutant: only a row that was never attempted is claimable.
FreshClaimable(i) == jobs[i].status = "pending" /\ jobs[i].due /\ jobs[i].attempts = 0

\* The unique index on idempotency_key rejects a second row for k; nulls are
\* not compared.
UniqueViolation(k) == k # NoKey /\ Holders(k) # {}

\* The row claimNext(now) picks: pending, due, the oldest by createdAt.
Claimable(i) == jobs[i].status = "pending" /\ jobs[i].due
NextDue(i) == Claimable(i) /\ \A j \in Ids : j < i => ~Claimable(j)

\* store.list({limit}): the newest `limit` rows.
Listed(i, limit) == Exists(i) /\ Cardinality({j \in Ids : i < j /\ Exists(j)}) < limit

\* A row a live tick has claimed and not yet recorded.
Holds(t, i) == tick[t].pc \in {"running", "recording"} /\ tick[t].id = i
Held(i) == \E t \in Ticks : Holds(t, i)

\* update(id, patch): the row with the patch applied; an unknown id is a no-op.
Put(i, row) == jobs' = [jobs EXCEPT ![i] = row]

\* Such a patch comes from an earlier read of the row, which it overwrites unseen.
Blind(i, asRead) == clobbered' = IF asRead THEN clobbered ELSE clobbered \cup {i}

-----------------------------------------------------------------------------
(* JobQueue.enqueue                                                        *)

\* The call returns row i for key k.
Answer(k, i) == [NoRequest EXCEPT !.pc = "done", !.key = k, !.id = i]

\* `if (key) findByIdempotencyKey(key)`: answer the row found, else build the
\* record and go on to the insert.
EnqueueCheck(e) ==
  /\ req[e].pc \in {"idle", "done"}
  /\ \E k \in Keys \cup {NoKey}, ty \in Types, b \in Budgets :
       LET asked == [pc |-> "inserting", key |-> k, type |-> ty, budget |-> b,
                     id |-> NoId]
       IN  \/ /\ k # NoKey /\ Holders(k) # {}
              /\ \E i \in Holders(k) :
                   req' = [req EXCEPT ![e] = Answer(k, i)]
           \/ /\ k = NoKey \/ Holders(k) = {}
              /\ req' = [req EXCEPT ![e] = asked]
  /\ UNCHANGED <<jobs, tick, op, runs, grants, clobbered, faults>>

\* `store.insert(record)`: the unique index on idempotency_key decides.  No
\* caller passes availableAt, so a new row is due at once.
EnqueueInsert(e) ==
  /\ req[e].pc = "inserting"
  /\ \/ /\ UniqueViolation(req[e].key)
        /\ req' = [req EXCEPT ![e].pc = "lost"]
        /\ UNCHANGED jobs
     \/ /\ ~UniqueViolation(req[e].key)
        /\ \E i \in Ids :
             /\ ~Exists(i) /\ \A j \in Ids : j < i => Exists(j)
             /\ Put(i, [status |-> "pending", type |-> req[e].type, key |-> req[e].key,
                         attempts |-> 0, maxAttempts |-> req[e].budget,
                         due |-> TRUE, dead |-> FALSE])
             /\ req' = [req EXCEPT ![e] = Answer(req[e].key, i)]
  /\ UNCHANGED <<tick, op, runs, grants, clobbered, faults>>

\* Mutant: the loser answers with the record it failed to insert.
LoserKeepsItsRecord(e) ==
  /\ req[e].pc = "lost"
  /\ req' = [req EXCEPT ![e] = Answer(req[e].key, NoId)]
  /\ UNCHANGED <<jobs, tick, op, runs, grants, clobbered, faults>>

\* The loser of the insert reads the winner's row back.
EnqueueReread(e) ==
  /\ req[e].pc = "lost"
  /\ \E i \in Holders(req[e].key) :
       req' = [req EXCEPT ![e] = Answer(req[e].key, i)]
  /\ UNCHANGED <<jobs, tick, op, runs, grants, clobbered, faults>>

-----------------------------------------------------------------------------
(* JobQueue.tick                                                           *)

\* What tick() does with a claimed row first: a type nobody handles goes
\* straight to the dead-letter write, any other runs its handler.
Begin(i, row) ==
  [pc      |-> IF row.type \in Handled THEN "running" ELSE "recording",
   id      |-> i,
   attempt |-> row.attempts + 1,
   max     |-> row.maxAttempts,
   outcome |-> IF row.type \in Handled THEN "ok" ELSE "noHandler"]

\* Mutant: the claim does not flip the row to running.
ClaimWithoutFlip(t) ==
  /\ AtomicClaim
  /\ tick[t].pc = "idle"
  /\ \E i \in Ids : NextDue(i) /\ tick' = [tick EXCEPT ![t] = Begin(i, jobs[i])]
  /\ UNCHANGED <<jobs, req, op, runs, grants, clobbered, faults>>

\* claimNext of the memory store: filter, sort and flip without an await.
ClaimMemory(t) ==
  /\ AtomicClaim
  /\ tick[t].pc = "idle"
  /\ \E i \in Ids :
       /\ NextDue(i)
       /\ tick' = [tick EXCEPT ![t] = Begin(i, jobs[i])]
       /\ Put(i, [jobs[i] EXCEPT !.status = "running"])
  /\ UNCHANGED <<req, op, runs, grants, clobbered, faults>>

\* claimNext of the drizzle store, first statement: SELECT the oldest due row.
ClaimSelect(t) ==
  /\ ~AtomicClaim
  /\ tick[t].pc = "idle"
  /\ \E i \in Ids :
       /\ NextDue(i)
       /\ tick' = [tick EXCEPT ![t] = [Begin(i, jobs[i]) EXCEPT !.pc = "selected"]]
  /\ UNCHANGED <<jobs, req, op, runs, grants, clobbered, faults>>

\* The row a tick selected is still the one it selected.
AsSelected(t) ==
  LET row == jobs[tick[t].id]
  IN  /\ row.status = "pending"
      /\ tick[t].attempt = row.attempts + 1 /\ tick[t].max = row.maxAttempts

\* claimNext of the drizzle store, second statement: UPDATE ... WHERE id, with
\* no condition on the status; the record returned is the one selected.
ClaimUpdate(t) ==
  /\ tick[t].pc = "selected"
  /\ Blind(tick[t].id, AsSelected(t))
  /\ Put(tick[t].id, [jobs[tick[t].id] EXCEPT !.status = "running"])
  /\ tick' = [tick EXCEPT ![t].pc = IF tick[t].outcome = "noHandler"
                                    THEN "recording" ELSE "running"]
  /\ UNCHANGED <<req, op, runs, grants, faults>>

\* claimNext, of the store the queue was made with.
ClaimNext(t) == IF AtomicClaim THEN ClaimMemory(t) ELSE ClaimSelect(t) \/ ClaimUpdate(t)

\* The handler resolves, throws, or throws a PermanentJobError.
RunHandler(t) ==
  /\ tick[t].pc = "running"
  /\ \E o \in {"ok", "error", "permanent"} :
       tick' = [tick EXCEPT ![t].pc = "recording", ![t].outcome = o]
  /\ runs' = [runs EXCEPT ![tick[t].id] = @ + 1]
  /\ UNCHANGED <<jobs, req, op, grants, clobbered, faults>>

\* Mutant: off by one in the budget.
OneRetryTooMany(t) == tick[t].attempt <= tick[t].max

\* `attempt < claimed.maxAttempts`, of the record as it was claimed.
RetriesLeft(t) == tick[t].attempt < tick[t].max

\* update(claimed.id, patch), which writes by id whatever the row is by then, and
\* the end of the tick.
Settle(t, row) ==
  /\ Put(tick[t].id, row)
  /\ tick' = [tick EXCEPT ![t] = NoCall]
  /\ UNCHANGED <<req, op, runs, grants, clobbered, faults>>

RecordSuccess(t) ==
  /\ tick[t].pc = "recording" /\ tick[t].outcome = "ok"
  /\ Settle(t, [jobs[tick[t].id] EXCEPT !.status = "succeeded",
                                        !.attempts = tick[t].attempt])

\* Back to pending, available again after backoffMs(attempt).
RecordRetry(t) ==
  /\ tick[t].pc = "recording" /\ tick[t].outcome = "error" /\ RetriesLeft(t)
  /\ Settle(t, [jobs[tick[t].id] EXCEPT !.status = "pending",
                                        !.attempts = tick[t].attempt,
                                        !.due = FALSE])

\* Out of budget, or a PermanentJobError.
RecordFailure(t) ==
  /\ tick[t].pc = "recording"
  /\ \/ tick[t].outcome = "permanent"
     \/ tick[t].outcome = "error" /\ ~RetriesLeft(t)
  /\ Settle(t, [jobs[tick[t].id] EXCEPT !.status = "failed",
                                        !.attempts = tick[t].attempt,
                                        !.dead = TRUE])

\* A job with no handler is dead-lettered at once; `attempts` is left alone.
RecordNoHandler(t) ==
  /\ tick[t].pc = "recording" /\ tick[t].outcome = "noHandler"
  /\ Settle(t, [jobs[tick[t].id] EXCEPT !.status = "failed", !.dead = TRUE])

\* The store rejects the write.  The success write sits inside the try, so its
\* rejection is handled as a failed attempt; any other rejection ends the tick
\* (start() voids the promise and the process hook only reports it).
RecordRejected(t) ==
  /\ faults < MaxFaults
  /\ tick[t].pc = "recording"
  /\ tick' = [tick EXCEPT ![t] = IF tick[t].outcome = "ok"
                                 THEN [tick[t] EXCEPT !.outcome = "error"]
                                 ELSE NoCall]
  /\ faults' = faults + 1
  /\ UNCHANGED <<jobs, req, op, runs, grants, clobbered>>

-----------------------------------------------------------------------------
(* JobQueue.retry, from the dead-letter list of the /jobs page             *)

\* retry() reads the newest ListLimit rows and looks for the id among them;
\* an id that is not there is an "Unknown job".  The page has a button for a dead
\* letter, but a second click and a page gone stale post it of a row that has
\* moved on, and nothing looks at its status.
RetryRead(o) ==
  /\ op[o].pc \in {"idle", "refused"}
  /\ \E i \in Ids :
       /\ Exists(i) /\ grants[i] < MaxGrants
       /\ op' = [op EXCEPT ![o] =
                   [pc |-> IF Listed(i, ListLimit) THEN "read" ELSE "refused",
                    id |-> i, attempts |-> jobs[i].attempts]]
  /\ UNCHANGED <<jobs, req, tick, runs, grants, clobbered, faults>>

\* Mutant: a retry resets the budget instead of extending it by one.
ResetBudget(o) == op[o].attempts + 3

\* `row.attempts + 1`, of the row as it was read.
GrantedBudget(o) == op[o].attempts + 1

\* `deadLetteredAt: null`
DeadAfterRetry(o) == FALSE

\* No tick has the row, and none has had it since the read.
AsRead(o) ==
  jobs[op[o].id].status # "running" /\ jobs[op[o].id].attempts = op[o].attempts

\* ... and writes the row back by id, with no condition on its status.
RetryWrite(o) ==
  /\ op[o].pc = "read"
  /\ Blind(op[o].id, AsRead(o))
  /\ Put(op[o].id, [jobs[op[o].id] EXCEPT !.status = "pending",
                                          !.maxAttempts = GrantedBudget(o),
                                          !.dead = DeadAfterRetry(o),
                                          !.due = TRUE])
  /\ grants' = [grants EXCEPT ![op[o].id] = @ + 1]
  /\ op' = [op EXCEPT ![o] = NoRetry]
  /\ UNCHANGED <<req, tick, runs, faults>>

-----------------------------------------------------------------------------
(* Time and failures                                                       *)

\* availableAt passes.
BecomeDue(i) ==
  /\ jobs[i].status = "pending" /\ ~jobs[i].due
  /\ Put(i, [jobs[i] EXCEPT !.due = TRUE])
  /\ UNCHANGED <<req, tick, op, runs, grants, clobbered, faults>>

\* A process dies and comes back: its calls are gone, the table is not.
Crash(p) ==
  /\ faults < MaxFaults
  /\ req'  = [e \in Enqueuers |-> IF ProcOf[e] = p THEN NoRequest ELSE req[e]]
  /\ tick' = [t \in Ticks |-> IF ProcOf[t] = p THEN NoCall ELSE tick[t]]
  /\ op'   = [o \in Operators |-> IF ProcOf[o] = p THEN NoRetry ELSE op[o]]
  /\ faults' = faults + 1
  /\ UNCHANGED <<jobs, runs, grants, clobbered>>

-----------------------------------------------------------------------------
Init ==
  /\ jobs   = [i \in Ids |-> NoRow]
  /\ req    = [e \in Enqueuers |-> NoRequest]
  /\ tick   = [t \in Ticks |-> NoCall]
  /\ op     = [o \in Operators |-> NoRetry]
  /\ runs   = [i \in Ids |-> 0]
  /\ grants = [i \in Ids |-> 0]
  /\ clobbered = {}
  /\ faults = 0

EnqueueStep(e) == EnqueueCheck(e) \/ EnqueueInsert(e) \/ EnqueueReread(e)

TickStep(t) ==
  \/ ClaimNext(t) \/ RunHandler(t)
  \/ RecordSuccess(t) \/ RecordRetry(t) \/ RecordFailure(t) \/ RecordNoHandler(t)

RetryStep(o) == RetryRead(o) \/ RetryWrite(o)

Next ==
  \/ \E e \in Enqueuers : EnqueueStep(e)
  \/ \E t \in Ticks : TickStep(t) \/ RecordRejected(t)
  \/ \E o \in Operators : RetryStep(o)
  \/ \E i \in Ids : BecomeDue(i)
  \/ \E p \in Procs : Crash(p)

Spec == Init /\ [][Next]_vars

\* setInterval keeps calling tick() and every handler settles; time passes; a
\* call of enqueue or retry that began proceeds.  Nobody has to enqueue or retry.
Fairness ==
  /\ \A t \in Ticks : WF_vars(TickStep(t))
  /\ \A i \in Ids : WF_vars(BecomeDue(i))
  /\ \A e \in Enqueuers : WF_vars(EnqueueInsert(e) \/ EnqueueReread(e))
  /\ \A o \in Operators : WF_vars(RetryWrite(o))

FairSpec == Spec /\ Fairness
-----------------------------------------------------------------------------
(* Properties                                                              *)

\* Every variable has its type.
TypeOK ==
  /\ jobs \in [Ids -> Row]
  /\ req \in [Enqueuers -> Request]
  /\ tick \in [Ticks -> Call]
  /\ op \in [Operators -> Retry]
  /\ runs \in [Ids -> Nat] /\ grants \in [Ids -> Nat]
  /\ clobbered \subseteq Ids \cup {NoId} /\ faults \in Nat

\* Two processes racing to enqueue the same occurrence produce one row: an
\* idempotency key is never held by two rows (service.ts, "one row").
OneRowPerKey ==
  \A i, j \in Ids : /\ Exists(i) /\ Exists(j)
                    /\ jobs[i].key # NoKey /\ jobs[i].key = jobs[j].key
                    => i = j

\* Every caller of enqueue(), the loser of the race included, is answered with
\* the row that holds the key it asked for (service.ts, "reads the winner's row
\* back rather than erroring").
EnqueueAgreement ==
  \A e \in Enqueuers : req[e].pc = "done" =>
    /\ req[e].id \in Ids /\ Exists(req[e].id)
    /\ jobs[req[e].id].key = req[e].key
    /\ \A f \in Enqueuers :
         req[f].pc = "done" /\ req[f].key = req[e].key /\ req[e].key # NoKey
           => req[f].id = req[e].id

\* A claimed row has one runner: no two ticks hold the same row at once, and the
\* row a tick holds is still `running`.  A tick that crashes, loses its write or
\* overlaps another, and a retry of a row in any other status, all leave it so; what
\* does not is named by `clobbered`: a retry that reopens a row a tick has or had
\* since it was read, and over drizzle a claim of a row already claimed.
OneRunnerPerRow ==
  \A i \in Ids \ clobbered, t \in Ticks : Holds(t, i) =>
    /\ jobs[i].status = "running"
    /\ \A u \in Ticks : Holds(u, i) => t = u

\* A handler is invoked at most `maxAttempts` times, and a retry by an operator
\* buys exactly one more invocation, whatever crashes and rejected writes do and
\* whether the row had failed, was waiting or had succeeded.
RunsWithinBudget ==
  \A i \in Ids \ clobbered : Exists(i) =>
    /\ runs[i] <= jobs[i].maxAttempts
    /\ jobs[i].attempts <= runs[i]

\* "Needs a human" is a column and not a predicate: a row is in the dead-letter
\* list exactly when it is failed (schema.ts, dead_lettered_at).
DeadLetterExact ==
  \A i \in Ids \ clobbered : Exists(i) => (jobs[i].dead <=> jobs[i].status = "failed")

Settled(i) == jobs[i].status \in {"succeeded", "failed"}

\* A finished row stays finished: a late or lost write of another tick does not
\* reach it, and it changes only by an operator's retry.
TerminalIsFinal ==
  [][\A i \in Ids \ clobbered' :
       Settled(i) /\ jobs'[i] # jobs[i] => grants'[i] = grants[i] + 1]_vars

\* A running row whose tick is gone: nothing will ever pick it up.
Abandoned(i) ==
  faults > 0 /\ jobs[i].status = "running" /\ ~\E t \in Ticks : tick[t].id = i

\* Every row that is enqueued is in the end settled for good, unless the tick
\* that ran it died or lost its write.
EventuallySettles ==
  \A i \in Ids : Exists(i) ~> [](Settled(i) \/ Abandoned(i))

\* The queue implements the lifecycle schema.ts promises for each row, up to the
\* write that clobbers it.
Lifecycle ==
  INSTANCE JobLifecycle WITH
    status <- [i \in Ids |-> jobs[i].status],
    used   <- [i \in Ids |-> jobs[i].attempts],
    budget <- [i \in Ids |-> jobs[i].maxAttempts],
    clobbered <- clobbered

ImplementsLifecycle == Lifecycle!Spec
=============================================================================
