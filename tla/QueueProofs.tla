----------------------------- MODULE QueueProofs -----------------------------
(***************************************************************************)
(* Theorems about the job queue and the sources that run on it.            *)
(*                                                                         *)
(* The first part is about JobQueue alone, for every number of rows,       *)
(* callers, ticks, operators and processes, and for both stores.           *)
(*                                                                         *)
(* The second is about Sources, for any sources, feeds, ticks, processes   *)
(* and bounds: its queue is the queue of JobQueue, a record has no more    *)
(* rows than syncs ran at one time, a row goes back only when syncs        *)
(* overlapped, and a sync that reports success has landed every record.    *)
(***************************************************************************)
EXTENDS Sources, FiniteSetTheorems, TLAPS

(***************************************************************************)
(* Type correctness.                                                       *)
(***************************************************************************)

LEMMA InitTypeOK == Init => TypeOK
BY ConstantsAssumption DEF Init, TypeOK, Row, Request, Call, Retry, Outcomes,
   NoRow, NoRequest, NoCall, NoRetry, NoId

LEMMA PutType ==
  ASSUME jobs \in [Ids -> Row], NEW i, NEW cols, i \in Ids => cols \in Row, Put(i, cols)
  PROVE  jobs' \in [Ids -> Row]
<1>1. CASE i \in Ids
  BY <1>1 DEF Put
<1>2. CASE i \notin Ids
  BY <1>2 DEF Put
<1>3. QED BY <1>1, <1>2

LEMMA BumpType ==
  ASSUME NEW f \in [Ids -> Nat], NEW i
  PROVE  [f EXCEPT ![i] = @ + 1] \in [Ids -> Nat]
<1>1. CASE i \in Ids
  BY <1>1
<1>2. CASE i \notin Ids
  BY <1>2
<1>3. QED BY <1>1, <1>2

LEMMA NoneTypes ==
  /\ NoRequest \in Request /\ NoCall \in Call /\ NoRetry \in Retry
BY DEF NoRequest, Request, NoCall, Call, Outcomes, NoRetry, Retry, NoId

LEMMA AnswerType ==
  ASSUME NEW k \in Keys \cup {NoKey}, NEW i \in Ids
  PROVE  Answer(k, i) \in Request
BY DEF Answer, Request, NoRequest

LEMMA EnqueueTypeOK ==
  ASSUME TypeOK, NEW e \in Enqueuers, EnqueueStep(e)
  PROVE  TypeOK'
<1> USE DEF TypeOK
<1>1. CASE EnqueueCheck(e)
  <2>1. PICK k \in Keys \cup {NoKey}, ty \in Types, b \in Budgets :
          LET asked == [pc |-> "inserting", key |-> k, type |-> ty, budget |-> b,
                        id |-> NoId]
          IN  \/ \E i \in Holders(k) : req' = [req EXCEPT ![e] = Answer(k, i)]
              \/ req' = [req EXCEPT ![e] = asked]
    BY <1>1 DEF EnqueueCheck
  <2>2. \A i \in Holders(k) : Answer(k, i) \in Request
    BY AnswerType DEF Holders
  <2>3. [pc |-> "inserting", key |-> k, type |-> ty, budget |-> b, id |-> NoId]
          \in Request
    BY ConstantsAssumption DEF Request
  <2>4. req' \in [Enqueuers -> Request]
    BY <2>1, <2>2, <2>3
  <2>5. QED BY <1>1, <2>4 DEF EnqueueCheck
<1>2. CASE EnqueueInsert(e)
  <2>1. CASE UniqueViolation(req[e].key)
    <3>1. req' \in [Enqueuers -> Request]
      BY <1>2, <2>1 DEF EnqueueInsert, Request
    <3>2. QED BY <1>2, <2>1, <3>1 DEF EnqueueInsert
  <2>2. CASE ~UniqueViolation(req[e].key)
    <3> DEFINE cols == [status |-> "pending", type |-> req[e].type, key |-> req[e].key,
                       attempts |-> 0, maxAttempts |-> req[e].budget,
                       due |-> TRUE, dead |-> FALSE]
    <3>1. PICK i \in Ids : Put(i, cols) /\ req' = [req EXCEPT ![e] = Answer(req[e].key, i)]
      BY <1>2, <2>2 DEF EnqueueInsert
    <3>2. cols \in Row
      BY DEF Row, Request
    <3>3. jobs' \in [Ids -> Row]
      BY <3>1, <3>2, PutType
    <3>4. Answer(req[e].key, i) \in Request
      BY AnswerType DEF Request
    <3>5. req' \in [Enqueuers -> Request]
      BY <3>1, <3>4
    <3>6. QED BY <1>2, <3>3, <3>5 DEF EnqueueInsert
  <2>3. QED BY <2>1, <2>2
<1>3. CASE EnqueueReread(e)
  <2>1. PICK i \in Ids : req' = [req EXCEPT ![e] = Answer(req[e].key, i)]
    BY <1>3 DEF EnqueueReread, Holders
  <2>2. Answer(req[e].key, i) \in Request
    BY AnswerType DEF Request
  <2>3. req' \in [Enqueuers -> Request]
    BY <2>1, <2>2
  <2>4. QED BY <1>3, <2>3 DEF EnqueueReread
<1>4. QED BY <1>1, <1>2, <1>3 DEF EnqueueStep

LEMMA BeginType ==
  ASSUME NEW i \in Ids, NEW cols \in Row
  PROVE  /\ Begin(i, cols) \in Call
         /\ [Begin(i, cols) EXCEPT !.pc = "selected"] \in Call
BY DEF Begin, Call, Row, Outcomes

LEMMA SettleTypeOK ==
  ASSUME TypeOK, NEW t \in Ticks, NEW cols, Settle(t, cols),
         tick[t].id \in Ids => cols \in Row
  PROVE  TypeOK'
<1>1. jobs' \in [Ids -> Row]
  BY PutType DEF TypeOK, Settle
<1>2. tick' \in [Ticks -> Call]
  BY NoneTypes DEF TypeOK, Settle
<1>3. QED BY <1>1, <1>2 DEF TypeOK, Settle

LEMMA TickTypeOK ==
  ASSUME TypeOK, NEW t \in Ticks, TickStep(t) \/ RecordRejected(t)
  PROVE  TypeOK'
<1> DEFINE old == jobs[tick[t].id]
<1>t. tick[t] \in Call /\ (tick[t].id \in Ids => old \in Row)
  BY DEF TypeOK
<1>a. tick[t].attempt \in Nat
  BY <1>t DEF Call
<1>1. CASE ClaimMemory(t)
  <2>1. PICK i \in Ids : /\ tick' = [tick EXCEPT ![t] = Begin(i, jobs[i])]
                         /\ Put(i, [jobs[i] EXCEPT !.status = "running"])
    BY <1>1 DEF ClaimMemory
  <2>2. Begin(i, jobs[i]) \in Call
    BY BeginType DEF TypeOK
  <2>3. tick' \in [Ticks -> Call]
    BY <2>1, <2>2 DEF TypeOK
  <2>4. [jobs[i] EXCEPT !.status = "running"] \in Row
    BY DEF TypeOK, Row
  <2>5. jobs' \in [Ids -> Row]
    BY <2>1, <2>4, PutType DEF TypeOK
  <2>6. QED BY <1>1, <2>3, <2>5 DEF ClaimMemory, TypeOK
<1>2. CASE ClaimSelect(t)
  <2>1. PICK i \in Ids :
          tick' = [tick EXCEPT ![t] = [Begin(i, jobs[i]) EXCEPT !.pc = "selected"]]
    BY <1>2 DEF ClaimSelect
  <2>2. [Begin(i, jobs[i]) EXCEPT !.pc = "selected"] \in Call
    BY BeginType DEF TypeOK
  <2>3. tick' \in [Ticks -> Call]
    BY <2>1, <2>2 DEF TypeOK
  <2>4. QED BY <1>2, <2>3 DEF ClaimSelect, TypeOK
<1>3. CASE ClaimUpdate(t)
  <2>1. tick[t].id \in Ids => [old EXCEPT !.status = "running"] \in Row
    BY <1>t DEF Row
  <2>2. jobs' \in [Ids -> Row]
    BY <1>3, <2>1, PutType DEF ClaimUpdate, TypeOK
  <2>3. tick' \in [Ticks -> Call]
    BY <1>3 DEF ClaimUpdate, Call, TypeOK
  <2>4. clobbered' \subseteq Ids \cup {NoId}
    <3>1. tick[t].id \in Ids \cup {NoId}
      BY <1>t DEF Call
    <3>2. clobbered' = clobbered \/ clobbered' = clobbered \cup {tick[t].id}
      BY <1>3 DEF ClaimUpdate, Blind
    <3>3. QED BY <3>1, <3>2 DEF TypeOK
  <2>5. QED BY <1>3, <2>2, <2>3, <2>4 DEF ClaimUpdate, TypeOK
<1>4. CASE RunHandler(t)
  <2>1. PICK o \in {"ok", "error", "permanent"} :
          tick' = [tick EXCEPT ![t].pc = "recording", ![t].outcome = o]
    BY <1>4 DEF RunHandler
  <2>2. tick' \in [Ticks -> Call]
    <3>1. [tick[t] EXCEPT !.pc = "recording", !.outcome = o] \in Call
      BY <1>t DEF Call, Outcomes
    <3>2. QED BY <2>1, <3>1 DEF TypeOK
  <2>3. runs' \in [Ids -> Nat]
    BY <1>4, BumpType DEF RunHandler, TypeOK
  <2>4. QED BY <1>4, <2>2, <2>3 DEF RunHandler, TypeOK
<1>5. CASE RecordSuccess(t)
  <2>1. tick[t].id \in Ids =>
          [old EXCEPT !.status = "succeeded", !.attempts = tick[t].attempt] \in Row
    BY <1>t, <1>a DEF Row
  <2>2. QED BY <1>5, <2>1, SettleTypeOK DEF RecordSuccess
<1>6. CASE RecordRetry(t)
  <2>1. tick[t].id \in Ids =>
          [old EXCEPT !.status = "pending", !.attempts = tick[t].attempt,
                      !.due = FALSE] \in Row
    BY <1>t, <1>a DEF Row
  <2>2. QED BY <1>6, <2>1, SettleTypeOK DEF RecordRetry
<1>7. CASE RecordFailure(t)
  <2>1. tick[t].id \in Ids =>
          [old EXCEPT !.status = "failed", !.attempts = tick[t].attempt,
                      !.dead = TRUE] \in Row
    BY <1>t, <1>a DEF Row
  <2>2. QED BY <1>7, <2>1, SettleTypeOK DEF RecordFailure
<1>8. CASE RecordNoHandler(t)
  <2>1. tick[t].id \in Ids =>
          [old EXCEPT !.status = "failed", !.dead = TRUE] \in Row
    BY <1>t DEF Row
  <2>2. QED BY <1>8, <2>1, SettleTypeOK DEF RecordNoHandler
<1>9. CASE RecordRejected(t)
  <2>1. [tick[t] EXCEPT !.outcome = "error"] \in Call
    BY <1>t DEF Call, Outcomes
  <2>2. tick' \in [Ticks -> Call]
    BY <1>9, <2>1, NoneTypes DEF RecordRejected, TypeOK
  <2>3. QED BY <1>9, <2>2 DEF RecordRejected, TypeOK
<1>10. QED
  BY <1>1, <1>2, <1>3, <1>4, <1>5, <1>6, <1>7, <1>8, <1>9 DEF TickStep, ClaimNext

LEMMA RetryTypeOK ==
  ASSUME TypeOK, NEW o \in Operators, RetryStep(o)
  PROVE  TypeOK'
<1>1. CASE RetryRead(o)
  <2>1. op' \in [Operators -> Retry]
    BY <1>1 DEF RetryRead, Retry, Row, TypeOK
  <2>2. QED BY <1>1, <2>1 DEF RetryRead, TypeOK
<1>2. CASE RetryWrite(o)
  <2>a. GrantedBudget(o) \in Nat /\ DeadAfterRetry(o) \in BOOLEAN
    BY DEF TypeOK, Retry, GrantedBudget, DeadAfterRetry
  <2>b. ASSUME NEW r \in Row, NEW n \in Nat, NEW b \in BOOLEAN
        PROVE  [r EXCEPT !.status = "pending", !.maxAttempts = n,
                         !.dead = b, !.due = TRUE] \in Row
    BY DEF Row
  <2>1. op[o].id \in Ids =>
          [jobs[op[o].id] EXCEPT !.status = "pending",
                                 !.maxAttempts = GrantedBudget(o),
                                 !.dead = DeadAfterRetry(o),
                                 !.due = TRUE] \in Row
    BY <2>a, <2>b DEF TypeOK
  <2>2. jobs' \in [Ids -> Row]
    BY <1>2, <2>1, PutType DEF RetryWrite, TypeOK
  <2>3. grants' \in [Ids -> Nat]
    BY <1>2, BumpType DEF RetryWrite, TypeOK
  <2>4. op' \in [Operators -> Retry]
    BY <1>2, NoneTypes DEF RetryWrite, TypeOK
  <2>5. clobbered' \subseteq Ids \cup {NoId}
    <3>1. op[o].id \in Ids \cup {NoId}
      BY DEF TypeOK, Retry
    <3>2. clobbered' = clobbered \/ clobbered' = clobbered \cup {op[o].id}
      BY <1>2 DEF RetryWrite, Blind
    <3>3. QED BY <3>1, <3>2 DEF TypeOK
  <2>6. QED BY <1>2, <2>2, <2>3, <2>4, <2>5 DEF RetryWrite, TypeOK
<1>3. QED BY <1>1, <1>2 DEF RetryStep

LEMMA CrashTypeOK ==
  ASSUME TypeOK, NEW p \in Procs, Crash(p)
  PROVE  TypeOK'
BY NoneTypes DEF Crash, TypeOK

LEMMA DueTypeOK ==
  ASSUME TypeOK, NEW i \in Ids, BecomeDue(i)
  PROVE  TypeOK'
<1>1. jobs[i] \in Row
  BY DEF TypeOK
<1>2. [jobs[i] EXCEPT !.due = TRUE] \in Row
  BY <1>1 DEF Row
<1>3. QED BY <1>2, PutType DEF BecomeDue, TypeOK

\* Every reachable state is well typed, for all values of the constants.
THEOREM TypeCorrect == Spec => []TypeOK
<1>1. Init => TypeOK
  BY InitTypeOK
<1>2. TypeOK /\ [Next]_vars => TypeOK'
  <2> SUFFICES ASSUME TypeOK, [Next]_vars PROVE TypeOK'
    OBVIOUS
  <2>1. CASE UNCHANGED vars
    BY <2>1 DEF TypeOK, vars
  <2>2. QED
    BY <2>1, EnqueueTypeOK, TickTypeOK, RetryTypeOK, CrashTypeOK, DueTypeOK DEF Next
<1>3. QED BY <1>1, <1>2, PTL DEF Spec

(***************************************************************************)
(* One row per idempotency key, and every caller is answered with it.      *)
(*                                                                         *)
(* OneRowPerKey is not inductive alone: an update writes by id, so it must *)
(* be known that the row it writes exists and therefore keeps its key.     *)
(***************************************************************************)

\* The row a tick or an operator is about to write exists.
LiveRefs ==
  /\ \A t \in Ticks : tick[t].pc # "idle" => tick[t].id \in Ids /\ Exists(tick[t].id)
  /\ \A o \in Operators : op[o].pc = "read" => op[o].id \in Ids /\ Exists(op[o].id)

\* An answered caller has the id of a row that holds its key.
Answered ==
  \A e \in Enqueuers : req[e].pc = "done" =>
    /\ req[e].id \in Ids /\ Exists(req[e].id)
    /\ jobs[req[e].id].key = req[e].key

KeyInv == TypeOK /\ OneRowPerKey /\ Answered /\ LiveRefs

\* A step that neither adds a row nor changes a key.
SameRows ==
  \A i \in Ids : /\ jobs'[i].key = jobs[i].key
                 /\ jobs'[i].status = "absent" <=> jobs[i].status = "absent"

LEMMA PutSameRows ==
  ASSUME TypeOK, NEW i \in Ids, NEW cols, Put(i, cols),
         Exists(i), cols.key = jobs[i].key, cols.status # "absent"
  PROVE  SameRows
BY DEF TypeOK, Put, SameRows, Exists

\* With the rows kept, only the changes of req, tick and op matter.
LEMMA KeptRowsKeepKeys ==
  ASSUME KeyInv, SameRows
  PROVE  /\ OneRowPerKey'
         /\ req' = req => Answered'
         /\ tick' = tick /\ op' = op => LiveRefs'
BY DEF KeyInv, SameRows, OneRowPerKey, Answered, LiveRefs, Exists

LEMMA EnqueueKeyInv ==
  ASSUME KeyInv, NEW e \in Enqueuers, EnqueueStep(e)
  PROVE  KeyInv'
<1> USE DEF KeyInv
<1>t. TypeOK'
  BY EnqueueTypeOK
<1>1. CASE EnqueueCheck(e)
  <2>1. SameRows /\ LiveRefs' /\ OneRowPerKey'
    BY <1>1 DEF EnqueueCheck, SameRows, LiveRefs, OneRowPerKey, Exists
  <2>2. PICK k \in Keys \cup {NoKey}, ty \in Types, b \in Budgets :
          LET asked == [pc |-> "inserting", key |-> k, type |-> ty, budget |-> b,
                        id |-> NoId]
          IN  \/ \E i \in Holders(k) : req' = [req EXCEPT ![e] = Answer(k, i)]
              \/ req' = [req EXCEPT ![e] = asked]
    BY <1>1 DEF EnqueueCheck
  <2>3. jobs' = jobs
    BY <1>1 DEF EnqueueCheck
  <2>4. ASSUME NEW i \in Holders(k), req' = [req EXCEPT ![e] = Answer(k, i)]
        PROVE  Answered'
    BY <2>3, <2>4 DEF Answered, Holders, Answer, NoRequest, Exists, TypeOK
  <2>5. ASSUME req' = [req EXCEPT ![e] = [pc |-> "inserting", key |-> k, type |-> ty,
                                         budget |-> b, id |-> NoId]]
        PROVE  Answered'
    BY <2>3, <2>5 DEF Answered, Exists, TypeOK
  <2>6. QED BY <1>t, <2>1, <2>2, <2>4, <2>5
<1>2. CASE EnqueueInsert(e) /\ UniqueViolation(req[e].key)
  <2>1. jobs' = jobs /\ tick' = tick /\ op' = op /\ req' = [req EXCEPT ![e].pc = "lost"]
    BY <1>2 DEF EnqueueInsert
  <2>2. LiveRefs' /\ OneRowPerKey'
    BY <2>1 DEF LiveRefs, OneRowPerKey, Exists
  <2>3. Answered'
    BY <2>1 DEF Answered, Exists, TypeOK, Request
  <2>4. QED BY <1>t, <2>2, <2>3
<1>3. CASE EnqueueInsert(e) /\ ~UniqueViolation(req[e].key)
  <2> DEFINE cols == [status |-> "pending", type |-> req[e].type, key |-> req[e].key,
                     attempts |-> 0, maxAttempts |-> req[e].budget,
                     due |-> TRUE, dead |-> FALSE]
  <2>1. PICK i \in Ids : /\ ~Exists(i)
                         /\ Put(i, cols)
                         /\ req' = [req EXCEPT ![e] = Answer(req[e].key, i)]
                         /\ tick' = tick /\ op' = op
    BY <1>3 DEF EnqueueInsert
  <2>2. /\ jobs'[i] = cols
        /\ \A j \in Ids : j # i => jobs'[j] = jobs[j]
    BY <2>1 DEF Put, TypeOK
  <2>3. \A j \in Ids : j # i /\ Exists(j) /\ req[e].key # NoKey
                         => jobs[j].key # req[e].key
    BY <1>3 DEF UniqueViolation, Holders
  <2>4. OneRowPerKey'
    BY <2>2, <2>3 DEF OneRowPerKey, Exists
  <2>5. \A j \in Ids : Exists(j) => j # i /\ jobs'[j] = jobs[j]
    BY <2>1, <2>2
  <2>6. LiveRefs'
    BY <2>1, <2>5 DEF LiveRefs, Exists
  <2>7. Answered'
    <3> SUFFICES ASSUME NEW f \in Enqueuers, req'[f].pc = "done"
                 PROVE  /\ req'[f].id \in Ids
                        /\ jobs'[req'[f].id].status # "absent"
                        /\ jobs'[req'[f].id].key = req'[f].key
      BY DEF Answered, Exists
    <3>1. CASE f = e
      BY <2>1, <2>2, <3>1 DEF Answer, NoRequest, TypeOK
    <3>2. CASE f # e
      BY <2>1, <2>5, <3>2 DEF Answered, Exists, TypeOK
    <3>3. QED BY <3>1, <3>2
  <2>8. QED BY <1>t, <2>4, <2>6, <2>7
<1>4. CASE EnqueueReread(e)
  <2>1. PICK i \in Holders(req[e].key) :
          req' = [req EXCEPT ![e] = Answer(req[e].key, i)]
    BY <1>4 DEF EnqueueReread
  <2>2. jobs' = jobs /\ tick' = tick /\ op' = op
    BY <1>4 DEF EnqueueReread
  <2>3. LiveRefs' /\ OneRowPerKey'
    BY <2>2 DEF LiveRefs, OneRowPerKey, Exists
  <2>4. Answered'
    BY <2>1, <2>2 DEF Answered, Holders, Answer, NoRequest, Exists, TypeOK
  <2>5. QED BY <1>t, <2>3, <2>4
<1>5. QED BY <1>1, <1>2, <1>3, <1>4 DEF EnqueueStep

LEMMA BeginFields ==
  ASSUME NEW i, NEW cols
  PROVE  /\ Begin(i, cols).id = i
         /\ Begin(i, cols).pc # "idle"
         /\ [Begin(i, cols) EXCEPT !.pc = "selected"].id = i
BY DEF Begin

LEMMA TickKeyInv ==
  ASSUME KeyInv, NEW t \in Ticks, TickStep(t) \/ RecordRejected(t)
  PROVE  KeyInv'
<1> USE DEF KeyInv
<1> DEFINE old == jobs[tick[t].id]
<1>t. TypeOK'
  BY TickTypeOK
<1>r. tick[t].pc # "idle" => tick[t].id \in Ids /\ Exists(tick[t].id)
  BY DEF LiveRefs
<1>1. CASE ClaimMemory(t)
  <2>1. PICK i \in Ids : /\ NextDue(i)
                         /\ tick' = [tick EXCEPT ![t] = Begin(i, jobs[i])]
                         /\ Put(i, [jobs[i] EXCEPT !.status = "running"])
    BY <1>1 DEF ClaimMemory
  <2>2. Exists(i)
    BY <2>1 DEF NextDue, Claimable, Exists
  <2>3. SameRows
    <3>1. jobs[i] \in Row
      BY DEF TypeOK
    <3>2. /\ [jobs[i] EXCEPT !.status = "running"].key = jobs[i].key
          /\ [jobs[i] EXCEPT !.status = "running"].status # "absent"
      BY <3>1 DEF Row
    <3>3. QED BY <2>1, <2>2, <3>2, PutSameRows
  <2>4. LiveRefs'
    BY <1>1, <2>1, <2>2, <2>3, BeginFields DEF ClaimMemory, LiveRefs, SameRows, Exists, TypeOK
  <2>5. QED BY <1>1, <1>t, <2>3, <2>4, KeptRowsKeepKeys DEF ClaimMemory
<1>2. CASE ClaimSelect(t)
  <2>1. PICK i \in Ids :
          /\ NextDue(i)
          /\ tick' = [tick EXCEPT ![t] = [Begin(i, jobs[i]) EXCEPT !.pc = "selected"]]
    BY <1>2 DEF ClaimSelect
  <2>2. Exists(i)
    BY <2>1 DEF NextDue, Claimable, Exists
  <2>3. SameRows
    BY <1>2 DEF ClaimSelect, SameRows
  <2>4. LiveRefs'
    <3>1. tick'[t].id = i /\ \A u \in Ticks : u # t => tick'[u] = tick[u]
      BY <2>1, BeginFields DEF TypeOK
    <3>2. jobs' = jobs /\ op' = op
      BY <1>2 DEF ClaimSelect
    <3>3. QED BY <2>2, <3>1, <3>2 DEF LiveRefs, Exists
  <2>5. QED BY <1>2, <1>t, <2>3, <2>4, KeptRowsKeepKeys DEF ClaimSelect
<1>3. CASE ClaimUpdate(t)
  <2>1. old \in Row /\ Exists(tick[t].id)
    BY <1>3, <1>r DEF ClaimUpdate, TypeOK
  <2>2. /\ [old EXCEPT !.status = "running"].key = old.key
        /\ [old EXCEPT !.status = "running"].status # "absent"
    BY <2>1 DEF Row
  <2>3. SameRows
    BY <1>3, <1>r, <2>1, <2>2, PutSameRows DEF ClaimUpdate
  <2>4. \A u \in Ticks : tick'[u].id = tick[u].id /\ (tick[u].pc = "idle" => tick'[u].pc = "idle")
    BY <1>3 DEF ClaimUpdate, TypeOK, Call
  <2>5. LiveRefs'
    BY <1>3, <2>3, <2>4 DEF ClaimUpdate, LiveRefs, SameRows, Exists
  <2>6. QED BY <1>3, <1>t, <2>3, <2>5, KeptRowsKeepKeys DEF ClaimUpdate
<1>4. CASE RunHandler(t)
  <2>1. SameRows
    BY <1>4 DEF RunHandler, SameRows
  <2>2. \A u \in Ticks : tick'[u].id = tick[u].id /\ (tick[u].pc = "idle" => tick'[u].pc = "idle")
    BY <1>4 DEF RunHandler, TypeOK, Call
  <2>3. LiveRefs'
    BY <1>4, <2>2 DEF RunHandler, LiveRefs, Exists
  <2>4. QED BY <1>4, <1>t, <2>1, <2>3, KeptRowsKeepKeys DEF RunHandler
<1>5. ASSUME NEW cols, Settle(t, cols), tick[t].pc = "recording",
             cols.key = old.key, cols.status # "absent"
      PROVE  KeyInv'
  <2>1. SameRows
    BY <1>5, <1>r, PutSameRows DEF Settle
  <2>2. \A u \in Ticks : tick'[u].pc # "idle" => tick'[u] = tick[u]
    BY <1>5 DEF Settle, NoCall, TypeOK
  <2>3. LiveRefs'
    BY <1>5, <2>1, <2>2 DEF Settle, LiveRefs, SameRows, Exists
  <2>4. QED BY <1>5, <1>t, <2>1, <2>3, KeptRowsKeepKeys DEF Settle
<1>6. CASE RecordSuccess(t) \/ RecordRetry(t) \/ RecordFailure(t) \/ RecordNoHandler(t)
  <2>1. tick[t].pc = "recording" /\ old \in Row
    BY <1>6, <1>r DEF RecordSuccess, RecordRetry, RecordFailure, RecordNoHandler, TypeOK
  <2>2. CASE RecordSuccess(t)
    BY <1>5, <2>1, <2>2 DEF RecordSuccess, Row
  <2>3. CASE RecordRetry(t)
    BY <1>5, <2>1, <2>3 DEF RecordRetry, Row
  <2>4. CASE RecordFailure(t)
    BY <1>5, <2>1, <2>4 DEF RecordFailure, Row
  <2>5. CASE RecordNoHandler(t)
    BY <1>5, <2>1, <2>5 DEF RecordNoHandler, Row
  <2>6. QED BY <1>6, <2>2, <2>3, <2>4, <2>5
<1>7. CASE RecordRejected(t)
  <2>1. SameRows
    BY <1>7 DEF RecordRejected, SameRows
  <2>2. \A u \in Ticks : tick'[u].pc # "idle" =>
          tick'[u].id = tick[u].id /\ tick[u].pc # "idle"
    <3>1. tick[t] \in Call /\ tick[t].pc # "idle"
      BY <1>7 DEF RecordRejected, TypeOK
    <3>2. [tick[t] EXCEPT !.outcome = "error"].id = tick[t].id
      BY <3>1 DEF Call
    <3>3. NoCall.pc = "idle"
      BY DEF NoCall
    <3>4. QED BY <1>7, <3>1, <3>2, <3>3 DEF RecordRejected, TypeOK
  <2>3. LiveRefs'
    BY <1>7, <2>2 DEF RecordRejected, LiveRefs, Exists
  <2>4. QED BY <1>7, <1>t, <2>1, <2>3, KeptRowsKeepKeys DEF RecordRejected
<1>8. QED
  BY <1>1, <1>2, <1>3, <1>4, <1>6, <1>7 DEF TickStep, ClaimNext

LEMMA RetryKeyInv ==
  ASSUME KeyInv, NEW o \in Operators, RetryStep(o)
  PROVE  KeyInv'
<1> USE DEF KeyInv
<1>t. TypeOK'
  BY RetryTypeOK
<1>1. CASE RetryRead(o)
  <2>1. SameRows
    BY <1>1 DEF RetryRead, SameRows
  <2>2. LiveRefs'
    BY <1>1 DEF RetryRead, LiveRefs, Exists, TypeOK
  <2>3. QED BY <1>1, <1>t, <2>1, <2>2, KeptRowsKeepKeys DEF RetryRead
<1>2. CASE RetryWrite(o)
  <2>1. op[o].id \in Ids /\ Exists(op[o].id)
    BY <1>2 DEF RetryWrite, LiveRefs
  <2> DEFINE cols == [jobs[op[o].id] EXCEPT !.status = "pending",
                                           !.maxAttempts = GrantedBudget(o),
                                           !.dead = DeadAfterRetry(o),
                                           !.due = TRUE]
  <2>2. cols.key = jobs[op[o].id].key /\ cols.status # "absent"
    BY <2>1 DEF TypeOK, Row
  <2>3. Put(op[o].id, cols)
    BY <1>2 DEF RetryWrite
  <2>4. SameRows
    BY <2>1, <2>2, <2>3, PutSameRows
  <2>5. \A x \in Operators : op'[x].pc = "read" => op'[x] = op[x]
    BY <1>2 DEF RetryWrite, NoRetry, TypeOK
  <2>6. LiveRefs'
    BY <1>2, <2>4, <2>5 DEF RetryWrite, LiveRefs, SameRows, Exists
  <2>7. QED BY <1>2, <1>t, <2>4, <2>6, KeptRowsKeepKeys DEF RetryWrite
<1>3. QED BY <1>1, <1>2 DEF RetryStep

LEMMA OtherKeyInv ==
  ASSUME KeyInv,
         \/ \E i \in Ids : BecomeDue(i)
         \/ \E p \in Procs : Crash(p)
         \/ UNCHANGED vars
  PROVE  KeyInv'
<1> USE DEF KeyInv
<1>1. ASSUME NEW i \in Ids, BecomeDue(i) PROVE KeyInv'
  <2>1. Exists(i) /\ jobs[i] \in Row
    BY <1>1 DEF BecomeDue, Exists, TypeOK
  <2>2. SameRows
    BY <1>1, <2>1, PutSameRows DEF BecomeDue, Row, Exists
  <2>3. QED BY <1>1, <2>2, DueTypeOK, KeptRowsKeepKeys DEF BecomeDue
<1>2. ASSUME NEW p \in Procs, Crash(p) PROVE KeyInv'
  <2>1. SameRows
    BY <1>2 DEF Crash, SameRows
  <2>2. LiveRefs'
    BY <1>2 DEF Crash, LiveRefs, Exists, NoCall, NoRetry
  <2>3. Answered'
    BY <1>2 DEF Crash, Answered, Exists, NoRequest
  <2>4. QED BY <1>2, <2>1, <2>2, <2>3, CrashTypeOK, KeptRowsKeepKeys
<1>3. CASE UNCHANGED vars
  BY <1>3 DEF vars, TypeOK, OneRowPerKey, Answered, LiveRefs, Exists
<1>4. QED BY <1>1, <1>2, <1>3

LEMMA KeyInvariant == Spec => []KeyInv
<1>1. Init => KeyInv
  BY InitTypeOK
  DEF Init, KeyInv, OneRowPerKey, Answered, LiveRefs, Exists, NoRow, NoRequest, NoCall, NoRetry
<1>2. KeyInv /\ [Next]_vars => KeyInv'
  BY EnqueueKeyInv, TickKeyInv, RetryKeyInv, OtherKeyInv DEF Next
<1>3. QED BY <1>1, <1>2, PTL DEF Spec

\* The unique index and the re-read resolve every race: two rows never hold one
\* idempotency key, whatever the number of processes, crashes and retries.
THEOREM OneRowPerKeyAlways == Spec => []OneRowPerKey
<1>1. KeyInv => OneRowPerKey
  BY DEF KeyInv
<1>2. QED BY <1>1, KeyInvariant, PTL

\* Every caller of enqueue() that returns has the row that holds its key, so two
\* callers with one key have the same row.
THEOREM EnqueueAgrees == Spec => []EnqueueAgreement
<1>1. KeyInv => EnqueueAgreement
  BY DEF KeyInv, EnqueueAgreement, Answered, OneRowPerKey
<1>2. QED BY <1>1, KeyInvariant, PTL

(***************************************************************************)
(* How a row is run, over either store and with any number of operators:   *)
(* for every row that no write found other than as it was read.            *)
(***************************************************************************)

(***************************************************************************)
(* The inductive invariant: what the columns of such a row and the tick    *)
(* that runs it know of each other.                                        *)
(***************************************************************************)

\* The columns of a row agree with each other and with the handler's history.
RowFits(i) ==
  /\ jobs[i].dead <=> jobs[i].status = "failed"
  /\ jobs[i].status = "absent" => runs[i] = 0 /\ jobs[i].attempts = 0
  /\ jobs[i].status \in {"pending", "running"} => jobs[i].attempts < jobs[i].maxAttempts
  /\ jobs[i].status = "running" => runs[i] \in {jobs[i].attempts, jobs[i].attempts + 1}
  /\ jobs[i].status \in {"pending", "succeeded", "failed"} => runs[i] = jobs[i].attempts
  /\ jobs[i].status \in {"succeeded", "failed"} => jobs[i].attempts <= jobs[i].maxAttempts

Active(t) == tick[t].pc # "idle"
Invoked(t) == tick[t].pc = "recording" /\ tick[t].outcome # "noHandler"

\* The tick that holds a row knows its columns as they are.
CallFits(t, i) ==
  /\ jobs[i].status = "running"
  /\ tick[t].attempt = jobs[i].attempts + 1
  /\ tick[t].max = jobs[i].maxAttempts
  /\ runs[i] = IF Invoked(t) THEN tick[t].attempt ELSE jobs[i].attempts

\* A row fits, as do the ticks that hold it, of which there is one.
RowInv(i) ==
  /\ RowFits(i)
  /\ \A t \in Ticks : Holds(t, i) => CallFits(t, i)
  /\ \A t, u \in Ticks : Holds(t, i) /\ Holds(u, i) => t = u

\* A caller on its way to the insert asks for a budget it may ask for.
RequestFits(e) == req[e].pc = "inserting" => req[e].budget \in Budgets

QueueInv ==
  /\ KeyInv
  /\ \A i \in Ids \ clobbered : RowInv(i)
  /\ \A e \in Enqueuers : RequestFits(e)

LEMMA InitQueueInv == Init => QueueInv
<1> SUFFICES ASSUME Init PROVE QueueInv
  OBVIOUS
<1>1. KeyInv
  BY InitTypeOK
  DEF Init, KeyInv, OneRowPerKey, Answered, LiveRefs, Exists, NoRow, NoRequest, NoCall, NoRetry
<1>2. \A i \in Ids : RowInv(i)
  BY DEF Init, RowInv, RowFits, Holds, NoRow, NoCall
<1>3. \A e \in Enqueuers : RequestFits(e)
  BY DEF Init, RequestFits, NoRequest
<1>4. QED BY <1>1, <1>2, <1>3 DEF QueueInv

\* A row is as it was, and whoever holds it held it, as it was.
Untouched(i) ==
  /\ jobs'[i] = jobs[i] /\ runs'[i] = runs[i]
  /\ \A t \in Ticks : Holds(t, i)' => tick'[t] = tick[t]

LEMMA UntouchedRow ==
  ASSUME NEW i, RowInv(i), Untouched(i)
  PROVE  RowInv(i)'
<1>1. RowFits(i)'
  BY DEF Untouched, RowInv, RowFits
<1>2. \A t \in Ticks : Holds(t, i)' => Holds(t, i) /\ CallFits(t, i)'
  BY DEF Untouched, RowInv, Holds, CallFits, Invoked
<1>3. QED BY <1>1, <1>2 DEF RowInv

\* A step of one tick on one row keeps the invariant if it keeps it of the row.
LEMMA OneTickOneRow ==
  ASSUME QueueInv, KeyInv', NEW t \in Ticks, NEW i \in Ids,
         \A j \in Ids : j # i => jobs'[j] = jobs[j] /\ runs'[j] = runs[j],
         \A u \in Ticks : u # t => tick'[u] = tick[u],
         req' = req, clobbered \subseteq clobbered',
         tick'[t].pc \in {"running", "recording"} => tick'[t].id = i,
         i \notin clobbered' => RowInv(i)'
  PROVE  QueueInv'
<1>1. ASSUME NEW j \in Ids, j \notin clobbered' PROVE RowInv(j)'
  <2>1. CASE j = i
    BY <1>1, <2>1
  <2>2. CASE j # i
    <3>1. Untouched(j)
      BY <2>2 DEF Untouched, Holds
    <3>2. RowInv(j)
      BY <1>1 DEF QueueInv
    <3>3. QED BY <3>1, <3>2, UntouchedRow
  <2>3. QED BY <2>1, <2>2
<1>2. \A e \in Enqueuers : RequestFits(e)'
  BY DEF QueueInv, RequestFits
<1>3. QED BY <1>1, <1>2 DEF QueueInv

\* A step that writes one row and moves no tick keeps the invariant if it keeps it of
\* the columns of the row, which no tick holds.
LEMMA OneRow ==
  ASSUME QueueInv, KeyInv', NEW i \in Ids,
         \A j \in Ids : j # i => jobs'[j] = jobs[j],
         runs' = runs, tick' = tick, clobbered \subseteq clobbered',
         i \notin clobbered' => RowFits(i)' /\ jobs[i].status # "running",
         \A e \in Enqueuers : RequestFits(e)'
  PROVE  QueueInv'
<1>1. ASSUME NEW j \in Ids, j \notin clobbered' PROVE RowInv(j)'
  <2>1. RowInv(j)
    BY <1>1 DEF QueueInv
  <2>2. CASE j = i
    <3>1. \A t \in Ticks : ~Holds(t, j)
      BY <1>1, <2>1, <2>2 DEF RowInv, CallFits
    <3>2. \A t \in Ticks : ~Holds(t, j)'
      BY <3>1 DEF Holds
    <3>3. QED BY <1>1, <2>2, <3>2 DEF RowInv
  <2>3. CASE j # i
    BY <2>1, <2>3, UntouchedRow DEF Untouched
  <2>4. QED BY <2>2, <2>3
<1>2. QED BY <1>1 DEF QueueInv

\* What a tick that holds a row knows of it, unless it is clobbered.
LEMMA HeldFits ==
  ASSUME QueueInv, NEW t \in Ticks, tick[t].pc \in {"running", "recording"}
  PROVE  /\ tick[t] \in Call /\ tick[t].id \in Ids /\ jobs[tick[t].id] \in Row
         /\ runs[tick[t].id] \in Nat
         /\ tick[t].id \notin clobbered =>
              /\ RowFits(tick[t].id) /\ CallFits(t, tick[t].id)
              /\ \A u \in Ticks : Holds(u, tick[t].id) => u = t
<1>1. tick[t].id \in Ids
  BY DEF QueueInv, KeyInv, LiveRefs
<1>2. tick[t] \in Call /\ jobs[tick[t].id] \in Row /\ runs[tick[t].id] \in Nat
  BY <1>1 DEF QueueInv, KeyInv, TypeOK
<1>3. Holds(t, tick[t].id)
  BY DEF Holds
<1>4. QED BY <1>1, <1>2, <1>3 DEF QueueInv, RowInv

\* The row and the tick of a call that is recording its outcome.
LEMMA RecordingFits ==
  ASSUME QueueInv, NEW t \in Ticks, tick[t].pc = "recording", tick[t].id \notin clobbered
  PROVE  /\ jobs[tick[t].id].status = "running"
         /\ ~jobs[tick[t].id].dead
         /\ tick[t].attempt = jobs[tick[t].id].attempts + 1
         /\ tick[t].max = jobs[tick[t].id].maxAttempts
         /\ tick[t].attempt <= tick[t].max
         /\ runs[tick[t].id] = IF tick[t].outcome = "noHandler"
                               THEN jobs[tick[t].id].attempts ELSE tick[t].attempt
<1>1. /\ jobs[tick[t].id] \in Row
      /\ RowFits(tick[t].id) /\ CallFits(t, tick[t].id)
  BY HeldFits
<1>2. QED BY <1>1 DEF RowFits, CallFits, Invoked, Row

\* The end of a tick: the row it writes fits, and it holds nothing any more.
LEMMA SettleQueueInv ==
  ASSUME QueueInv, KeyInv', NEW t \in Ticks, tick[t].pc = "recording", NEW cols,
         Settle(t, cols),
         tick[t].id \notin clobbered =>
           /\ cols.dead <=> cols.status = "failed"
           /\ cols.status \in {"pending", "succeeded", "failed"}
           /\ cols.status = "pending" => cols.attempts < cols.maxAttempts
           /\ cols.status # "pending" => cols.attempts <= cols.maxAttempts
           /\ runs[tick[t].id] = cols.attempts
  PROVE  QueueInv'
<1>0. PICK i \in Ids : i = tick[t].id
  BY HeldFits
<1>1. /\ jobs' = [jobs EXCEPT ![i] = cols] /\ tick' = [tick EXCEPT ![t] = NoCall]
      /\ req' = req /\ runs' = runs /\ clobbered' = clobbered
  BY <1>0 DEF Settle, Put
<1>2. jobs'[i] = cols /\ \A j \in Ids : j # i => jobs'[j] = jobs[j]
  BY <1>1 DEF QueueInv, KeyInv, TypeOK
<1>3. tick'[t] = NoCall /\ \A u \in Ticks : u # t => tick'[u] = tick[u]
  BY <1>1 DEF QueueInv, KeyInv, TypeOK
<1>4. NoCall.pc = "idle"
  BY DEF NoCall
<1>5. ASSUME i \notin clobbered' PROVE RowInv(i)'
  <2>1. RowFits(i)'
    BY <1>0, <1>1, <1>2, <1>5 DEF RowFits
  <2>2. \A u \in Ticks : ~Holds(u, i)'
    <3>1. \A u \in Ticks : u # t => ~Holds(u, i)
      BY <1>0, <1>1, <1>5, HeldFits
    <3>2. QED BY <1>3, <1>4, <3>1 DEF Holds
  <2>3. QED BY <2>1, <2>2 DEF RowInv
<1>6. QED BY <1>1, <1>2, <1>3, <1>4, <1>5, OneTickOneRow

\* The begin of a tick's hold on a row that nobody holds and that is as the tick knows it.
LEMMA TakeQueueInv ==
  ASSUME QueueInv, KeyInv', NEW t \in Ticks, NEW i \in Ids, NEW call,
         Put(i, [jobs[i] EXCEPT !.status = "running"]),
         tick' = [tick EXCEPT ![t] = call],
         UNCHANGED <<req, runs>>, clobbered \subseteq clobbered',
         call.id = i,
         i \notin clobbered' =>
           /\ jobs[i].status = "pending"
           /\ call.attempt = jobs[i].attempts + 1 /\ call.max = jobs[i].maxAttempts
           /\ call.pc = "recording" => call.outcome = "noHandler"
  PROVE  QueueInv'
<1>1. jobs[i] \in Row /\ runs[i] \in Nat
  BY DEF QueueInv, KeyInv, TypeOK
<1>2. /\ jobs'[i].status = "running"
      /\ jobs'[i].attempts = jobs[i].attempts /\ jobs'[i].maxAttempts = jobs[i].maxAttempts
      /\ jobs'[i].dead = jobs[i].dead
  BY <1>1 DEF Put, QueueInv, KeyInv, TypeOK, Row
<1>3. \A j \in Ids : j # i => jobs'[j] = jobs[j]
  BY DEF Put, QueueInv, KeyInv, TypeOK
<1>4. tick'[t] = call /\ \A u \in Ticks : u # t => tick'[u] = tick[u]
  BY DEF QueueInv, KeyInv, TypeOK
<1>5. ASSUME i \notin clobbered' PROVE RowInv(i)'
  <2>1. RowInv(i) /\ jobs[i].status = "pending"
    BY <1>5 DEF QueueInv
  <2>2. RowFits(i)'
    BY <1>1, <1>2, <2>1 DEF RowInv, RowFits, Row
  <2>3. \A u \in Ticks : ~Holds(u, i)
    BY <2>1 DEF RowInv, CallFits
  <2>4. \A u \in Ticks : Holds(u, i)' => u = t
    BY <1>4, <2>3 DEF Holds
  <2>5. CallFits(t, i)'
    BY <1>2, <1>4, <1>5, <2>1 DEF CallFits, Invoked, RowInv, RowFits
  <2>6. QED BY <2>2, <2>4, <2>5 DEF RowInv
<1>6. QED BY <1>3, <1>4, <1>5, OneTickOneRow

LEMMA ClaimQueueInv ==
  ASSUME QueueInv, KeyInv', NEW t \in Ticks, ClaimMemory(t) \/ ClaimSelect(t) \/ ClaimUpdate(t)
  PROVE  QueueInv'
<1>1. CASE ClaimMemory(t)
  <2>1. PICK i \in Ids : /\ NextDue(i)
                         /\ tick' = [tick EXCEPT ![t] = Begin(i, jobs[i])]
                         /\ Put(i, [jobs[i] EXCEPT !.status = "running"])
    BY <1>1 DEF ClaimMemory
  <2>2. /\ jobs[i].status = "pending"
        /\ UNCHANGED <<req, runs, clobbered>>
    BY <1>1, <2>1 DEF ClaimMemory, NextDue, Claimable
  <2>3. LET call == Begin(i, jobs[i])
        IN  /\ call.id = i
            /\ call.attempt = jobs[i].attempts + 1 /\ call.max = jobs[i].maxAttempts
            /\ call.pc = "recording" => call.outcome = "noHandler"
    BY DEF Begin
  <2>4. QED BY <2>1, <2>2, <2>3, TakeQueueInv
<1>2. CASE ClaimSelect(t)
  <2>1. PICK i \in Ids :
          tick' = [tick EXCEPT ![t] = [Begin(i, jobs[i]) EXCEPT !.pc = "selected"]]
    BY <1>2 DEF ClaimSelect
  <2>2. tick'[t].pc = "selected" /\ \A u \in Ticks : u # t => tick'[u] = tick[u]
    BY <2>1 DEF Begin, QueueInv, KeyInv, TypeOK
  <2>3. jobs' = jobs /\ runs' = runs /\ req' = req /\ clobbered' = clobbered
    BY <1>2 DEF ClaimSelect
  <2>4. ASSUME i \notin clobbered' PROVE RowInv(i)'
    <3>1. RowInv(i) /\ Untouched(i)
      BY <2>2, <2>3, <2>4 DEF QueueInv, Untouched, Holds
    <3>2. QED BY <3>1, UntouchedRow
  <2>5. QED BY <2>2, <2>3, <2>4, OneTickOneRow
<1>3. CASE ClaimUpdate(t)
  <2>1. tick[t].id \in Ids /\ tick[t] \in Call
    BY <1>3 DEF ClaimUpdate, QueueInv, KeyInv, LiveRefs, TypeOK
  <2>2. PICK i \in Ids : i = tick[t].id
    BY <2>1
  <2> DEFINE call == [tick[t] EXCEPT !.pc = IF tick[t].outcome = "noHandler"
                                           THEN "recording" ELSE "running"]
  <2>3. /\ Put(i, [jobs[i] EXCEPT !.status = "running"])
        /\ UNCHANGED <<req, runs>>
        /\ clobbered' = IF AsSelected(t) THEN clobbered ELSE clobbered \cup {i}
    BY <1>3, <2>2 DEF ClaimUpdate, Blind
  <2>4. tick' = [tick EXCEPT ![t] = call]
    BY <1>3 DEF ClaimUpdate, QueueInv, KeyInv, TypeOK
  <2>5. /\ call.id = i /\ call.attempt = tick[t].attempt /\ call.max = tick[t].max
        /\ call.pc = "recording" => call.outcome = "noHandler"
    BY <2>1, <2>2 DEF Call
  <2>6. i \notin clobbered' =>
          /\ jobs[i].status = "pending"
          /\ tick[t].attempt = jobs[i].attempts + 1 /\ tick[t].max = jobs[i].maxAttempts
    BY <2>2, <2>3 DEF AsSelected
  <2>7. clobbered \subseteq clobbered'
    BY <2>3
  <2> HIDE DEF call
  <2>8. QED BY <2>3, <2>4, <2>5, <2>6, <2>7, TakeQueueInv
<1>4. QED BY <1>1, <1>2, <1>3

LEMMA RunQueueInv ==
  ASSUME QueueInv, KeyInv', NEW t \in Ticks, RunHandler(t)
  PROVE  QueueInv'
<1>0. tick[t].pc = "running"
  BY DEF RunHandler
<1>1. PICK i \in Ids : i = tick[t].id
  BY <1>0, HeldFits
<1>2. PICK o \in {"ok", "error", "permanent"} :
        tick' = [tick EXCEPT ![t].pc = "recording", ![t].outcome = o]
  BY DEF RunHandler
<1>3. /\ jobs' = jobs /\ req' = req /\ clobbered' = clobbered
      /\ runs' = [runs EXCEPT ![i] = @ + 1]
  BY <1>1 DEF RunHandler
<1>4. tick[t] \in Call /\ jobs[i] \in Row /\ runs[i] \in Nat
  BY <1>0, <1>1, HeldFits
<1>5. /\ tick'[t].pc = "recording" /\ tick'[t].outcome = o
      /\ tick'[t].id = i /\ tick'[t].attempt = tick[t].attempt
      /\ tick'[t].max = tick[t].max
  BY <1>1, <1>2, <1>4 DEF QueueInv, KeyInv, TypeOK, Call
<1>6. \A u \in Ticks : u # t => tick'[u] = tick[u]
  BY <1>2 DEF QueueInv, KeyInv, TypeOK
<1>7. runs'[i] = runs[i] + 1 /\ \A j \in Ids : j # i => runs'[j] = runs[j]
  BY <1>3 DEF QueueInv, KeyInv, TypeOK
<1>8. ASSUME i \notin clobbered' PROVE RowInv(i)'
  <2>1. /\ jobs[i].status = "running" /\ RowFits(i)
        /\ tick[t].attempt = jobs[i].attempts + 1 /\ tick[t].max = jobs[i].maxAttempts
        /\ runs[i] = jobs[i].attempts
        /\ \A u \in Ticks : Holds(u, i) => u = t
    BY <1>0, <1>1, <1>3, <1>8, HeldFits DEF CallFits, Invoked
  <2>2. RowFits(i)'
    BY <1>3, <1>7, <2>1 DEF RowFits
  <2>3. CallFits(t, i)'
    BY <1>3, <1>5, <1>7, <2>1 DEF CallFits, Invoked
  <2>4. \A u \in Ticks : Holds(u, i)' => u = t
    BY <1>6, <2>1 DEF Holds
  <2>5. QED BY <2>2, <2>3, <2>4 DEF RowInv
<1>9. QED BY <1>3, <1>5, <1>6, <1>7, <1>8, OneTickOneRow

LEMMA RejectedQueueInv ==
  ASSUME QueueInv, KeyInv', NEW t \in Ticks, RecordRejected(t)
  PROVE  QueueInv'
<1>0. tick[t].pc = "recording"
  BY DEF RecordRejected
<1>1. PICK i \in Ids : i = tick[t].id
  BY <1>0, HeldFits
<1>2. /\ tick' = [tick EXCEPT ![t] = IF tick[t].outcome = "ok"
                                     THEN [tick[t] EXCEPT !.outcome = "error"]
                                     ELSE NoCall]
      /\ jobs' = jobs /\ req' = req /\ runs' = runs /\ clobbered' = clobbered
  BY DEF RecordRejected
<1>3. \A u \in Ticks : u # t => tick'[u] = tick[u]
  BY <1>2 DEF QueueInv, KeyInv, TypeOK
<1>4. CASE tick[t].outcome = "ok"
  <2>1. tick[t] \in Call
    BY <1>0, HeldFits
  <2>2. tick'[t] = [tick[t] EXCEPT !.outcome = "error"]
    BY <1>2, <1>4 DEF QueueInv, KeyInv, TypeOK
  <2>3. /\ tick'[t].pc = "recording" /\ tick'[t].id = i /\ tick'[t].outcome = "error"
        /\ tick'[t].attempt = tick[t].attempt /\ tick'[t].max = tick[t].max
    BY <1>0, <1>1, <2>1, <2>2 DEF Call
  <2>4. ASSUME i \notin clobbered' PROVE RowInv(i)'
    <3>1. RowInv(i) /\ Holds(t, i)
      BY <1>0, <1>1, <1>2, <2>4 DEF QueueInv, Holds
    <3>2. RowFits(i)'
      BY <1>2, <3>1 DEF RowInv, RowFits
    <3>3. CallFits(t, i)'
      BY <1>0, <1>2, <1>4, <2>3, <3>1 DEF RowInv, CallFits, Invoked
    <3>4. \A u \in Ticks : Holds(u, i)' => u = t
      BY <1>3, <3>1 DEF RowInv, Holds
    <3>5. QED BY <3>2, <3>3, <3>4 DEF RowInv
  <2>5. QED BY <1>2, <1>3, <2>3, <2>4, OneTickOneRow
<1>5. CASE tick[t].outcome # "ok"
  <2>1. tick'[t].pc = "idle"
    BY <1>2, <1>5 DEF QueueInv, KeyInv, TypeOK, NoCall
  <2>2. ASSUME i \notin clobbered' PROVE RowInv(i)'
    <3>1. RowInv(i) /\ Untouched(i)
      BY <1>2, <1>3, <2>1, <2>2 DEF QueueInv, Untouched, Holds
    <3>2. QED BY <3>1, UntouchedRow
  <2>3. QED BY <1>2, <1>3, <2>1, <2>2, OneTickOneRow
<1>6. QED BY <1>4, <1>5

LEMMA RecordQueueInv ==
  ASSUME QueueInv, KeyInv', NEW t \in Ticks,
         RecordSuccess(t) \/ RecordRetry(t) \/ RecordFailure(t) \/ RecordNoHandler(t)
  PROVE  QueueInv'
<1> DEFINE old == jobs[tick[t].id]
           safe == tick[t].id \notin clobbered
<1>1. tick[t].pc = "recording"
  BY DEF RecordSuccess, RecordRetry, RecordFailure, RecordNoHandler
<1>2. tick[t] \in Call /\ old \in Row
  BY <1>1, HeldFits
<1>3. safe => /\ ~old.dead
              /\ tick[t].attempt = old.attempts + 1
              /\ tick[t].max = old.maxAttempts /\ tick[t].attempt <= tick[t].max
              /\ runs[tick[t].id] = IF tick[t].outcome = "noHandler"
                                    THEN old.attempts ELSE tick[t].attempt
  BY <1>1, RecordingFits
<1>s. ASSUME NEW cols, Settle(t, cols),
             safe =>
               /\ cols.dead <=> cols.status = "failed"
               /\ cols.status \in {"pending", "succeeded", "failed"}
               /\ cols.status = "pending" => cols.attempts < cols.maxAttempts
               /\ cols.status # "pending" => cols.attempts <= cols.maxAttempts
               /\ runs[tick[t].id] = cols.attempts
      PROVE  QueueInv'
  BY <1>s, <1>1, SettleQueueInv
<1> HIDE DEF old, safe
<1>4. CASE RecordSuccess(t)
  <2> DEFINE cols == [old EXCEPT !.status = "succeeded", !.attempts = tick[t].attempt]
  <2>1. /\ cols.status = "succeeded" /\ cols.attempts = tick[t].attempt
        /\ cols.maxAttempts = old.maxAttempts /\ cols.dead = old.dead
    BY <1>2 DEF Row
  <2>2. Settle(t, cols) /\ tick[t].outcome = "ok"
    BY <1>4 DEF RecordSuccess, old
  <2> HIDE DEF cols
  <2>3. QED BY <1>3, <1>s, <2>1, <2>2
<1>5. CASE RecordRetry(t)
  <2> DEFINE cols == [old EXCEPT !.status = "pending", !.attempts = tick[t].attempt,
                                !.due = FALSE]
  <2>1. /\ cols.status = "pending" /\ cols.attempts = tick[t].attempt
        /\ cols.maxAttempts = old.maxAttempts /\ cols.dead = old.dead
    BY <1>2 DEF Row
  <2>2. Settle(t, cols) /\ tick[t].outcome = "error" /\ tick[t].attempt < tick[t].max
    BY <1>5 DEF RecordRetry, RetriesLeft, old
  <2> HIDE DEF cols
  <2>3. QED BY <1>3, <1>s, <2>1, <2>2
<1>6. CASE RecordFailure(t)
  <2> DEFINE cols == [old EXCEPT !.status = "failed", !.attempts = tick[t].attempt,
                                !.dead = TRUE]
  <2>1. /\ cols.status = "failed" /\ cols.attempts = tick[t].attempt
        /\ cols.maxAttempts = old.maxAttempts /\ cols.dead
    BY <1>2 DEF Row
  <2>2. Settle(t, cols) /\ tick[t].outcome # "noHandler"
    BY <1>6 DEF RecordFailure, old
  <2> HIDE DEF cols
  <2>3. QED BY <1>3, <1>s, <2>1, <2>2
<1>7. CASE RecordNoHandler(t)
  <2> DEFINE cols == [old EXCEPT !.status = "failed", !.dead = TRUE]
  <2>1. /\ cols.status = "failed" /\ cols.attempts = old.attempts
        /\ cols.maxAttempts = old.maxAttempts /\ cols.dead
    BY <1>2 DEF Row
  <2>2. Settle(t, cols) /\ tick[t].outcome = "noHandler"
    BY <1>7 DEF RecordNoHandler, old
  <2>3. safe => old.attempts <= old.maxAttempts
    BY <1>2, <1>3 DEF Row
  <2> HIDE DEF cols
  <2>4. QED BY <1>3, <1>s, <2>1, <2>2, <2>3
<1>8. QED BY <1>4, <1>5, <1>6, <1>7

LEMMA TickQueueInv ==
  ASSUME QueueInv, NEW t \in Ticks, TickStep(t) \/ RecordRejected(t)
  PROVE  QueueInv'
<1>1. KeyInv'
  BY TickKeyInv DEF QueueInv
<1>2. QED
  BY <1>1, ClaimQueueInv, RunQueueInv, RecordQueueInv, RejectedQueueInv
  DEF TickStep, ClaimNext

LEMMA EnqueueQueueInv ==
  ASSUME QueueInv, NEW e \in Enqueuers, EnqueueStep(e)
  PROVE  QueueInv'
<1>1. KeyInv' /\ TypeOK
  BY EnqueueKeyInv DEF QueueInv, KeyInv
<1>2. ASSUME jobs' = jobs, tick' = tick, runs' = runs, clobbered' = clobbered,
             \A f \in Enqueuers : RequestFits(f)'
      PROVE  QueueInv'
  <2>1. ASSUME NEW i \in Ids, i \notin clobbered' PROVE RowInv(i)'
    BY <1>2, <2>1, UntouchedRow DEF QueueInv, Untouched
  <2>2. QED BY <1>1, <1>2, <2>1 DEF QueueInv
<1>3. CASE EnqueueCheck(e)
  <2>1. PICK k \in Keys \cup {NoKey}, ty \in Types, b \in Budgets :
          \/ \E i \in Holders(k) : req' = [req EXCEPT ![e] = Answer(k, i)]
          \/ req' = [req EXCEPT ![e] = [pc |-> "inserting", key |-> k, type |-> ty,
                                        budget |-> b, id |-> NoId]]
    BY <1>3 DEF EnqueueCheck
  <2>2. \A i : Answer(k, i).pc = "done"
    BY DEF Answer, NoRequest
  <2>3. \A f \in Enqueuers : RequestFits(f)'
    BY <1>1, <2>1, <2>2 DEF RequestFits, QueueInv, TypeOK
  <2>4. QED BY <1>2, <1>3, <2>3 DEF EnqueueCheck
<1>4. CASE EnqueueReread(e)
  <2>1. PICK i : req' = [req EXCEPT ![e] = Answer(req[e].key, i)]
    BY <1>4 DEF EnqueueReread
  <2>2. Answer(req[e].key, i).pc = "done"
    BY DEF Answer, NoRequest
  <2>3. \A f \in Enqueuers : RequestFits(f)'
    BY <1>1, <2>1, <2>2 DEF RequestFits, QueueInv, TypeOK
  <2>4. QED BY <1>2, <1>4, <2>3 DEF EnqueueReread
<1>5. CASE EnqueueInsert(e)
  <2>1. CASE UniqueViolation(req[e].key)
    <3>1. req' = [req EXCEPT ![e].pc = "lost"]
      BY <1>5, <2>1 DEF EnqueueInsert
    <3>2. \A f \in Enqueuers : RequestFits(f)'
      BY <1>1, <3>1 DEF RequestFits, QueueInv, TypeOK, Request
    <3>3. QED BY <1>2, <1>5, <2>1, <3>2 DEF EnqueueInsert
  <2>2. CASE ~UniqueViolation(req[e].key)
    <3>1. PICK i \in Ids :
            /\ ~Exists(i)
            /\ Put(i, [status |-> "pending", type |-> req[e].type, key |-> req[e].key,
                       attempts |-> 0, maxAttempts |-> req[e].budget,
                       due |-> TRUE, dead |-> FALSE])
            /\ req' = [req EXCEPT ![e] = Answer(req[e].key, i)]
      BY <1>5, <2>2 DEF EnqueueInsert
    <3>2. jobs[i].status = "absent"
      BY <3>1 DEF Exists
    <3>3. /\ jobs'[i].status = "pending" /\ jobs'[i].attempts = 0
          /\ jobs'[i].maxAttempts = req[e].budget /\ ~jobs'[i].dead
          /\ \A j \in Ids : j # i => jobs'[j] = jobs[j]
      BY <1>1, <3>1 DEF Put, TypeOK
    <3>4. req[e].budget \in Nat /\ req[e].budget > 0
      BY <1>5, ConstantsAssumption DEF EnqueueInsert, QueueInv, RequestFits
    <3>5. tick' = tick /\ runs' = runs /\ clobbered' = clobbered
      BY <1>5 DEF EnqueueInsert
    <3>6. i \notin clobbered' => RowFits(i)'
      <4>1. i \notin clobbered' => runs[i] = 0
        BY <3>2, <3>5 DEF QueueInv, RowInv, RowFits
      <4>2. QED BY <3>3, <3>4, <3>5, <4>1 DEF RowFits
    <3>7. \A f \in Enqueuers : RequestFits(f)'
      <4>1. Answer(req[e].key, i).pc = "done"
        BY DEF Answer, NoRequest
      <4>2. QED BY <1>1, <3>1, <4>1 DEF RequestFits, QueueInv, TypeOK
    <3>8. QED BY <1>1, <3>2, <3>3, <3>5, <3>6, <3>7, OneRow
  <2>3. QED BY <2>1, <2>2
<1>6. QED BY <1>3, <1>4, <1>5 DEF EnqueueStep

\* The columns a retry writes.
Regranted(o) == [jobs[op[o].id] EXCEPT !.status = "pending",
                                       !.maxAttempts = GrantedBudget(o),
                                       !.dead = DeadAfterRetry(o),
                                       !.due = TRUE]

LEMMA RetryWritten ==
  ASSUME QueueInv, NEW o \in Operators, RetryWrite(o)
  PROVE  /\ op[o].id \in Ids /\ Exists(op[o].id) /\ Put(op[o].id, Regranted(o))
         /\ Regranted(o).status = "pending" /\ ~Regranted(o).dead
         /\ Regranted(o).attempts = jobs[op[o].id].attempts
         /\ Regranted(o).maxAttempts = op[o].attempts + 1
         /\ clobbered \subseteq clobbered'
         /\ op[o].id \notin clobbered' =>
              jobs[op[o].id].status # "running" /\ op[o].attempts = jobs[op[o].id].attempts
         /\ op[o].id \notin clobbered' => clobbered' = clobbered
         /\ clobbered' \subseteq clobbered \cup {op[o].id}
<1>1. op[o].id \in Ids /\ Exists(op[o].id)
  BY DEF RetryWrite, QueueInv, KeyInv, LiveRefs
<1>2. jobs[op[o].id] \in Row
  BY <1>1 DEF QueueInv, KeyInv, TypeOK
<1>3. Put(op[o].id, Regranted(o))
  BY DEF RetryWrite, Regranted
<1>4. /\ Regranted(o).status = "pending" /\ ~Regranted(o).dead
      /\ Regranted(o).attempts = jobs[op[o].id].attempts
      /\ Regranted(o).maxAttempts = op[o].attempts + 1
  BY <1>2 DEF Regranted, Row, GrantedBudget, DeadAfterRetry
<1>5. clobbered' = IF AsRead(o) THEN clobbered ELSE clobbered \cup {op[o].id}
  BY DEF RetryWrite, Blind
<1>6. QED BY <1>1, <1>3, <1>4, <1>5 DEF AsRead

LEMMA RetryQueueInv ==
  ASSUME QueueInv, NEW o \in Operators, RetryStep(o)
  PROVE  QueueInv'
<1>1. KeyInv'
  BY RetryKeyInv DEF QueueInv
<1>2. CASE RetryRead(o)
  <2>1. jobs' = jobs /\ tick' = tick /\ runs' = runs /\ req' = req /\ clobbered' = clobbered
    BY <1>2 DEF RetryRead
  <2>2. ASSUME NEW i \in Ids, i \notin clobbered' PROVE RowInv(i)'
    BY <2>1, <2>2, UntouchedRow DEF QueueInv, Untouched
  <2>3. QED BY <1>1, <2>1, <2>2 DEF QueueInv, RequestFits
<1>3. CASE RetryWrite(o)
  <2>1. PICK i \in Ids : i = op[o].id
    BY <1>3, RetryWritten
  <2>2. tick' = tick /\ runs' = runs /\ req' = req
    BY <1>3 DEF RetryWrite
  <2>3. /\ jobs'[i] = Regranted(o)
        /\ \A j \in Ids : j # i => jobs'[j] = jobs[j]
    <3>1. jobs' = [jobs EXCEPT ![i] = Regranted(o)]
      BY <1>3, <2>1, RetryWritten DEF Put
    <3>2. QED BY <3>1 DEF QueueInv, KeyInv, TypeOK
  <2>4. i \notin clobbered' => RowFits(i)' /\ jobs[i].status # "running"
    <3> SUFFICES ASSUME i \notin clobbered'
                 PROVE  RowFits(i)' /\ jobs[i].status # "running"
      OBVIOUS
    <3>1. /\ jobs[i].status # "running" /\ jobs[i].status # "absent"
          /\ op[o].attempts = jobs[i].attempts
          /\ clobbered' = clobbered
      BY <1>3, <2>1, RetryWritten DEF Exists
    <3>2. RowFits(i) /\ jobs[i] \in Row
      BY <3>1 DEF QueueInv, KeyInv, TypeOK, RowInv
    <3>3. /\ jobs'[i].status = "pending" /\ ~jobs'[i].dead
          /\ jobs'[i].attempts = jobs[i].attempts
          /\ jobs'[i].maxAttempts = jobs[i].attempts + 1
      BY <1>3, <2>1, <2>3, <3>1, RetryWritten
    <3>4. runs[i] = jobs[i].attempts /\ jobs[i].attempts \in Nat
      BY <3>1, <3>2 DEF RowFits, Row
    <3>5. QED BY <2>2, <3>1, <3>3, <3>4 DEF RowFits
  <2>5. \A f \in Enqueuers : RequestFits(f)'
    BY <2>2 DEF RequestFits, QueueInv
  <2>6. clobbered \subseteq clobbered'
    BY <1>3, RetryWritten
  <2>7. QED BY <1>1, <2>2, <2>3, <2>4, <2>5, <2>6, OneRow
<1>4. QED BY <1>2, <1>3 DEF RetryStep

LEMMA DueQueueInv ==
  ASSUME QueueInv, NEW i \in Ids, BecomeDue(i)
  PROVE  QueueInv'
<1>1. KeyInv' /\ TypeOK
  BY OtherKeyInv DEF QueueInv, KeyInv
<1>2. /\ jobs[i].status = "pending" /\ jobs' = [jobs EXCEPT ![i] = [jobs[i] EXCEPT !.due = TRUE]]
      /\ tick' = tick /\ runs' = runs /\ req' = req /\ clobbered' = clobbered
  BY DEF BecomeDue, Put
<1>3. jobs[i] \in Row
  BY <1>1 DEF TypeOK
<1>4. /\ jobs'[i].status = "pending" /\ jobs'[i].attempts = jobs[i].attempts
      /\ jobs'[i].maxAttempts = jobs[i].maxAttempts /\ jobs'[i].dead = jobs[i].dead
  BY <1>1, <1>2, <1>3 DEF TypeOK, Row
<1>5. \A j \in Ids : j # i => jobs'[j] = jobs[j]
  BY <1>1, <1>2 DEF TypeOK
<1>6. i \notin clobbered' => RowFits(i)'
  BY <1>2, <1>4 DEF RowFits, RowInv, QueueInv
<1>7. \A f \in Enqueuers : RequestFits(f)'
  BY <1>2 DEF RequestFits, QueueInv
<1>8. QED BY <1>1, <1>2, <1>5, <1>6, <1>7, OneRow

LEMMA CrashQueueInv ==
  ASSUME QueueInv, NEW p \in Procs, Crash(p)
  PROVE  QueueInv'
<1>1. KeyInv'
  BY OtherKeyInv DEF QueueInv
<1>2. jobs' = jobs /\ runs' = runs /\ clobbered' = clobbered
  BY DEF Crash
<1>3. \A t \in Ticks : tick'[t].pc = "idle" \/ tick'[t] = tick[t]
  BY DEF Crash, NoCall
<1>4. \A e \in Enqueuers : req'[e].pc # "inserting" \/ req'[e] = req[e]
  BY DEF Crash, NoRequest
<1>5. ASSUME NEW i \in Ids, i \notin clobbered' PROVE RowInv(i)'
  <2>1. Untouched(i)
    BY <1>2, <1>3 DEF Untouched, Holds
  <2>2. QED BY <1>2, <1>5, <2>1, UntouchedRow DEF QueueInv
<1>6. QED BY <1>1, <1>4, <1>5 DEF QueueInv, RequestFits

LEMMA StutterQueueInv == QueueInv /\ UNCHANGED vars => QueueInv'
<1> SUFFICES ASSUME QueueInv, UNCHANGED vars PROVE QueueInv'
  OBVIOUS
<1>1. KeyInv'
  BY OtherKeyInv DEF QueueInv
<1>2. /\ jobs' = jobs /\ runs' = runs /\ clobbered' = clobbered /\ req' = req
      /\ tick' = tick
  BY DEF vars
<1>3. ASSUME NEW i \in Ids, i \notin clobbered' PROVE RowInv(i)'
  BY <1>2, <1>3, UntouchedRow DEF QueueInv, Untouched
<1>4. QED BY <1>1, <1>2, <1>3 DEF QueueInv, RequestFits

LEMMA QueueInvariant == Spec => []QueueInv
<1>1. Init => QueueInv
  BY InitQueueInv
<1>2. QueueInv /\ [Next]_vars => QueueInv'
  BY EnqueueQueueInv, TickQueueInv, RetryQueueInv, DueQueueInv, CrashQueueInv,
     StutterQueueInv DEF Next
<1>3. QED BY <1>1, <1>2, PTL DEF Spec

(***************************************************************************)
(* What follows from the invariant.                                        *)
(***************************************************************************)

\* A claimed row has one runner, however many ticks and operators overlap, crash
\* or lose a write, until a claim or a retry finds it other than as it was read.
THEOREM OneRunner == Spec => []OneRunnerPerRow
<1>1. QueueInv => OneRunnerPerRow
  BY DEF QueueInv, OneRunnerPerRow, RowInv, CallFits
<1>2. QED BY <1>1, QueueInvariant, PTL

\* A handler never runs more often than the budget allows, nor less often than
\* the attempts column says.
THEOREM BudgetHolds == Spec => []RunsWithinBudget
<1>1. QueueInv => RunsWithinBudget
  <2> SUFFICES ASSUME QueueInv, NEW i \in Ids, i \notin clobbered, Exists(i)
               PROVE  runs[i] <= jobs[i].maxAttempts /\ jobs[i].attempts <= runs[i]
    BY DEF RunsWithinBudget
  <2>1. RowFits(i) /\ jobs[i] \in Row /\ runs[i] \in Nat
    BY DEF QueueInv, KeyInv, TypeOK, RowInv
  <2>2. QED BY <2>1 DEF RowFits, Row, Exists
<1>2. QED BY <1>1, QueueInvariant, PTL

\* The dead-letter column agrees with the status.
THEOREM DeadLettersAreFailed == Spec => []DeadLetterExact
<1>1. QueueInv => DeadLetterExact
  BY DEF QueueInv, RowInv, RowFits, DeadLetterExact
<1>2. QED BY <1>1, QueueInvariant, PTL

(***************************************************************************)
(* Every step is one on the columns of one row, or leaves the table alone. *)
(***************************************************************************)

\* A step that leaves the table alone.
Beside == UNCHANGED <<jobs, grants, clobbered>>

\* The claim of a row, and the record of its outcome, unless it is clobbered.
Claimed(i, cols) ==
  /\ Put(i, cols) /\ grants' = grants
  /\ cols.status = "running"
  /\ cols.attempts = jobs[i].attempts /\ cols.maxAttempts = jobs[i].maxAttempts
  /\ Exists(i)
  /\ clobbered \subseteq clobbered' /\ clobbered' \subseteq clobbered \cup {i}
  /\ i \notin clobbered' =>
       jobs[i].status = "pending" /\ jobs[i].attempts < jobs[i].maxAttempts

Recorded(i, cols) ==
  /\ Put(i, cols) /\ grants' = grants
  /\ cols.status \in {"pending", "succeeded", "failed"}
  /\ cols.maxAttempts = jobs[i].maxAttempts
  /\ Exists(i)
  /\ clobbered' = clobbered
  /\ i \notin clobbered =>
       /\ jobs[i].status = "running"
       /\ \/ cols.attempts = jobs[i].attempts + 1
          \/ cols.attempts = jobs[i].attempts /\ cols.status = "failed"
       /\ cols.status = "pending" => cols.attempts < cols.maxAttempts

LEMMA TickOnTable ==
  ASSUME QueueInv, NEW t \in Ticks, TickStep(t) \/ RecordRejected(t)
  PROVE  \/ Beside
         \/ \E i \in Ids : \E cols : Claimed(i, cols) \/ Recorded(i, cols)
<1> DEFINE old == jobs[tick[t].id]
<1>1. CASE RunHandler(t) \/ RecordRejected(t) \/ ClaimSelect(t)
  BY <1>1 DEF RunHandler, RecordRejected, ClaimSelect, Beside
<1>2. CASE ClaimMemory(t)
  <2>1. PICK i \in Ids : NextDue(i) /\ Put(i, [jobs[i] EXCEPT !.status = "running"])
    BY <1>2 DEF ClaimMemory
  <2> DEFINE cols == [jobs[i] EXCEPT !.status = "running"]
  <2>2. jobs[i] \in Row /\ jobs[i].status = "pending" /\ Exists(i)
    BY <2>1 DEF QueueInv, KeyInv, TypeOK, NextDue, Claimable, Exists
  <2>3. /\ cols.status = "running" /\ cols.attempts = jobs[i].attempts
        /\ cols.maxAttempts = jobs[i].maxAttempts
    BY <2>2 DEF Row
  <2>4. grants' = grants /\ clobbered' = clobbered
    BY <1>2 DEF ClaimMemory
  <2>5. i \notin clobbered => jobs[i].attempts < jobs[i].maxAttempts
    BY <2>2 DEF QueueInv, RowInv, RowFits
  <2>6. Claimed(i, cols)
    BY <2>1, <2>2, <2>3, <2>4, <2>5 DEF Claimed
  <2>7. QED BY <2>6
<1>3. CASE ClaimUpdate(t)
  <2>1. PICK i \in Ids : i = tick[t].id /\ Exists(i)
    BY <1>3 DEF ClaimUpdate, QueueInv, KeyInv, LiveRefs
  <2> DEFINE cols == [jobs[i] EXCEPT !.status = "running"]
  <2>2. /\ Put(i, cols) /\ grants' = grants
        /\ clobbered' = IF AsSelected(t) THEN clobbered ELSE clobbered \cup {i}
    BY <1>3, <2>1 DEF ClaimUpdate, Blind
  <2>3. jobs[i] \in Row
    BY DEF QueueInv, KeyInv, TypeOK
  <2>4. /\ cols.status = "running" /\ cols.attempts = jobs[i].attempts
        /\ cols.maxAttempts = jobs[i].maxAttempts
    BY <2>3 DEF Row
  <2>5. i \notin clobbered' =>
          jobs[i].status = "pending" /\ jobs[i].attempts < jobs[i].maxAttempts
    BY <2>1, <2>2 DEF AsSelected, QueueInv, RowInv, RowFits
  <2>6. Claimed(i, cols)
    BY <2>1, <2>2, <2>4, <2>5 DEF Claimed
  <2>7. QED BY <2>6
<1>4. ASSUME tick[t].pc = "recording"
      PROVE  /\ tick[t].id \in Ids /\ Exists(tick[t].id) /\ tick[t] \in Call /\ old \in Row
             /\ tick[t].id \notin clobbered =>
                  /\ old.status = "running"
                  /\ tick[t].attempt = old.attempts + 1 /\ tick[t].max = old.maxAttempts
  BY <1>4, HeldFits, RecordingFits DEF QueueInv, KeyInv, LiveRefs
<1>5. CASE RecordSuccess(t)
  <2> DEFINE cols == [old EXCEPT !.status = "succeeded", !.attempts = tick[t].attempt]
  <2>1. /\ Put(tick[t].id, cols) /\ tick[t].pc = "recording"
        /\ grants' = grants /\ clobbered' = clobbered
    BY <1>5 DEF RecordSuccess, Settle
  <2>2. /\ cols.status = "succeeded" /\ cols.attempts = tick[t].attempt
        /\ cols.maxAttempts = old.maxAttempts
    BY <1>4, <2>1 DEF Row
  <2> HIDE DEF cols
  <2>3. Recorded(tick[t].id, cols)
    BY <1>4, <2>1, <2>2 DEF Recorded
  <2>4. QED BY <1>4, <2>1, <2>3
<1>6. CASE RecordRetry(t)
  <2> DEFINE cols == [old EXCEPT !.status = "pending", !.attempts = tick[t].attempt,
                                !.due = FALSE]
  <2>1. /\ Put(tick[t].id, cols) /\ tick[t].pc = "recording" /\ tick[t].attempt < tick[t].max
        /\ grants' = grants /\ clobbered' = clobbered
    BY <1>6 DEF RecordRetry, RetriesLeft, Settle
  <2>2. /\ cols.status = "pending" /\ cols.attempts = tick[t].attempt
        /\ cols.maxAttempts = old.maxAttempts
    BY <1>4, <2>1 DEF Row
  <2> HIDE DEF cols
  <2>3. Recorded(tick[t].id, cols)
    BY <1>4, <2>1, <2>2 DEF Recorded
  <2>4. QED BY <1>4, <2>1, <2>3
<1>7. CASE RecordFailure(t)
  <2> DEFINE cols == [old EXCEPT !.status = "failed", !.attempts = tick[t].attempt,
                                !.dead = TRUE]
  <2>1. /\ Put(tick[t].id, cols) /\ tick[t].pc = "recording"
        /\ grants' = grants /\ clobbered' = clobbered
    BY <1>7 DEF RecordFailure, Settle
  <2>2. /\ cols.status = "failed" /\ cols.attempts = tick[t].attempt
        /\ cols.maxAttempts = old.maxAttempts
    BY <1>4, <2>1 DEF Row
  <2> HIDE DEF cols
  <2>3. Recorded(tick[t].id, cols)
    BY <1>4, <2>1, <2>2 DEF Recorded
  <2>4. QED BY <1>4, <2>1, <2>3
<1>8. CASE RecordNoHandler(t)
  <2> DEFINE cols == [old EXCEPT !.status = "failed", !.dead = TRUE]
  <2>1. /\ Put(tick[t].id, cols) /\ tick[t].pc = "recording"
        /\ grants' = grants /\ clobbered' = clobbered
    BY <1>8 DEF RecordNoHandler, Settle
  <2>2. /\ cols.status = "failed" /\ cols.attempts = old.attempts
        /\ cols.maxAttempts = old.maxAttempts
    BY <1>4, <2>1 DEF Row
  <2> HIDE DEF cols
  <2>3. Recorded(tick[t].id, cols)
    BY <1>4, <2>1, <2>2 DEF Recorded
  <2>4. QED BY <1>4, <2>1, <2>3
<1>9. QED
  BY <1>1, <1>2, <1>3, <1>5, <1>6, <1>7, <1>8 DEF TickStep, ClaimNext

\* What TerminalIsFinal asks of a step for row i.
Kept(i) == Settled(i) /\ jobs'[i] # jobs[i] => grants'[i] = grants[i] + 1

LEMMA StepKeepsFinal ==
  ASSUME QueueInv, [Next]_vars, NEW i \in Ids, i \notin clobbered'
  PROVE  Kept(i)
<1>t. TypeOK
  BY DEF QueueInv, KeyInv
<1>1. CASE jobs' = jobs
  BY <1>1 DEF Kept
<1>2. ASSUME NEW j, NEW cols, Put(j, cols), i = j => ~Settled(i)
      PROVE  Kept(i)
  BY <1>t, <1>2 DEF Put, Kept, TypeOK
<1>3. ASSUME NEW e \in Enqueuers, EnqueueStep(e) PROVE Kept(i)
  <2>1. \/ jobs' = jobs
        \/ \E j \in Ids : \E cols : ~Exists(j) /\ Put(j, cols)
    BY <1>3 DEF EnqueueStep, EnqueueCheck, EnqueueReread, EnqueueInsert
  <2>2. QED BY <1>1, <1>2, <2>1 DEF Exists, Settled
<1>4. ASSUME NEW t \in Ticks, TickStep(t) \/ RecordRejected(t) PROVE Kept(i)
  <2>1. CASE Beside
    BY <1>1, <2>1 DEF Beside
  <2>2. CASE ~Beside
    <3>1. PICK j \in Ids : \E cols : Claimed(j, cols) \/ Recorded(j, cols)
      BY <1>4, <2>2, TickOnTable
    <3>2. PICK cols : Claimed(j, cols) \/ Recorded(j, cols)
      BY <3>1
    <3>3. Put(j, cols) /\ (i = j => ~Settled(i))
      BY <3>2 DEF Claimed, Recorded, Settled
    <3>4. QED BY <1>2, <3>3
  <2>3. QED BY <2>1, <2>2
<1>5. ASSUME NEW o \in Operators, RetryStep(o) PROVE Kept(i)
  <2>1. CASE RetryRead(o)
    BY <1>1, <2>1 DEF RetryRead
  <2>2. CASE RetryWrite(o)
    <3>1. CASE i = op[o].id
      BY <1>t, <2>2, <3>1 DEF RetryWrite, TypeOK, Kept
    <3>2. CASE i # op[o].id
      BY <1>2, <2>2, <3>2 DEF RetryWrite
    <3>3. QED BY <3>1, <3>2
  <2>3. QED BY <1>5, <2>1, <2>2 DEF RetryStep
<1>6. ASSUME NEW j \in Ids, BecomeDue(j) PROVE Kept(i)
  BY <1>2, <1>6 DEF BecomeDue, Settled
<1>7. ASSUME NEW p \in Procs, Crash(p) PROVE Kept(i)
  BY <1>1, <1>7 DEF Crash
<1>8. CASE UNCHANGED vars
  BY <1>1, <1>8 DEF vars
<1>9. QED BY <1>3, <1>4, <1>5, <1>6, <1>7, <1>8 DEF Next

\* A finished row stays finished: no late or lost write of another tick reaches it.
THEOREM FinalStaysFinal == Spec => TerminalIsFinal
<1>1. QueueInv /\ [Next]_vars =>
        [\A i \in Ids \ clobbered' :
           Settled(i) /\ jobs'[i] # jobs[i] => grants'[i] = grants[i] + 1]_vars
  BY StepKeepsFinal DEF Kept
<1>2. QED BY <1>1, QueueInvariant, PTL DEF Spec, TerminalIsFinal

(***************************************************************************)
(* The queue implements the lifecycle of its rows (module JobLifecycle).   *)
(***************************************************************************)

StatusOf == [i \in Ids |-> jobs[i].status]
UsedOf   == [i \in Ids |-> jobs[i].attempts]
BudgetOf == [i \in Ids |-> jobs[i].maxAttempts]
Columns  == <<StatusOf, UsedOf, BudgetOf>>

\* A write of one row is a write of its three columns.
LEMMA PutMaps ==
  ASSUME TypeOK, NEW i \in Ids, NEW cols, Put(i, cols)
  PROVE  /\ StatusOf' = [StatusOf EXCEPT ![i] = cols.status]
         /\ UsedOf' = [UsedOf EXCEPT ![i] = cols.attempts]
         /\ BudgetOf' = [BudgetOf EXCEPT ![i] = cols.maxAttempts]
         /\ StatusOf[i] = jobs[i].status /\ UsedOf[i] = jobs[i].attempts
         /\ BudgetOf[i] = jobs[i].maxAttempts
         /\ cols.status = jobs[i].status => StatusOf' = StatusOf
         /\ cols.attempts = jobs[i].attempts => UsedOf' = UsedOf
         /\ cols.maxAttempts = jobs[i].maxAttempts => BudgetOf' = BudgetOf
BY DEF TypeOK, Put, StatusOf, UsedOf, BudgetOf

LEMMA KeptMaps ==
  ASSUME jobs' = jobs
  PROVE  UNCHANGED Columns
BY DEF StatusOf, UsedOf, BudgetOf, Columns

\* A row that is clobbered is there.
ClobberedExist == \A i \in clobbered : i \in Ids /\ Exists(i)

LEMMA PutClobbered ==
  ASSUME TypeOK, ClobberedExist, NEW i \in Ids, NEW cols, Put(i, cols),
         cols.status # "absent", clobbered' \subseteq clobbered \cup {i}
  PROVE  ClobberedExist'
BY DEF TypeOK, Put, ClobberedExist, Exists

LEMMA StepClobbers ==
  ASSUME QueueInv, ClobberedExist, [Next]_vars
  PROVE  ClobberedExist'
<1>t. TypeOK
  BY DEF QueueInv, KeyInv
<1>1. ASSUME jobs' = jobs, clobbered' = clobbered PROVE ClobberedExist'
  BY <1>1 DEF ClobberedExist, Exists
<1>2. ASSUME NEW e \in Enqueuers, EnqueueStep(e) PROVE ClobberedExist'
  <2>1. clobbered' = clobbered
    BY <1>2 DEF EnqueueStep, EnqueueCheck, EnqueueReread, EnqueueInsert
  <2>2. CASE jobs' # jobs
    <3> DEFINE cols == [status |-> "pending", type |-> req[e].type, key |-> req[e].key,
                       attempts |-> 0, maxAttempts |-> req[e].budget,
                       due |-> TRUE, dead |-> FALSE]
    <3>1. PICK i \in Ids : Put(i, cols)
      BY <1>2, <2>2 DEF EnqueueStep, EnqueueCheck, EnqueueReread, EnqueueInsert
    <3>2. cols.status = "pending"
      OBVIOUS
    <3> HIDE DEF cols
    <3>3. QED BY <1>t, <2>1, <3>1, <3>2, PutClobbered
  <2>3. QED BY <1>1, <2>1, <2>2
<1>3. ASSUME NEW t \in Ticks, TickStep(t) \/ RecordRejected(t) PROVE ClobberedExist'
  <2>1. CASE Beside
    BY <1>1, <2>1 DEF Beside
  <2>2. CASE ~Beside
    <3>1. PICK i \in Ids : \E cols : Claimed(i, cols) \/ Recorded(i, cols)
      BY <1>3, <2>2, TickOnTable
    <3>2. PICK cols : Claimed(i, cols) \/ Recorded(i, cols)
      BY <3>1
    <3>3. Put(i, cols) /\ cols.status # "absent" /\ clobbered' \subseteq clobbered \cup {i}
      BY <3>2 DEF Claimed, Recorded
    <3>4. QED BY <1>t, <3>3, PutClobbered
  <2>3. QED BY <2>1, <2>2
<1>4. ASSUME NEW o \in Operators, RetryStep(o) PROVE ClobberedExist'
  <2>1. CASE RetryRead(o)
    BY <1>1, <2>1 DEF RetryRead
  <2>2. CASE RetryWrite(o)
    <3>1. /\ op[o].id \in Ids /\ Put(op[o].id, Regranted(o))
          /\ Regranted(o).status = "pending"
          /\ clobbered' \subseteq clobbered \cup {op[o].id}
      BY <2>2, RetryWritten
    <3>2. QED BY <1>t, <3>1, PutClobbered
  <2>3. QED BY <1>4, <2>1, <2>2 DEF RetryStep
<1>5. ASSUME NEW j \in Ids, BecomeDue(j) PROVE ClobberedExist'
  <2> DEFINE cols == [jobs[j] EXCEPT !.due = TRUE]
  <2>1. Put(j, cols) /\ jobs[j] \in Row /\ jobs[j].status = "pending" /\ clobbered' = clobbered
    BY <1>t, <1>5 DEF BecomeDue, TypeOK
  <2>2. cols.status = "pending"
    BY <2>1 DEF Row
  <2> HIDE DEF cols
  <2>3. QED BY <1>t, <2>1, <2>2, PutClobbered
<1>6. ASSUME NEW p \in Procs, Crash(p) PROVE ClobberedExist'
  BY <1>1, <1>6 DEF Crash
<1>7. CASE UNCHANGED vars
  BY <1>1, <1>7 DEF vars
<1>8. QED BY <1>2, <1>3, <1>4, <1>5, <1>6, <1>7 DEF Next

LifecycleNext == Lifecycle!Next \/ UNCHANGED <<Columns, clobbered>>

\* A write of a clobbered row is the lifecycle's Clobber.
LEMMA ClobberMaps ==
  ASSUME TypeOK, NEW i \in Ids, NEW cols, Put(i, cols), Exists(i),
         cols.status # "absent", clobbered' = clobbered \cup {i}
  PROVE  LifecycleNext
<1>1. \A j \in Ids \ {i} : jobs'[j] = jobs[j]
  BY DEF TypeOK, Put
<1>2. jobs[i].status # "absent" /\ jobs'[i].status # "absent"
  BY DEF TypeOK, Put, Exists
<1>3. Lifecycle!Clobber(i)
  BY <1>1, <1>2 DEF Lifecycle!Clobber
<1>4. QED BY <1>3 DEF LifecycleNext, Lifecycle!Next

LEMMA StepRefines ==
  ASSUME QueueInv, ClobberedExist, [Next]_vars
  PROVE  LifecycleNext
<1>t. TypeOK
  BY DEF QueueInv, KeyInv
<1>1. ASSUME jobs' = jobs, clobbered' = clobbered PROVE LifecycleNext
  BY <1>1, KeptMaps DEF LifecycleNext
<1>2. ASSUME NEW e \in Enqueuers, EnqueueStep(e) PROVE LifecycleNext
  <2>1. clobbered' = clobbered
    BY <1>2 DEF EnqueueStep, EnqueueCheck, EnqueueReread, EnqueueInsert
  <2>2. CASE jobs' = jobs
    BY <1>1, <2>1, <2>2
  <2>3. CASE jobs' # jobs
    <3> DEFINE cols == [status |-> "pending", type |-> req[e].type, key |-> req[e].key,
                       attempts |-> 0, maxAttempts |-> req[e].budget,
                       due |-> TRUE, dead |-> FALSE]
    <3>1. PICK i \in Ids : ~Exists(i) /\ Put(i, cols) /\ req[e].pc = "inserting"
      BY <1>2, <2>3 DEF EnqueueStep, EnqueueCheck, EnqueueReread, EnqueueInsert
    <3>2. jobs[i].status = "absent" /\ req[e].budget \in Budgets /\ i \notin clobbered
      BY <3>1 DEF Exists, QueueInv, RequestFits, ClobberedExist
    <3>3. jobs[i].attempts = 0
      BY <3>2 DEF QueueInv, RowInv, RowFits
    <3>4. /\ StatusOf' = [StatusOf EXCEPT ![i] = "pending"]
          /\ BudgetOf' = [BudgetOf EXCEPT ![i] = req[e].budget]
          /\ StatusOf[i] = "absent" /\ UsedOf' = UsedOf
      BY <1>t, <3>1, <3>2, <3>3, PutMaps
    <3>5. Lifecycle!Submit(i)
      BY <3>2, <3>4 DEF Lifecycle!Submit, Lifecycle!Move, StatusOf, UsedOf, BudgetOf
    <3>6. QED BY <2>1, <3>5 DEF Lifecycle!Next, LifecycleNext
  <2>4. QED BY <2>2, <2>3
<1>3. ASSUME NEW t \in Ticks, TickStep(t) \/ RecordRejected(t) PROVE LifecycleNext
  <2>1. CASE Beside
    BY <1>1, <2>1 DEF Beside
  <2>2. CASE ~Beside
    <3>1. PICK i \in Ids : \E cols : Claimed(i, cols) \/ Recorded(i, cols)
      BY <1>3, <2>2, TickOnTable
    <3>2. PICK cols : Claimed(i, cols) \/ Recorded(i, cols)
      BY <3>1
    <3>3. /\ Put(i, cols) /\ Exists(i) /\ cols.status # "absent"
          /\ clobbered \subseteq clobbered' /\ clobbered' \subseteq clobbered \cup {i}
      BY <3>2 DEF Claimed, Recorded
    <3>4. CASE i \in clobbered'
      <4>1. clobbered' = clobbered \cup {i}
        BY <3>3, <3>4
      <4>2. QED BY <1>t, <3>3, <4>1, ClobberMaps
    <3>5. CASE i \notin clobbered' /\ Claimed(i, cols)
      <4>1. /\ StatusOf' = [StatusOf EXCEPT ![i] = "running"]
            /\ UsedOf' = UsedOf /\ BudgetOf' = BudgetOf
            /\ StatusOf[i] = "pending" /\ UsedOf[i] < BudgetOf[i]
        BY <1>t, <3>3, <3>5, PutMaps DEF Claimed
      <4>2. Lifecycle!Start(i)
        BY <4>1 DEF Lifecycle!Start, Lifecycle!Move, StatusOf, UsedOf, BudgetOf
      <4>3. clobbered' = clobbered
        BY <3>3, <3>5
      <4>4. QED BY <4>2, <4>3 DEF Lifecycle!Next, LifecycleNext
    <3>6. CASE i \notin clobbered' /\ Recorded(i, cols)
      <4>1. /\ StatusOf' = [StatusOf EXCEPT ![i] = cols.status]
            /\ UsedOf' = [UsedOf EXCEPT ![i] = cols.attempts]
            /\ BudgetOf' = BudgetOf /\ StatusOf[i] = "running"
            /\ UsedOf[i] = jobs[i].attempts /\ BudgetOf[i] = jobs[i].maxAttempts
            /\ cols.attempts = jobs[i].attempts => UsedOf' = UsedOf
            /\ clobbered' = clobbered
        BY <1>t, <3>3, <3>6, PutMaps DEF Recorded
      <4>2. \/ cols.attempts = jobs[i].attempts + 1
            \/ cols.attempts = jobs[i].attempts /\ cols.status = "failed"
        BY <3>6, <4>1 DEF Recorded
      <4>3. CASE cols.status = "succeeded"
        <5>1. UsedOf' = [UsedOf EXCEPT ![i] = @ + 1]
          BY <4>1, <4>2, <4>3
        <5>2. Lifecycle!Succeed(i)
          BY <4>1, <4>3, <5>1
          DEF Lifecycle!Succeed, Lifecycle!Move, Lifecycle!Use, StatusOf, UsedOf, BudgetOf
        <5>3. QED BY <4>1, <5>2 DEF Lifecycle!Next, LifecycleNext
      <4>4. CASE cols.status = "pending"
        <5>1. UsedOf' = [UsedOf EXCEPT ![i] = @ + 1] /\ UsedOf[i] + 1 < BudgetOf[i]
          BY <3>6, <4>1, <4>2, <4>4 DEF Recorded
        <5>2. Lifecycle!Reschedule(i)
          BY <4>1, <4>4, <5>1
          DEF Lifecycle!Reschedule, Lifecycle!Move, Lifecycle!Use, StatusOf, UsedOf, BudgetOf
        <5>3. QED BY <4>1, <5>2 DEF Lifecycle!Next, LifecycleNext
      <4>5. CASE cols.status = "failed"
        <5>1. UsedOf' = [UsedOf EXCEPT ![i] = @ + 1] \/ UsedOf' = UsedOf
          BY <4>1, <4>2
        <5>2. Lifecycle!GiveUp(i)
          BY <4>1, <4>5, <5>1
          DEF Lifecycle!GiveUp, Lifecycle!Move, Lifecycle!Use, StatusOf, UsedOf, BudgetOf
        <5>3. QED BY <4>1, <5>2 DEF Lifecycle!Next, LifecycleNext
      <4>6. QED BY <3>6, <4>3, <4>4, <4>5 DEF Recorded
    <3>7. QED BY <3>2, <3>4, <3>5, <3>6
  <2>3. QED BY <2>1, <2>2
<1>4. ASSUME NEW o \in Operators, RetryStep(o) PROVE LifecycleNext
  <2>1. CASE RetryRead(o)
    BY <1>1, <2>1 DEF RetryRead
  <2>2. CASE RetryWrite(o)
    <3>1. PICK i \in Ids : i = op[o].id
      BY <2>2, RetryWritten
    <3>2. /\ Put(i, Regranted(o)) /\ Exists(i) /\ Regranted(o).status = "pending"
          /\ Regranted(o).attempts = jobs[i].attempts
          /\ Regranted(o).maxAttempts = op[o].attempts + 1
          /\ clobbered \subseteq clobbered' /\ clobbered' \subseteq clobbered \cup {i}
          /\ i \notin clobbered' =>
               jobs[i].status # "running" /\ op[o].attempts = jobs[i].attempts
      BY <2>2, <3>1, RetryWritten
    <3>3. CASE i \in clobbered'
      <4>1. clobbered' = clobbered \cup {i}
        BY <3>2, <3>3
      <4>2. QED BY <1>t, <3>2, <4>1, ClobberMaps
    <3>4. CASE i \notin clobbered'
      <4>1. /\ StatusOf' = [StatusOf EXCEPT ![i] = "pending"]
            /\ BudgetOf' = [BudgetOf EXCEPT ![i] = UsedOf[i] + 1]
            /\ UsedOf' = UsedOf /\ StatusOf[i] = jobs[i].status
        BY <1>t, <3>2, <3>4, PutMaps
      <4>2. jobs[i].status \in {"pending", "succeeded", "failed"}
        BY <1>t, <3>2, <3>4 DEF TypeOK, Row, Exists
      <4>3. Lifecycle!Grant(i)
        BY <4>1, <4>2 DEF Lifecycle!Grant, Lifecycle!Move, StatusOf, UsedOf, BudgetOf
      <4>4. clobbered' = clobbered
        BY <3>2, <3>4
      <4>5. QED BY <4>3, <4>4 DEF Lifecycle!Next, LifecycleNext
    <3>5. QED BY <3>3, <3>4
  <2>3. QED BY <1>4, <2>1, <2>2 DEF RetryStep
<1>5. ASSUME NEW j \in Ids, BecomeDue(j) PROVE LifecycleNext
  <2> DEFINE cols == [jobs[j] EXCEPT !.due = TRUE]
  <2>1. Put(j, cols) /\ jobs[j] \in Row /\ clobbered' = clobbered
    BY <1>t, <1>5 DEF BecomeDue, TypeOK
  <2>2. /\ cols.status = jobs[j].status /\ cols.attempts = jobs[j].attempts
        /\ cols.maxAttempts = jobs[j].maxAttempts
    BY <2>1 DEF Row
  <2> HIDE DEF cols
  <2>3. UNCHANGED Columns
    BY <1>t, <2>1, <2>2, PutMaps DEF Columns
  <2>4. QED BY <2>1, <2>3 DEF LifecycleNext
<1>6. ASSUME NEW p \in Procs, Crash(p) PROVE LifecycleNext
  BY <1>1, <1>6 DEF Crash
<1>7. CASE UNCHANGED vars
  BY <1>1, <1>7 DEF vars
<1>8. QED BY <1>2, <1>3, <1>4, <1>5, <1>6, <1>7 DEF Next

\* Every run of the queue is a run of the lifecycle schema.ts describes: no row
\* skips a state, is retried past its budget, or comes back from where it ended
\* but by an operator's hand, until a write finds it other than as it was read.
THEOREM QueueImplementsLifecycle == Spec => ImplementsLifecycle
<1>1. Init => Lifecycle!Init /\ ClobberedExist
  BY DEF Init, Lifecycle!Init, NoRow, ClobberedExist
<1>2. QueueInv /\ ClobberedExist /\ [Next]_vars => ClobberedExist'
  BY StepClobbers
<1>3. QueueInv /\ ClobberedExist /\ [Next]_vars
        => [Lifecycle!Next]_(Lifecycle!lifecycleVars)
  BY StepRefines
  DEF LifecycleNext, Lifecycle!lifecycleVars, Lifecycle!columns, Columns,
      StatusOf, UsedOf, BudgetOf
<1>4. QED
  BY <1>1, <1>2, <1>3, QueueInvariant, PTL DEF Spec, ImplementsLifecycle, Lifecycle!Spec

-----------------------------------------------------------------------------
(***************************************************************************)
(* Sources.                                                                *)
(***************************************************************************)

\* A step that leaves the table, the bounds and the peak alone and neither starts nor
\* advances a sync.
Aside ==
  /\ UNCHANGED <<bound, table, peak>>
  /\ remote' \in Nat /\ remote' >= remote
  /\ \A t \in Ticks : work'[t] = work[t] \/ work'[t].pc \in {"idle", "fetch"}

SyncStep(t) == FetchCollection(t) \/ Match(t) \/ Upsert(t) \/ RefuseUpsert(t)

\* The upsert a sync is about to make has a record, and the row it found is that
\* record's.
Aimed == \A t \in Ticks : work[t].pc = "write" =>
  /\ work[t].todo # <<>>
  /\ work[t].match # NoMatch =>
       /\ work[t].match \in DOMAIN table
       /\ table[work[t].match].record = Head(work[t].todo)

\* The syncs about to create a row for a record.
Creators(record) == {t \in Ticks : /\ work[t].pc = "write" /\ work[t].match = NoMatch
                                   /\ Head(work[t].todo) = record}

\* A row that is there, or is about to be, was one sync's decision, and all of those
\* about to be overlap.
Counted ==
  /\ Cardinality(Syncing) <= peak
  /\ \A record \in Records :
       Cardinality(Copies(record)) + Cardinality(Creators(record)) <= peak

\* Nothing is newer than the collection; until syncs overlap, no row is newer than
\* what the sync in progress holds.
Fresh ==
  /\ \A i \in DOMAIN table : table[i].version <= remote
  /\ \A t \in Syncing : work[t].copy <= remote
  /\ peak <= 1 => \A t \in Syncing : \A i \in DOMAIN table : table[i].version <= work[t].copy

Landed(record, version) ==
  \E i \in Copies(record) : table[i].version >= version \/ peak > 1

\* A sync that was refused nothing has landed every record it has left behind.
Covered == \A t \in Syncing :
  work[t].failed \/ \A record \in ToSet(bound.feed) :
    record \in ToSet(work[t].todo) \/ Landed(record, work[t].copy)

IInv == SourcesTypeOK /\ Aimed /\ Counted /\ Fresh /\ Covered

-----------------------------------------------------------------------------
(* The queue is JobQueue's                                                 *)

LEMMA QueueStep == [NextSources]_all => [Next]_vars
<1> SUFFICES ASSUME [NextSources]_all PROVE [Next]_vars
  OBVIOUS
<1>1. CASE UNCHANGED all
  BY <1>1 DEF all
<1>2. ASSUME NEW e \in Enqueuers,
             \/ EnqueueSync(e) \/ Write(e) \/ EnqueueEnrichment(e)
             \/ EnqueueSwallowed(e) \/ InsertStep(e)
      PROVE  [Next]_vars
  BY <1>2, Zenon DEF EnqueueSync, Write, EnqueueEnrichment, EnqueueSwallowed, InsertStep,
                     Next, EnqueueStep
<1>3. ASSUME NEW t \in Ticks, SourceRun(t) PROVE [Next]_vars
  BY <1>3, Zenon DEF SourceRun, ComesToNothing, FetchCollection, Match, Upsert, RefuseUpsert,
                     Conclude, ReadRow, EnrichRow, Return, Next, TickStep
<1>4. ASSUME NEW t \in Ticks, ClaimOrRecord(t) \/ WriteRejected(t) PROVE [Next]_vars
  BY <1>4, Zenon DEF ClaimOrRecord, WriteRejected, Next
<1>5. ASSUME NEW i \in Ids, BecomeDue(i) PROVE [Next]_vars
  BY <1>5, Zenon DEF Next
<1>6. ASSUME NEW p \in Procs, ProcessDies(p) PROVE [Next]_vars
  BY <1>6, Zenon DEF ProcessDies, Next
<1>7. CASE RemoteChanges \/ RowDeleted
  BY <1>7 DEF RemoteChanges, RowDeleted
<1> QED BY <1>1, <1>2, <1>3, <1>4, <1>5, <1>6, <1>7 DEF NextSources

\* The jobs of sources live in the queue as JobQueue has it: all that is proved of
\* the queue holds for them, whatever their handler does at its awaits.
THEOREM QueueImplemented == SourcesSpec => Spec
<1>1. InitSources => Init
  BY DEF InitSources
<1>2. QED BY <1>1, QueueStep, PTL DEF SourcesSpec, Spec

LEMMA QueueTypes == SourcesSpec => []TypeOK
BY QueueImplemented, TypeCorrect, PTL

-----------------------------------------------------------------------------
(* Types                                                                   *)

LEMMA IdleRun == Idle \in Run /\ Idle.pc = "idle"
BY DEF Idle, Run, NoMatch

LEMMA Finite ==
  ASSUME NEW S, S \subseteq Ticks
  PROVE  IsFiniteSet(S) /\ Cardinality(S) \in Nat
BY SourcesAssumption, FS_Subset, FS_CardinalityType

LEMMA SyncingType == Syncing \subseteq Ticks /\ Cardinality(Syncing) \in Nat
BY Finite DEF Syncing

LEMMA SmallerSet ==
  ASSUME NEW S, S \subseteq Ticks, NEW T, T \subseteq S
  PROVE  Cardinality(T) <= Cardinality(S)
BY Finite, FS_Subset

LEMMA CreatorsType ==
  \A record : Creators(record) \subseteq Syncing /\ Cardinality(Creators(record)) \in Nat
BY Finite DEF Creators, Syncing

LEMMA CopiesType ==
  ASSUME SourcesTypeOK, NEW record
  PROVE  IsFiniteSet(Copies(record)) /\ Cardinality(Copies(record)) \in Nat
<1>1. Copies(record) \subseteq 1..Len(table) /\ Len(table) \in Nat
  BY DEF Copies, SourcesTypeOK
<1>2. IsFiniteSet(1..Len(table))
  BY <1>1, FS_Interval
<1>3. IsFiniteSet(Copies(record))
  BY <1>1, <1>2, FS_Subset
<1> QED BY <1>3, FS_CardinalityType

LEMMA FeedType == ASSUME SourcesTypeOK PROVE bound.feed \in Seq(Records)
BY SourcesAssumption DEF SourcesTypeOK

LEMMA InitIInv == InitSources => IInv
<1> SUFFICES ASSUME InitSources PROVE IInv
  OBVIOUS
<1>0. <<>> \in Seq(Synced) /\ work \in [Ticks -> Run] /\ row \in Enriched
  BY IdleRun DEF InitSources, Enriched
<1>1. SourcesTypeOK
  BY <1>0 DEF InitSources, SourcesTypeOK
<1>2. Syncing = {} /\ \A record \in Records : Copies(record) = {} /\ Creators(record) = {}
  BY IdleRun DEF InitSources, Syncing, Copies, Creators
<1>3. Counted
  <2>1. Cardinality({}) = 0 /\ peak = 0
    BY FS_EmptySet DEF InitSources
  <2> QED BY <1>2, <2>1 DEF Counted
<1>4. Aimed /\ Fresh /\ Covered
  BY <1>2, IdleRun DEF InitSources, Aimed, Fresh, Covered
<1> QED BY <1>1, <1>3, <1>4 DEF IInv

-----------------------------------------------------------------------------
(* Steps that no upsert takes                                              *)

LEMMA SetRun ==
  ASSUME SourcesTypeOK, NEW t \in Ticks, NEW r \in Run, work' = [work EXCEPT ![t] = r]
  PROVE  /\ work' \in [Ticks -> Run] /\ work'[t] = r
         /\ \A u \in Ticks : u # t => work'[u] = work[u]
BY DEF SourcesTypeOK

LEMMA EnqueuerAside ==
  ASSUME SourcesTypeOK, NEW e \in Enqueuers,
         \/ EnqueueSync(e) \/ Write(e) \/ EnqueueEnrichment(e)
         \/ EnqueueSwallowed(e) \/ InsertStep(e)
  PROVE  SourcesTypeOK' /\ Aside
<1>1. CASE EnqueueSync(e) \/ InsertStep(e)
  BY <1>1 DEF EnqueueSync, InsertStep, sources, SourcesTypeOK, Aside
<1>2. CASE Write(e)
  <2>1. row' \in Enriched /\ sink' \subseteq Enqueuers
    BY <1>2 DEF Write, SourcesTypeOK, Enriched
  <2> QED BY <1>2, <2>1 DEF Write, SourcesTypeOK, Aside
<1>3. CASE EnqueueEnrichment(e) \/ EnqueueSwallowed(e)
  <2>1. sink' = sink \ {e} /\ (UNCHANGED excused \/ excused' = TRUE)
        /\ UNCHANGED <<bound, table, remote, row, work, peak>>
    BY <1>3, Zenon DEF EnqueueEnrichment, EnqueueSwallowed
  <2>2. excused' \in BOOLEAN
    BY <2>1 DEF SourcesTypeOK
  <2>3. sink' \subseteq Enqueuers
    BY <2>1 DEF SourcesTypeOK
  <2> QED BY <2>1, <2>2, <2>3 DEF SourcesTypeOK, Aside
<1> QED BY <1>1, <1>2, <1>3

LEMMA WorldAside ==
  ASSUME SourcesTypeOK,
         \/ UNCHANGED sources
         \/ RemoteChanges \/ RowDeleted \/ \E p \in Procs : ProcessDies(p)
  PROVE  SourcesTypeOK' /\ Aside
<1>1. CASE UNCHANGED sources
  BY <1>1 DEF sources, SourcesTypeOK, Aside
<1>2. CASE RemoteChanges
  BY <1>2 DEF RemoteChanges, SourcesTypeOK, Aside
<1>3. CASE RowDeleted
  <2>1. row' \in Enriched
    BY <1>3 DEF RowDeleted, SourcesTypeOK, Enriched
  <2> QED BY <1>3, <2>1 DEF RowDeleted, SourcesTypeOK, Aside
<1>4. ASSUME NEW p \in Procs, ProcessDies(p) PROVE SourcesTypeOK' /\ Aside
  <2>1. work' \in [Ticks -> Run] /\ \A t \in Ticks : work'[t] = work[t] \/ work'[t].pc = "idle"
    BY <1>4, IdleRun DEF ProcessDies, SourcesTypeOK
  <2>2. excused' \in BOOLEAN
    BY <1>4 DEF ProcessDies, SourcesTypeOK
  <2> QED BY <1>4, <2>1, <2>2 DEF ProcessDies, SourcesTypeOK, Aside
<1> QED BY <1>1, <1>2, <1>3, <1>4

\* A handler that returns, and one that begins an enrichment.
LEMMA HandlerAside ==
  ASSUME SourcesTypeOK, NEW t \in Ticks,
         ComesToNothing(t) \/ Conclude(t) \/ ReadRow(t) \/ EnrichRow(t)
  PROVE  SourcesTypeOK' /\ Aside
<1>1. ASSUME NEW outcome, Return(t, outcome), UNCHANGED <<bound, table, remote, peak>>
      PROVE  work' \in [Ticks -> Run] /\ Aside
  BY <1>1, IdleRun, SetRun DEF Return, SourcesTypeOK, Aside
<1>2. CASE ComesToNothing(t)
  BY <1>1, <1>2 DEF ComesToNothing, SourcesTypeOK
<1>3. CASE Conclude(t)
  BY <1>1, <1>3 DEF Conclude, SourcesTypeOK
<1>4. CASE ReadRow(t)
  <2>1. [Idle EXCEPT !.pc = "fetch", !.copy = row.input] \in Run
    BY IdleRun DEF SourcesTypeOK, Enriched, Run
  <2>2. [Idle EXCEPT !.pc = "fetch", !.copy = row.input].pc = "fetch"
    BY DEF Idle
  <2>3. work' \in [Ticks -> Run] /\ \A u \in Ticks : work'[u] = work[u] \/ work'[u].pc = "fetch"
    BY <1>4, <2>1, <2>2, SetRun DEF ReadRow
  <2> QED BY <1>4, <2>3 DEF ReadRow, SourcesTypeOK, Aside
<1>5. CASE EnrichRow(t)
  <2>1. row' \in Enriched
    BY <1>5 DEF EnrichRow, SourcesTypeOK, Enriched, Run
  <2> QED BY <1>1, <1>5, <2>1 DEF EnrichRow, SourcesTypeOK
<1> QED BY <1>2, <1>3, <1>4, <1>5

\* So a step is a sync's, or leaves the syncs' work alone.
LEMMA StepKinds ==
  ASSUME SourcesTypeOK, [NextSources]_all
  PROVE  (SourcesTypeOK' /\ Aside) \/ \E t \in Ticks : SyncStep(t)
<1>1. CASE UNCHANGED all
  BY <1>1, WorldAside DEF all
<1>2. CASE \E t \in Ticks : ClaimOrRecord(t) \/ WriteRejected(t)
  BY <1>2, WorldAside DEF ClaimOrRecord, WriteRejected
<1>3. CASE \E t \in Ticks : SourceRun(t)
  BY <1>3, HandlerAside, Zenon DEF SourceRun, SyncStep
<1>4. CASE (\E i \in Ids : BecomeDue(i) /\ UNCHANGED sources) \/ (\E p \in Procs : ProcessDies(p))
           \/ RemoteChanges \/ RowDeleted
  BY <1>4, WorldAside
<1> QED BY <1>1, <1>2, <1>3, <1>4, EnqueuerAside, Zenon DEF NextSources

LEMMA AsideIInv ==
  ASSUME IInv, SourcesTypeOK', Aside
  PROVE  IInv'
<1> USE DEF IInv
<1>1. \A t \in Ticks : work'[t].pc \in {"match", "write"} => work'[t] = work[t]
  BY DEF Aside
<1>2. Syncing' \subseteq Syncing /\ \A record : Creators(record)' \subseteq Creators(record)
  BY <1>1 DEF Syncing, Creators
<1>3. table' = table /\ peak' = peak /\ bound' = bound /\ remote' >= remote
  BY DEF Aside
<1>4. Aimed'
  BY <1>1, <1>3 DEF Aimed
<1>5. Counted'
  <2>1. Cardinality(Syncing') <= peak
    <3>1. Cardinality(Syncing') <= Cardinality(Syncing) /\ Cardinality(Syncing') \in Nat
      BY <1>2, SyncingType, SmallerSet, Finite
    <3> QED BY <3>1, SyncingType DEF Counted, SourcesTypeOK
  <2>2. ASSUME NEW record \in Records
        PROVE  Cardinality(Copies(record)') + Cardinality(Creators(record)') <= peak
    <3>1. Cardinality(Creators(record)') <= Cardinality(Creators(record))
      BY <1>2, CreatorsType, SyncingType, SmallerSet
    <3>2. Cardinality(Creators(record)) \in Nat /\ Cardinality(Creators(record)') \in Nat
      BY <1>2, CreatorsType, SyncingType, Finite
    <3>3. Copies(record)' = Copies(record)
      BY <1>3 DEF Copies
    <3> QED BY <3>1, <3>2, <3>3, CopiesType DEF Counted, SourcesTypeOK
  <2> QED BY <1>3, <2>1, <2>2 DEF Counted
<1>6. Fresh'
  <2>1. ASSUME NEW i \in DOMAIN table PROVE table[i].version <= remote /\ table[i].version \in Nat
    <3>1. table[i] \in Synced
      BY DEF SourcesTypeOK
    <3> QED BY <3>1 DEF Fresh, Synced
  <2>2. ASSUME NEW t \in Syncing' PROVE t \in Syncing /\ work'[t] = work[t] /\ work[t].copy \in Nat
    BY <1>1, <1>2 DEF Syncing, SourcesTypeOK, Run
  <2> QED BY <1>3, <2>1, <2>2 DEF Fresh, SourcesTypeOK
<1>7. Covered'
  BY <1>1, <1>2, <1>3 DEF Covered, Syncing, Landed, Copies
<1> QED BY <1>4, <1>5, <1>6, <1>7

-----------------------------------------------------------------------------
(* A sync fetches its collection                                           *)

LEMMA FetchIInv ==
  ASSUME IInv, NEW t \in Ticks, FetchCollection(t)
  PROVE  IInv'
<1> USE DEF IInv
<1> DEFINE r == [Idle EXCEPT !.pc = "match", !.todo = bound.feed, !.copy = remote]
<1>1. /\ r \in Run /\ r.pc = "match" /\ r.todo = bound.feed /\ r.copy = remote
      /\ work' = [work EXCEPT ![t] = r]
  BY FeedType DEF FetchCollection, Fetched, Idle, Run, NoMatch, SourcesTypeOK
<1>2. work' \in [Ticks -> Run] /\ work'[t] = r /\ \A u \in Ticks : u # t => work'[u] = work[u]
  BY <1>1, SetRun
<1>3. UNCHANGED <<bound, table, remote, row, sink, excused>> /\ work[t].pc = "idle"
  BY DEF FetchCollection
<1>4. /\ t \notin Syncing /\ Syncing' = Syncing \cup {t}
      /\ \A record : Creators(record)' = Creators(record)
  BY <1>1, <1>2, <1>3 DEF Syncing, Creators
<1>5. Cardinality(Syncing') = Cardinality(Syncing) + 1
  BY <1>4, SyncingType, Finite, FS_AddElement
<1>6. /\ peak' \in Nat /\ peak' >= peak /\ peak' >= Cardinality(Syncing) + 1
  BY SyncingType DEF FetchCollection, SourcesTypeOK
<1>7. SourcesTypeOK'
  BY <1>2, <1>3, <1>6 DEF SourcesTypeOK
<1>8. Aimed'
  BY <1>1, <1>2, <1>3 DEF Aimed
<1>9. Counted'
  <2>1. ASSUME NEW record \in Records
        PROVE  Cardinality(Copies(record)') + Cardinality(Creators(record)') <= peak'
    <3>1. Copies(record)' = Copies(record) /\ Creators(record)' = Creators(record)
      BY <1>3, <1>4 DEF Copies
    <3>2. Cardinality(Copies(record)) + Cardinality(Creators(record)) <= peak
      BY DEF Counted
    <3> QED BY <1>6, <3>1, <3>2, CreatorsType, CopiesType DEF SourcesTypeOK
  <2> QED BY <1>5, <1>6, <2>1, SyncingType DEF Counted
<1>10. Fresh'
  \* No other sync is in progress if none ever overlapped another.
  <2>1. peak' <= 1 => Syncing = {}
    BY <1>6, SyncingType, Finite, FS_EmptySet
  <2> QED BY <1>1, <1>2, <1>3, <1>4, <2>1 DEF Fresh, SourcesTypeOK, Syncing
<1>11. Covered'
  <2>1. ASSUME NEW u \in Syncing PROVE u # t /\ work'[u] = work[u]
    BY <1>2, <1>4, SyncingType
  <2>2. ASSUME NEW record, NEW version, Landed(record, version) PROVE Landed(record, version)'
    BY <1>3, <1>6, <2>2 DEF Landed, Copies, SourcesTypeOK
  <2> QED BY <1>1, <1>2, <1>3, <1>4, <2>1, <2>2 DEF Covered
<1> QED BY <1>7, <1>8, <1>9, <1>10, <1>11

-----------------------------------------------------------------------------
(* It looks for a record's row                                             *)

LEMMA MatchIInv ==
  ASSUME IInv, NEW t \in Ticks, Match(t)
  PROVE  IInv'
<1> USE DEF IInv
<1>1. PICK i \in Matching(Head(work[t].todo)) \cup {NoMatch} :
        /\ work' = [work EXCEPT ![t].match = i, ![t].pc = "write"]
        /\ i = NoMatch => Copies(Head(work[t].todo)) = {}
  <2> DEFINE found == Matching(Head(work[t].todo))
  <2>1. PICK i \in IF found = {} THEN {NoMatch} ELSE found :
          work' = [work EXCEPT ![t].match = i, ![t].pc = "write"]
    BY Zenon DEF Match
  <2>2. found = Copies(Head(work[t].todo)) /\ NoMatch \notin found
    BY DEF Matching, Copies, SourcesTypeOK, NoMatch
  <2> QED BY <2>1, <2>2
<1>2. /\ work[t].pc = "match" /\ work[t].todo # <<>>
      /\ UNCHANGED <<bound, table, remote, row, sink, peak, excused>>
  BY DEF Match
<1> DEFINE record == Head(work[t].todo)
<1>3. i \in Nat /\ (i # NoMatch => i \in DOMAIN table /\ table[i].record = record)
  BY <1>1 DEF Matching, SourcesTypeOK, NoMatch
<1>4. /\ work'[t] = [work[t] EXCEPT !.match = i, !.pc = "write"]
      /\ work' \in [Ticks -> Run]
      /\ \A u \in Ticks : u # t => work'[u] = work[u]
  BY <1>1, <1>3 DEF SourcesTypeOK, Run
<1>5. /\ work'[t].pc = "write" /\ work'[t].match = i /\ work'[t].todo = work[t].todo
      /\ work'[t].copy = work[t].copy /\ work'[t].failed = work[t].failed
  BY <1>4 DEF SourcesTypeOK, Run
<1>6. Syncing' = Syncing
  BY <1>2, <1>4, <1>5 DEF Syncing
<1>7. SourcesTypeOK'
  BY <1>2, <1>4 DEF SourcesTypeOK
<1>8. Aimed'
  BY <1>2, <1>3, <1>4, <1>5 DEF Aimed
<1>9. Counted'
  <2>1. ASSUME NEW r \in Records
        PROVE  Cardinality(Copies(r)') + Cardinality(Creators(r)') <= peak
    <3>1. Copies(r)' = Copies(r)
      BY <1>2 DEF Copies
    <3>2. CASE i = NoMatch /\ r = record
      <4>1. Copies(r) = {} /\ Cardinality(Copies(r)) = 0
        BY <1>1, <3>2, FS_EmptySet
      <4>2. Creators(r)' \subseteq Syncing
        BY <1>6 DEF Creators, Syncing
      <4>3. Cardinality(Creators(r)') \in Nat /\ Cardinality(Creators(r)') <= Cardinality(Syncing)
        BY <4>2, SyncingType, SmallerSet, Finite
      <4> QED BY <3>1, <4>1, <4>3, SyncingType DEF Counted, SourcesTypeOK
    <3>3. CASE ~(i = NoMatch /\ r = record)
      <4>1. Creators(r)' = Creators(r)
        BY <1>2, <1>4, <1>5, <3>3 DEF Creators
      <4> QED BY <3>1, <4>1 DEF Counted
    <3> QED BY <3>2, <3>3
  <2> QED BY <1>2, <1>6, <2>1 DEF Counted
<1>10. Fresh'
  BY <1>2, <1>4, <1>5, <1>6, SyncingType DEF Fresh
<1>11. Covered'
  <2>1. ASSUME NEW u \in Syncing
        PROVE  UNCHANGED <<work[u].failed, work[u].todo, work[u].copy>>
    BY <1>4, <1>5, SyncingType
  <2>2. \A x, v : Landed(x, v)' = Landed(x, v)
    BY <1>2 DEF Landed, Copies
  <2> QED BY <1>2, <1>6, <2>1, <2>2 DEF Covered
<1> QED BY <1>7, <1>8, <1>9, <1>10, <1>11

-----------------------------------------------------------------------------
(* It is done with a record, one way or the other                          *)

LEMMA TailSet ==
  ASSUME NEW S, NEW s \in Seq(S), s # <<>>
  PROVE  /\ Head(s) \in S /\ Tail(s) \in Seq(S)
         /\ \A x \in ToSet(s) : x = Head(s) \/ x \in ToSet(Tail(s))
<1>1. Head(s) \in S /\ Tail(s) \in Seq(S)
  OBVIOUS
<1>2. ASSUME NEW i \in DOMAIN s, i # 1 PROVE s[i] \in ToSet(Tail(s))
  <2>1. i - 1 \in DOMAIN Tail(s) /\ Tail(s)[i - 1] = s[i]
    BY <1>2
  <2> QED BY <2>1 DEF ToSet
<1> QED BY <1>1, <1>2 DEF ToSet

LEMMA NextRun ==
  ASSUME SourcesTypeOK, NEW t \in Ticks, work[t].todo # <<>>,
         NEW failed \in BOOLEAN, NextRecord(t, failed)
  PROVE  /\ work' \in [Ticks -> Run]
         /\ \A u \in Ticks : u # t => work'[u] = work[u]
         /\ work'[t].pc = "match" /\ work'[t].todo = Tail(work[t].todo)
         /\ work'[t].failed = failed /\ work'[t].copy = work[t].copy
<1> DEFINE r == [work[t] EXCEPT !.pc = "match", !.todo = Tail(@), !.failed = failed]
<1>1. work[t] \in Run /\ work[t].todo \in Seq(Records)
  BY DEF SourcesTypeOK, Run
<1>2. Tail(work[t].todo) \in Seq(Records)
  BY <1>1, TailSet
<1>3. r \in Run
  BY <1>1, <1>2 DEF Run
<1>4. work' = [work EXCEPT ![t] = r]
  BY DEF NextRecord, SourcesTypeOK
<1>5. r.pc = "match" /\ r.todo = Tail(work[t].todo) /\ r.failed = failed /\ r.copy = work[t].copy
  BY <1>1 DEF Run
<1> QED BY <1>3, <1>4, <1>5, SetRun

LEMMA RefuseIInv ==
  ASSUME IInv, NEW t \in Ticks, RefuseUpsert(t)
  PROVE  IInv'
<1> USE DEF IInv
<1>1. /\ work' \in [Ticks -> Run]
      /\ \A u \in Ticks : u # t => work'[u] = work[u]
      /\ work'[t].pc = "match" /\ work'[t].failed = TRUE /\ work'[t].copy = work[t].copy
  BY NextRun DEF RefuseUpsert
<1>2. t \in Syncing /\ UNCHANGED <<bound, table, remote, row, sink, peak, excused>>
  BY DEF RefuseUpsert, Syncing
<1>3. Syncing' = Syncing /\ \A record : Creators(record)' \subseteq Creators(record)
  BY <1>1, <1>2 DEF Syncing, Creators
<1>4. SourcesTypeOK'
  BY <1>1, <1>2 DEF SourcesTypeOK
<1>5. Aimed'
  BY <1>1, <1>2 DEF Aimed
<1>6. Counted'
  <2>1. ASSUME NEW record \in Records
        PROVE  Cardinality(Copies(record)') + Cardinality(Creators(record)') <= peak
    <3>1. Cardinality(Creators(record)') <= Cardinality(Creators(record))
      BY <1>3, CreatorsType, SyncingType, SmallerSet
    <3>2. Cardinality(Creators(record)) \in Nat /\ Cardinality(Creators(record)') \in Nat
      BY <1>3, CreatorsType, SyncingType, Finite
    <3>3. Copies(record)' = Copies(record)
      BY <1>2 DEF Copies
    <3> QED BY <3>1, <3>2, <3>3, CopiesType DEF Counted, SourcesTypeOK
  <2> QED BY <1>2, <1>3, <2>1 DEF Counted
<1>7. Fresh'
  BY <1>1, <1>2, <1>3, SyncingType DEF Fresh
<1>8. Covered'
  <2>1. \A x, v : Landed(x, v)' = Landed(x, v)
    BY <1>2 DEF Landed, Copies
  <2> QED BY <1>1, <1>2, <1>3, <2>1, SyncingType DEF Covered
<1> QED BY <1>4, <1>5, <1>6, <1>7, <1>8

-----------------------------------------------------------------------------
(* An upsert                                                               *)

\* What it does to the table: row n is written, the others are as they were.
Wrote(t, n) ==
  /\ n \in DOMAIN table'
  /\ table'[n] = [record |-> Head(work[t].todo), version |-> work[t].copy]
  /\ \A i \in DOMAIN table : i \in DOMAIN table' /\ (i # n => table'[i] = table[i])
  /\ DOMAIN table' = DOMAIN table \cup {n}
  /\ IF work[t].match = NoMatch THEN n \notin DOMAIN table
     ELSE n \in DOMAIN table /\ table[n].record = Head(work[t].todo)

LEMMA UpsertWrites ==
  ASSUME SourcesTypeOK, Aimed, NEW t \in Ticks, Upsert(t)
  PROVE  /\ work[t].todo # <<>> /\ work[t].pc = "write"
         /\ Head(work[t].todo) \in Records /\ work[t].copy \in Nat
         /\ table' \in Seq(Synced)
         /\ \E n : Wrote(t, n)
<1> DEFINE new == [record |-> Head(work[t].todo), version |-> work[t].copy]
<1>1. work[t].pc = "write" /\ work[t].todo # <<>>
  BY DEF Upsert, Aimed
<1>2. work[t].todo \in Seq(Records) /\ work[t].copy \in Nat
  BY DEF SourcesTypeOK, Run
<1>3. new \in Synced /\ Head(work[t].todo) \in Records
  BY <1>1, <1>2, TailSet DEF Synced
<1>4. CASE work[t].match = NoMatch
  <2>1. table' = Append(table, new)
    BY <1>4 DEF Upsert
  <2>2. /\ table' \in Seq(Synced) /\ table'[Len(table) + 1] = new /\ Len(table) \in Nat
        /\ DOMAIN table = 1..Len(table) /\ DOMAIN table' = 1..(Len(table) + 1)
        /\ \A i \in DOMAIN table : table'[i] = table[i]
    BY <1>3, <2>1 DEF SourcesTypeOK
  <2>3. Wrote(t, Len(table) + 1)
    BY <1>4, <2>2 DEF Wrote
  <2> QED BY <1>1, <1>2, <1>3, <2>2, <2>3
<1>5. CASE work[t].match # NoMatch
  <2>1. table' = [table EXCEPT ![work[t].match] = new]
    BY <1>5 DEF Upsert
  <2>2. work[t].match \in DOMAIN table /\ table[work[t].match].record = Head(work[t].todo)
    BY <1>1, <1>5 DEF Aimed
  <2>3. table' \in Seq(Synced) /\ DOMAIN table' = DOMAIN table
    BY <1>3, <2>1, <2>2 DEF SourcesTypeOK
  <2>4. Wrote(t, work[t].match)
    BY <1>5, <2>1, <2>2, <2>3 DEF Wrote, SourcesTypeOK
  <2> QED BY <1>1, <1>2, <1>3, <2>3, <2>4
<1> QED BY <1>4, <1>5

\* Until two syncs overlap there is one at most.
LEMMA OnlyOne ==
  ASSUME IInv, peak <= 1, NEW t \in Syncing, NEW u \in Syncing
  PROVE  t = u
<1>1. IsFiniteSet(Syncing) /\ Cardinality(Syncing) \in Nat /\ Cardinality(Syncing) <= 1
  BY SyncingType, Finite DEF IInv, Counted, SourcesTypeOK
<1>2. Cardinality(Syncing) # 0
  BY <1>1, FS_EmptySet
<1>3. Cardinality(Syncing) = 1
  BY <1>1, <1>2
<1> QED BY <1>1, <1>3, FS_Singleton

LEMMA UpsertIInv ==
  ASSUME IInv, NEW t \in Ticks, Upsert(t)
  PROVE  IInv'
<1> USE DEF IInv
<1>0. PICK h \in Records, c \in Nat : h = Head(work[t].todo) /\ c = work[t].copy
  BY UpsertWrites
<1>1. /\ work[t].todo # <<>> /\ work[t].pc = "write" /\ table' \in Seq(Synced)
      /\ h = Head(work[t].todo) /\ c = work[t].copy
  BY <1>0, UpsertWrites
<1>2. PICK n : Wrote(t, n)
  BY UpsertWrites
<1>3. UNCHANGED <<bound, remote, row, sink, peak, excused>> /\ NextRecord(t, work[t].failed)
  BY DEF Upsert
<1>4. /\ work' \in [Ticks -> Run]
      /\ \A u \in Ticks : u # t => work'[u] = work[u]
      /\ work'[t].pc = "match" /\ work'[t].todo = Tail(work[t].todo)
      /\ work'[t].failed = work[t].failed /\ work'[t].copy = work[t].copy
  <2>1. work[t].failed \in BOOLEAN
    BY DEF SourcesTypeOK, Run
  <2> QED BY <1>1, <1>3, <2>1, NextRun
<1>5. t \in Syncing /\ Syncing' = Syncing
  BY <1>1, <1>4 DEF Syncing
<1>6. SourcesTypeOK'
  BY <1>1, <1>3, <1>4 DEF SourcesTypeOK
<1>7. \A i \in DOMAIN table : i \in DOMAIN table' /\ table'[i].record = table[i].record
  BY <1>2, <1>1 DEF Wrote, Aimed
<1>8. Aimed'
  BY <1>4, <1>7 DEF Aimed
<1>9. Counted'
  <2>1. ASSUME NEW record \in Records, record # h
        PROVE  Copies(record)' = Copies(record) /\ Creators(record)' = Creators(record)
    BY <1>1, <1>2, <1>4, <1>7, <2>1 DEF Copies, Creators, Wrote
  <2>2. Copies(h)' = Copies(h) \cup {n}
    BY <1>1, <1>2, <1>7 DEF Copies, Wrote
  <2>3. Cardinality(Copies(h)') + Cardinality(Creators(h)')
          = Cardinality(Copies(h)) + Cardinality(Creators(h))
    <3>1. CASE work[t].match = NoMatch
      <4>1. n \notin Copies(h) /\ t \in Creators(h) /\ Creators(h)' = Creators(h) \ {t}
        BY <1>1, <1>2, <1>4, <3>1 DEF Copies, Creators, Wrote
      <4>2. Cardinality(Copies(h)') = Cardinality(Copies(h)) + 1
        BY <2>2, <4>1, CopiesType, FS_AddElement
      <4>3. Cardinality(Creators(h)') = Cardinality(Creators(h)) - 1
        BY <4>1, CreatorsType, SyncingType, Finite, FS_RemoveElement
      <4> QED BY <4>2, <4>3, CopiesType, CreatorsType
    <3>2. CASE work[t].match # NoMatch
      <4>1. n \in Copies(h) /\ Creators(h)' = Creators(h)
        BY <1>1, <1>2, <1>4, <3>2 DEF Copies, Creators, Wrote
      <4>2. Copies(h)' = Copies(h)
        BY <2>2, <4>1
      <4> QED BY <4>1, <4>2
    <3> QED BY <3>1, <3>2
  <2>4. ASSUME NEW record \in Records
        PROVE  Cardinality(Copies(record)') + Cardinality(Creators(record)') <= peak
    <3>1. CASE record = h
      BY <1>1, <2>3, <3>1 DEF Counted
    <3>2. CASE record # h
      BY <2>1, <3>2 DEF Counted
    <3> QED BY <3>1, <3>2
  <2> QED BY <1>3, <1>5, <2>4 DEF Counted
<1>10. \A u \in Ticks : work'[u].copy = work[u].copy
  BY <1>4
<1>11. Fresh'
  <2>1. ASSUME NEW i \in DOMAIN table'
        PROVE  table'[i].version <= remote
    BY <1>2, <1>5 DEF Fresh, Wrote
  <2>2. ASSUME peak <= 1, NEW u \in Syncing, NEW i \in DOMAIN table'
        PROVE  table'[i].version <= work[u].copy
    BY <1>1, <1>2, <1>5, <2>2, OnlyOne DEF Fresh, Wrote
  <2> QED BY <1>3, <1>5, <1>10, <2>1, <2>2, SyncingType DEF Fresh
<1>12. Covered'
  <2>1. ASSUME NEW record, NEW v \in Nat, Landed(record, v) PROVE Landed(record, v)'
    <3>1. PICK i \in Copies(record) : table[i].version >= v \/ peak > 1
      BY <2>1 DEF Landed
    <3>2. i \in DOMAIN table /\ i \in Copies(record)'
      BY <1>7, <3>1 DEF Copies
    <3>3. CASE peak > 1
      BY <1>3, <3>2, <3>3 DEF Landed
    <3>4. CASE ~(peak > 1)
      <4>1. peak <= 1 /\ table[i] \in Synced
        BY <3>2, <3>4 DEF SourcesTypeOK
      <4>2. table[i].version <= work[t].copy
        BY <1>5, <3>2, <4>1 DEF Fresh
      <4>3. table'[i] = table[i] \/ table'[i].version = work[t].copy
        BY <1>2, <3>2 DEF Wrote
      <4>4. table'[i].version >= v
        BY <1>1, <3>1, <3>4, <4>1, <4>2, <4>3 DEF Synced
      <4> QED BY <3>2, <4>4 DEF Landed
    <3> QED BY <3>3, <3>4
  <2>2. Landed(h, c)'
    <3>1. n \in Copies(h)' /\ table'[n].version = c
      BY <1>1, <1>2 DEF Wrote, Copies
    <3> QED BY <1>1, <3>1 DEF Landed
  <2>3. \A record \in ToSet(work[t].todo) : record = h \/ record \in ToSet(Tail(work[t].todo))
    BY <1>1, TailSet DEF SourcesTypeOK, Run
  <2>4. ASSUME NEW u \in Syncing, ~work'[u].failed, NEW record \in ToSet(bound.feed)
        PROVE  record \in ToSet(work'[u].todo) \/ Landed(record, work[u].copy)'
    <3>1. u \in Ticks /\ work'[u].failed = work[u].failed
      BY <1>4, SyncingType
    <3>2. PICK v \in Nat : v = work[u].copy /\ v = work'[u].copy
      BY <1>10, <3>1 DEF SourcesTypeOK, Run
    <3>3. record \in ToSet(work[u].todo) \/ Landed(record, v)
      BY <2>4, <3>1, <3>2 DEF Covered
    <3>4. record \in ToSet(work[u].todo) =>
            record \in ToSet(work'[u].todo) \/ Landed(record, v)'
      <4>1. CASE u = t
        BY <1>1, <1>4, <2>2, <2>3, <3>2, <4>1
      <4>2. CASE u # t
        BY <1>4, <3>1, <4>2
      <4> QED BY <4>1, <4>2
    <3>5. record \in ToSet(work'[u].todo) \/ Landed(record, v)'
      BY <2>1, <3>3, <3>4
    <3> QED BY <3>2, <3>5
  <2> QED BY <1>3, <1>5, <1>10, <2>4, SyncingType DEF Covered
<1> QED BY <1>6, <1>8, <1>9, <1>11, <1>12

-----------------------------------------------------------------------------
(* The invariant, and what follows from it                                 *)

LEMMA Invariant == SourcesSpec => []IInv
<1>1. IInv /\ [NextSources]_all => IInv'
  <2> SUFFICES ASSUME IInv, [NextSources]_all PROVE IInv'
    OBVIOUS
  <2>1. SourcesTypeOK
    BY DEF IInv
  <2>2. CASE SourcesTypeOK' /\ Aside
    BY <2>2, AsideIInv
  <2>3. ASSUME NEW t \in Ticks, SyncStep(t) PROVE IInv'
    BY <2>3, FetchIInv, MatchIInv, UpsertIInv, RefuseIInv DEF SyncStep
  <2> QED BY <2>1, <2>2, <2>3, StepKinds
<1>2. QED BY <1>1, InitIInv, PTL DEF SourcesSpec

\* Every variable beside the queue's has its type in every reachable state.
THEOREM SourcesTypeCorrect == SourcesSpec => []SourcesTypeOK
<1>1. IInv => SourcesTypeOK
  BY DEF IInv
<1>2. QED BY <1>1, Invariant, PTL

\* A remote record never has more rows than syncs ran at one time: one, as long as
\* they do not overlap, whatever is retried, refused, cut short or run again
\* (sources.server.ts, applyWritesWith).
THEOREM CopiesAreBounded == SourcesSpec => []CopiesBounded
<1>1. IInv => CopiesBounded
  <2> SUFFICES ASSUME IInv, NEW i \in DOMAIN table
               PROVE  Cardinality(Copies(table[i].record)) <= peak
    BY DEF CopiesBounded
  <2>0. table[i] \in Synced
    BY DEF IInv, SourcesTypeOK
  <2>1. SourcesTypeOK /\ table[i].record \in Records
    BY <2>0 DEF IInv, Synced
  <2>2. PICK record \in Records : record = table[i].record
    BY <2>1
  <2>3. Cardinality(Copies(record)) + Cardinality(Creators(record)) <= peak
    BY DEF IInv, Counted
  <2>4. Cardinality(Copies(record)) \in Nat /\ Cardinality(Creators(record)) \in Nat
    BY <2>1, CopiesType, CreatorsType
  <2> QED BY <2>1, <2>2, <2>3, <2>4 DEF SourcesTypeOK
<1>2. QED BY <1>1, Invariant, PTL

\* A row goes back to an older version of its record only if syncs overlapped.
THEOREM RowsGoForward == SourcesSpec => NeverBackwards
<1>1. IInv /\ [NextSources]_all =>
        [\A i \in DOMAIN table : table'[i].version < table[i].version => peak > 1]_all
  <2> SUFFICES ASSUME IInv, [NextSources]_all, NEW i \in DOMAIN table,
                      table'[i].version < table[i].version, ~(peak > 1)
               PROVE  FALSE
    OBVIOUS
  <2>0. SourcesTypeOK /\ peak <= 1 /\ table[i] \in Synced
    BY DEF IInv, SourcesTypeOK
  <2>1. SourcesTypeOK /\ peak <= 1 /\ table[i].version \in Nat
    BY <2>0 DEF Synced
  <2>2. table' # table
    BY <2>1
  <2>3. PICK t \in Ticks : Upsert(t)
    BY <2>1, <2>2, StepKinds DEF Aside, SyncStep, FetchCollection, Match, RefuseUpsert
  <2>4. PICK n : Wrote(t, n)
    BY <2>3, UpsertWrites DEF IInv
  <2>5. t \in Syncing
    BY <2>3 DEF Upsert, Syncing
  <2>6. table[i].version <= work[t].copy /\ work[t].copy \in Nat
    BY <2>1, <2>3, <2>5, UpsertWrites DEF IInv, Fresh
  <2> QED BY <2>1, <2>4, <2>6 DEF Wrote
<1>2. QED BY <1>1, Invariant, PTL DEF SourcesSpec, NeverBackwards

\* Only the end of a sync makes its job a success.
LEMMA OnlyConclude ==
  ASSUME TypeOK, [NextSources]_all, NEW t \in Ticks, Runs(t, SyncRun), work[t].pc = "match",
         tick'[t].pc = "recording", tick'[t].outcome = "ok"
  PROVE  Conclude(t)
<1>1. tick[t].pc = "running" /\ tick' # tick
  BY DEF Runs
<1>2. ASSUME NEW e \in Enqueuers,
             \/ EnqueueSync(e) \/ Write(e) \/ EnqueueEnrichment(e)
             \/ EnqueueSwallowed(e) \/ InsertStep(e)
      PROVE  FALSE
  BY <1>1, <1>2 DEF EnqueueSync, Write, EnqueueEnrichment, EnqueueSwallowed, InsertStep,
                    EnqueueCheck, EnqueueInsert, EnqueueReread, vars
<1>3. ASSUME NEW u \in Ticks, u # t, RunHandler(u) \/ TickStep(u) \/ RecordRejected(u)
      PROVE  FALSE
  <2>1. tick \in [Ticks -> Call]
    BY DEF TypeOK
  <2>2. CASE RunHandler(u) \/ RecordRejected(u)
    BY <1>1, <1>3, <2>1, <2>2 DEF RunHandler, RecordRejected
  <2>3. CASE ClaimMemory(u) \/ ClaimSelect(u) \/ ClaimUpdate(u)
    BY <1>1, <1>3, <2>1, <2>3 DEF ClaimMemory, ClaimSelect, ClaimUpdate
  <2>4. CASE RecordSuccess(u) \/ RecordRetry(u) \/ RecordFailure(u) \/ RecordNoHandler(u)
    BY <1>1, <1>3, <2>1, <2>4 DEF RecordSuccess, RecordRetry, RecordFailure, RecordNoHandler, Settle
  <2> QED BY <1>3, <2>2, <2>3, <2>4 DEF TickStep, ClaimNext
<1>4. ASSUME NEW u \in Ticks, ClaimOrRecord(u) \/ WriteRejected(u) PROVE FALSE
  BY <1>1, <1>3, <1>4 DEF ClaimOrRecord, WriteRejected, RecordRejected
<1>5. ASSUME NEW u \in Ticks, SourceRun(u) PROVE Conclude(t)
  <2>1. CASE u # t
    BY <1>1, <1>3, <1>5, <2>1 DEF SourceRun, ComesToNothing, FetchCollection, Match, Upsert,
         RefuseUpsert, Conclude, ReadRow, EnrichRow, Return, vars
  <2>2. CASE ComesToNothing(t)
    BY <2>2 DEF ComesToNothing, Return
  <2>3. CASE FetchCollection(t) \/ Match(t) \/ Upsert(t) \/ RefuseUpsert(t) \/ ReadRow(t)
    BY <1>1, <2>3 DEF FetchCollection, Match, Upsert, RefuseUpsert, ReadRow, vars
  <2>4. CASE EnrichRow(t)
    BY <2>4 DEF EnrichRow
  <2> QED BY <1>5, <2>1, <2>2, <2>3, <2>4 DEF SourceRun
<1>6. CASE (\E i \in Ids : BecomeDue(i)) \/ RemoteChanges \/ RowDeleted \/ UNCHANGED all
  BY <1>1, <1>6 DEF BecomeDue, RemoteChanges, RowDeleted, all, vars
<1>7. ASSUME NEW p \in Procs, ProcessDies(p) PROVE FALSE
  BY <1>1, <1>7 DEF ProcessDies, Crash, NoCall
<1> QED BY <1>2, <1>4, <1>5, <1>6, <1>7 DEF NextSources

\* A sync that ends as a success has landed every record of the collection it fetched,
\* whatever it was refused in earlier attempts (sources.server.ts, the throw after the
\* loop of applyWritesWith).
THEOREM SuccessLandsAll == SourcesSpec => SuccessMeansLanded
<1>1. IInv /\ TypeOK /\ [NextSources]_all =>
        [\A t \in Ticks :
           /\ Runs(t, SyncRun) /\ work[t].pc = "match"
           /\ tick'[t].pc = "recording" /\ tick'[t].outcome = "ok"
           => \A record \in ToSet(bound.feed) : \E i \in Copies(record) :
                table[i].version >= work[t].copy \/ peak > 1]_all
  <2> SUFFICES ASSUME IInv, TypeOK, [NextSources]_all, NEW t \in Ticks,
                      Runs(t, SyncRun), work[t].pc = "match",
                      tick'[t].pc = "recording", tick'[t].outcome = "ok",
                      NEW record \in ToSet(bound.feed)
               PROVE  Landed(record, work[t].copy)
    BY DEF Landed
  <2>1. Conclude(t)
    BY OnlyConclude
  <2>2. work[t].todo = <<>> /\ tick'[t].outcome = Verdict(work[t].failed)
    BY <2>1 DEF Conclude, Return
  <2>3. ~work[t].failed /\ t \in Syncing
    BY <2>2 DEF Verdict, Syncing
  <2>4. record \notin ToSet(work[t].todo)
    BY <2>2 DEF ToSet
  <2> QED BY <2>3, <2>4 DEF IInv, Covered
<1>2. QED BY <1>1, Invariant, QueueTypes, PTL DEF SourcesSpec, SuccessMeansLanded
=============================================================================
