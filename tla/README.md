# maxstack in TLA+

A specification-and-proof companion to maxstack: a framework that keeps the
description of a business application (the *spec*) as an append-only log of typed
operations, generates code from it that its users may take over file by file, and
runs the result on a runtime with background jobs, schedules, webhooks,
notifications and live pages.

The modules here are translated from the TypeScript under `src/`; each definition
is tied to the lines it stands for in `PROJECT.json` ("map"). TLC checks small
instances, TLAPS proves the central invariants for every value of the constants.

    tlc -config JobQueue_stores.cfg MCJobQueue     # one run; see the table of runs
    tlapm QueueProofs.tla                          # the proofs of one module

Contents: [1 The system](#1-the-system) ·
[2 The modules](#2-the-modules-and-the-code) · [3 The runs](#3-the-runs) ·
[4 The proofs](#4-the-proofs) · [5 Divergences](#5-where-code-and-documents-disagree) ·
[6 Not modelled](#6-what-is-not-modelled) · [7 Plan](#7-plan)

## 1 The system

### Parts and how they interact

    spec (op log, row files) --gen--> route modules + ownership manifest
       ^        ^                         ^        ^
       |        |                         |        |
     review   landing                   eject   maintainer's editor
    (workbench, CLI, MCP)

    schedules --tick--> job queue --tick--> handlers: digests, webhooks,
       (spec)            (job table)                  sources, purges
                              ^
                    CRUD operations and their hooks --> audit, live pages

* **Spec and spec store** (`packages/spec/src/base`, `packages/mcp/src/spec-store.ts`).
  State: a document of rows (entities, fields, pages, blocks, ...), each with a
  provenance flag, and the op log. Every change is `applyOp(doc, op)`, which moves the
  rows and appends the entry in one value. The store writes a directory of files, one
  after the other, and assumes one writer.
* **Review** (`bulk-review.ts`, the workbench, `maxstack review`). Proposals are
  accepted, rejected, reset; in bulk, one at a time, with a subtree. A batch may be
  undone until a generation has consumed it. It reads the generation watermark of the
  ownership manifest.
* **Ownership and generation** (`packages/maxstack-core/src/ownership`,
  `apps/maxstack/src/lib/generate.ts`). State: the generated files, `routes.ts`, and a
  manifest with an owner and a hash for each file and the watermark. `gen` prunes what
  the spec no longer declares, writes what it does, and stamps the watermark; `eject`
  and `add view` hand a file to the maintainer. Every command loads the whole manifest
  and saves it back; the watcher of `maxstack dev` runs `gen` on its own.
* **Background jobs** (`packages/features/src/jobs/service.ts`). State: the job table.
  `enqueue` is called by anybody, `tick` by a timer that does not wait for it, `retry`
  by an operator. Two stores: in memory and drizzle (SQL).
* **Scheduler** (`jobs/scheduler.ts`). State: none that is durable; a watermark per
  schedule and process. Turns the occurrences of a schedule into keyed jobs. It is a
  client of the job queue and reads back from its table where it stopped.
* **Landing of issues** (workbench): turns an issue into spec ops and records it.
* **Webhooks** (`features/src/webhooks`): outbound deliveries as jobs, a record each;
  inbound requests with signature and replay nonce.
* **Notifications and preferences**: immediate mail and digests, each claimed by a
  dedupe key, sent, marked; preferences behind a cache.
* **Members**: owners, roles, invitations. **API keys**. **Billing** (quota and
  entitlements). **Compliance** (erasure, retention, purge jobs). **Storage** (objects,
  derivatives, orphans). **Audit log**, **feature flags**, **email**, **auth**,
  **metrics**, **search**, **documents**, **portals**.
* **CRUD operations** (`sprout/operations.ts`): validation, limits, list actions,
  imports, hooks; the clients of audit, live pages and jobs.
* **Coordination and live pages** (`sprout/coordination.ts`, `sprout/live.ts`): a token
  bucket and announcements shared by instances through the database; rows pushed to
  subscribed browsers.
* **UI data layer and record locks** (`packages/ui/src`): optimistic mutations with
  rollback, advisory locks broadcast between browsers.
* **External sources** (`features/src/sources`, `apps/web/app/sources.server.ts`). A *sync* pulls a remote
  collection into a table, an *enrichment* asks a third party about a row somebody wrote. State: the job table and the
  tables written to. The runs are jobs; schedules and operators enqueue syncs, the audit sink of a
  committed write enqueues enrichments; writes go through the CRUD operations.
* **Spec derivation**, **bundles and codemods**, **MCP tools**,
  **slots and seam registries**, **command line**, **web application**.

PROJECT.json lists all of them with the reason for leaving out those that are.

### What is hard here, and what correctness means

There are no threads; there is `await` everywhere. Two calls of one process interleave
at each await, processes share only the database or the file system, and no transaction
spans two statements. So the recurring hazards are *check, await, write* (claims,
quotas, last-owner checks, land), *load whole, change, save whole* (manifest, spec
directory), *do, then record* (mail, webhooks, jobs), and timers that do not wait for
the call they started. Per component:

| component | what makes it correct |
|---|---|
| job queue | one row per idempotency key and all callers agree on it; one runner per claimed row; the budget of runs holds; finished rows stay finished; every row is settled in the end |
| scheduler | no occurrence is lost, enqueued twice or backfilled, but what the catch-up bound drops |
| ownership | owned bytes survive; ownership is never taken back; edited files are never deleted; the tree is what the spec asks for; the watermark covers what was generated |
| review | the op log explains every row; high-risk rows are decided alone; batches decide only proposals; an undo precedes the generation and takes back just its batch |
| landing | an issue lands once |
| webhooks | a delivery is recorded once and retried only when it failed; a refused sender may retry |
| notifications | one mail per event and window, though a sender dies; an unsubscribe is honoured |
| members | there is always an owner; a user has one row; an invitation admits one user |
| coordination, live | the shared rate is bounded; the last value sent to a page is the last written |
| sources | a record has one row, however often its sync is run; a success has landed everything; a written row is in the end enriched |
| UI data layer | the cache ends equal to the server; one holder of a lock |
| billing, CRUD limits | quotas and value limits hold under concurrent requests |
| compliance | erased means nothing of the subject is left |

The hazards at their lines, with the properties that cover them, are in PROJECT.json
"hazards"; section 6 has the rest.

## 2 The modules and the code

### JobQueue (`jobs/service.ts`, `drizzle-store.ts`, `schema.ts`)

State: `jobs` is the job table, a row per id in creation order; `req`, `tick`, `op` are the
calls of `enqueue`, `tick` and `retry` in progress, each with what it has read;
`runs`, `grants` and `clobbered` are history variables; `faults` counts crashes and rejected writes.

An action is the code between two awaits; `ClaimNext` is the claim of the store the queue has: the run of JobQueue takes either
(MCJobQueue instantiates the module once more for the drizzle store), that of Sources the drizzle store's. The memory store loses no write and ends with its process, so
that its instance has no faults.

| code | actions |
|---|---|
| `enqueue` | `EnqueueCheck` (pre-check by key), `EnqueueInsert` (the unique index decides), `EnqueueReread` (the loser reads the winner's row) |
| `claimNext`, memory | `ClaimMemory`: select and flip in one step (`AtomicClaim = TRUE`) |
| `claimNext`, drizzle | `ClaimSelect`, `ClaimUpdate`: two statements, the second unconditional |
| `tick` | `RunHandler` (resolves, throws, or throws a permanent error), then `RecordSuccess`, `RecordRetry`, `RecordFailure` or `RecordNoHandler`; `RecordRejected` when the store refuses the write (the success write is inside the `try`, so its refusal is a failed attempt) |
| `retry` | `RetryRead` (any row among the newest `ListLimit`, whatever its status), `RetryWrite` (by id, unconditional) |
| backoff | `BecomeDue` |
| a process dies | `Crash(p)`: its calls are gone, the table is not |

The page has a button for a dead letter, but its action, and `retry` behind it, take any id: a second click
and a stale page reopen a row that is pending, running or succeeded. Two writes therefore overwrite what they have not
seen, the drizzle store's `ClaimUpdate` and `RetryWrite`. `clobbered` holds the rows such a write found other than as its caller read them
(`AsSelected`; `AsRead`: no tick has the row, and none has had it since); the properties of a row's life speak of the other rows, and the second click on
a row that waits, has failed or has succeeded is among what they allow.

Abstracted: payloads, results, error texts and the backoff's length (a row is due or
not). *JobLifecycle* is the abstract specification: what the header of `schema.ts` says
of one row (pending → running → succeeded / failed, back to pending with budget left), with an operator's grant, which
reopens a row nobody runs, and `Clobber`, after which nothing is promised of that row but that no other is touched. `JobQueue!ImplementsLifecycle` instantiates it with
`status`, `attempts` and `maxAttempts` of each row.

### Scheduler (`jobs/scheduler.ts`, `spec/src/base/schedules.ts`)

Time is `0..MaxTime`; a schedule's calendar is a constant set of instants. A `tick` reads
the active schedules (`ReadSchedules`), and for each asks the table for its newest row
(`AskTable`), computes the window (`Plan`: `Since`, `Due`, `Recent`), enqueues oldest first
(`EnqueueNext`, one step: the key is `OneRowPerKey` of JobQueue) and moves the watermark
(`Finish`). `EnqueueRejected`, `Crash`, `Pause` and `Clock` happen at any time between.
`watched`, `horizon`, `dropped` and `overlapped` (two ticks of one process were in progress at one
time) are history. Two facts worth knowing: what the catch-up
bound drops appears only in what `tick()` returns, which `start()` discards; and
resuming a paused schedule enqueues up to `catchUpLimit` occurrences of the pause.

### Ownership (`ownership/*.ts`, `lib/generate.ts`, `eject.ts`, `view.ts`)

State: `spec` and `ops` (what each page's last op was, and the log's length), `disk` (who
wrote each file, from which version), `routes`, `man` (the manifest on disk), and per command
in progress `cmd`: its program counter, the manifest *it* loaded, the spec it loaded and its
worklist. One call of a writer is one step, since none of them awaits anything but the file
system between its check and its write; between two of them other commands, ops and
edits happen. `gen` is `GenBegin`, `PruneLoad`, `Retire`*, `PruneRoutes`, `PruneSave`, then for each page
`PageLoad`, `WriteGenerated`, `Wire`, `PageSave`, then `StampLoad`, `StampSave`; eject and add view are
load, write, save. A file's hash is identified with the content it was taken from. Left out:
slot files, the four seam registries, a page that changes its path, `--force`.

### SpecReview (`bulk-review.ts`, `spec-ops.ts`, `provenance.ts`, `spec-store.ts`, workbench, CLI)

State: the row files and the op log on disk, `built` (the watermark), and per request the copy
it loaded, with its decision applied, and the next file of its save. `Load`, one of
`BulkReview`, `WebReview`, `OpReview`, `BulkUndo` (each plans and applies to the copy), then
`SaveFile` file by file in the order of `SPEC_DIR_FILES`, with the op log among them: the files of flags, schedules, sources, portals and live
topics are written after it; an op moves one row, and what a list of them does to a row is a recursive function of
the list's length (`After`); `Refuse`; `Crash` inside a save;
`Generate` stamps `Len(log)`. `torn` remembers the rows a dying save parted from the log: written without
their entries, or, in the files after the log, not written although their entries are. Left
out: the wording and grouping of the queue, the risk rules (a constant set of high-risk rows),
rows that appear or go, the first save and the migration of an old project; a load is one
step.

### Operations (`sprout/operations.ts`)

One resource with an upsert key and one capped column, hard or soft deletes. A request
(`req`) is a sequence of single-row writes: `Single`, `RunAction`, `UndoAction` and
`Import` build it from the table as it is then (an import plans every line at once,
`Planned`). An id named again in a selection (`FirstNamed`) and a line whose key is ambiguous keep their place as
a `Skip`, which is passed without a step on the table. Each write goes through `Peek` (in an action run only: the before-image), `Get` (the row
it is about), `Count` (rows that hold the value moved to, for creates and for updates that move into a capped value) and `Store`,
an await apart; a restore counts nothing. `Refuse` stands for authorization, tenancy and validation, and for a write that throws; `Die`
for the process. `applied` is what the request wrote, with the before-images; `run`, `image` and `foreign` are what an undo is judged by.

### Coordination (`sprout/coordination.ts`)

The token bucket of both coordinators: `kind` says whether an instance uses its own map or the
shared table. A call is `Check` (its instance stamps it), `Take` (the statement that refills, spends and
stamps the bucket), now and then `Sweep`. The level is in units of time: a bucket refills one
per unit whatever its budget, and a token costs `Window \div max`, so editing the budget
needs no conversion. `Skew` is how far clocks disagree. `given`, `seen` and `setBack` are history.

### Preferences and Notifications (`preferences/service.ts`, `notifications/service.ts`)

*Preferences* is a table all servers share and a cache per server: `Upsert` writes one key,
`ClearCache` or `WriteFails` ends the write, `Hit`, `Fill` and `Expires` are the read path. Notifications
EXTENDS it (its caller is a job, or a form that calls once): a worker asks for the preferences (`Query`, `Answered`; an await between), claims a row
(`Claim`) or a digest window (`Gather`, `ClaimWindow`), mails (`Send`), marks rows one by one
(`Mark`) and closes (`Close`). `owed` holds the jobs whose caller
has no answer, `Throw` and `Die` leave them there, two workers may run one job. `LetGo` ends a call for good without its mail, and `unsent` says
why: the call came without an address (its claim is made all the same), or the queue gave the job up or a form's one call failed. `mails`, `rivals` and `cut` count
mails, overlapping runs and cut runs.

### Webhooks (`webhooks/service.ts`, `signing.ts`, `inbound.ts`)

Both ends of one event. `Emit` starts a delivery for every active subscription; each is signed
once (`Sign`), posted, answered or timed out (`Answered`, `GivesUp`), retried with its nonce (`Retry`), recorded
(`Record`, inside the `try` of the post), audited, or buried (`Bury`). When one rejects the job runs
again while the others go on (`Settle`). Requests fly (`flying`): they are lost (`Lose`), or
handled whenever: `PassTimestamp`, and after the await of the signature `Handle` (nonce, mapping; or a refusal). `bound.lead` is how far the
sender's clock is ahead of the receiver's. `FindRow`, `TakeOut`, `PutIn` are the
three awaits of `regenerateSecret`.

### Live (`sprout/live.ts`, `coordination.ts`, `live.server.ts`, `use-live-rows.ts`)

One channel over one row, a version number for its content. `Commit`, `Announce`, the bus,
`Deliver` to a fan-out which visits subscribers (`Visit`, `Read`, `Send`: an await each),
drops those that are shed or revoked, or ends early when an access check rejects (`FanOutFails`: the handler of the announcement only logs
it; a read that rejects is caught in `publish`, `live.ts:511`, and sent as a removal), and closes a channel that is full, paused or replaced
(`Replan`). The client connects (`Connect`, `Subscribe`: `resolveUser` is awaited between), receives,
breaks and reconnects, polls (`Ask`, `Land`) when it was told to, and revalidates (`Reload`, `Reseed`). `excused` collects the seven reasons
for which a client may be behind; `faults` bounds what is lost, broken and rejected.

### QueryCache (`ui/src/data/hooks.ts`, `query-client.ts`)

One record, cached in a list and on its own. A fetch is begun (`Invalidate`, `Mount`, `Refetch`), served
(`Serve`) and written (`LandFetch`); a mutation begins with its optimistic patch (`Begin`), is sent (an undoable one
waits, until `Undo` or `CommitDelete`; an undo that comes after the commit fetches again and no more), applied (`Apply`) and settled
(`SettleUpdate`, `SettleDelete`: rollback, invalidation; `CallbackThrows`: an `onSuccess` that throws sends an applied update down the rollback's path). A
row is the set of updates it contains.

### Members (`members/service.ts`, `routes/team.tsx`)

The rows and invitations of one organization. A request (`req`) is between two statements: `UpdateRole`
and `Transfer` (two calls of `updateRole`, the team page's) go through `Check` and `SetRole`; `Remove` (a removal or
a leave) through `ReadTarget`, `CountOwners` and `DeleteRow`; `Accept` through `ReadInvitation`, then `MarkExpired`, or `ListMembers`,
`AddMember` and `MarkAccepted`. `Die` ends any of them where it is. Creating, revoking and expiring an invitation
and deleting the organization are one statement each. `stale` are the requests that counted owners who have
changed since; `crossed`, `rivals` and `cut` count overlapping and cut acceptances.

### Sources (`sources/queue.ts`, `service.ts`, `apps/web/app/sources.server.ts`)

The handler of JobQueue's `source.run`, taken apart at its awaits. Sources extends JobQueue: its queue is
JobQueue's, with two payloads (a sync, an enrichment), either claim, and no retries by operators; the
theorem `QueueImplemented` says so. Beside the queue's variables: `table` (the synced rows, each a remote id and the
version of its content), `remote` (the version the collection is at), `row` (the enriched row: the version of its
input, and the one its output answers), `sink` (callers whose write is committed and whose enrichment is
not yet enqueued), `work` (how far each tick's handler has come), and the histories `peak` (the most
syncs in progress at one time) and `excused`.

| code | actions |
|---|---|
| `enqueueSync` | `EnqueueSync`: keyed by the occurrence; then JobQueue's insert (`InsertStep`) |
| a write by anybody, and the audit sink after it | `Write`; `EnqueueEnrichment`, or `EnqueueSwallowed` when the spec does not load or the queue refuses |
| `runSync` | `FetchCollection`: the collection as a list of upserts |
| `applyWritesWith` | for each upsert `Match` (`opList` by remote id), then `Upsert` (`opUpdate` or `opCreate`), or `RefuseUpsert` |
| the throw after its loop, `summarize` | `Conclude` |
| `readSourceRow`, `runEnrichment` | `ReadRow`, then `EnrichRow` |
| returns and throws before anything is written | `ComesToNothing`, with each of the three outcomes |
| | `RemoteChanges`, `RowDeleted`, `ProcessDies`, `WriteRejected` (the queue's own writes) |

Left out: the checks of a request and the mapping of its response (a choice of outcome), the fan-out of a schedule over
organizations, edits and deletions of synced rows by users, and the health a page shows.

### How the modules fit

JobQueue implements JobLifecycle, and Sources JobQueue. Scheduler relies on `EnqueueAgreement` of JobQueue for its one-step enqueue; Notifications
and Webhooks rely on its redelivery (`RunsWithinBudget`, `EventuallySettles`): a job whose caller has no
answer is run again, perhaps twice at once. Notifications extends Preferences. SpecReview reads the watermark whose
coverage Ownership checks. Operations ends each write with the announcement Live begins with; QueryCache is the other
way a browser learns of it.

## 3 The runs

Distinct states as TLC counts them; with two workers a run takes between 20 seconds and two minutes.

| run | instance | states | shows |
|---|---|---|---|
| `job_queue_stores` | either store, budget 2, 2 ticks, 1 grant a row. Memory: 2 rows, 1 key and none, 2 enqueuers, 1 operator. Drizzle: 1 row, 1 enqueuer, 2 workers with a tick each and a third process with 2 operators, one type without handler, 1 crash or rejected write | 1 596 000 | with retries of rows of any status: `EnqueueAgreement`; and of rows no claim and no retry has overwritten unseen `OneRunnerPerRow`, `RunsWithinBudget`, and that JobLifecycle is implemented |
| `sources_on_the_queue` | 2 jobs, 2 ticks of one process, two-statement claim, 1 or 2 records, 1 change of the collection, 2 syncs or 2 writes of the row, 2 attempts, 1 crash or rejected write; seven bounds; fairness | 186 000 | `CopiesBounded`, `SuccessMeansLanded`, `NeverBackwards`, `EventuallyEnriched`; and of the queue, that even with duplicated claims every job is settled for good, unless a crash or a rejected write lost its tick (`EventuallySettles`) |
| `scheduler_one_process` | 2 schedules, times 0..3, 1 crash, 1 rejection, 1 pause; or 1 schedule and 2 ticks that overlap; fairness | 100 000 | nothing is lost in sequence without a crash (`NoLossInSequence`), nothing is backfilled, and every occurrence after the first job is in the end enqueued or discarded (`EventuallyAccounted`) |
| `ownership_one_command` | 2 pages, 1 file elsewhere, 3 ops, 2 edits, 1 death, 1 command | 2 807 000 | owned bytes survive, edited files are not deleted, an undisturbed generation leaves what the spec asks for, the watermark covers it |
| `spec_review_one_request` | 5 rows in 3 files, the op log after the first two; one nested high-risk, one hand-authored; 2 batches, 3 saves, 1 death | 1 239 000 | the trail explains the rows a dying save did not part from it, high-risk rows are decided alone, an undo precedes the generation |
| `operations_board` | 3 rows, 2 keys, a cap of 1, an action that names a row twice, a file of 2 lines, 2 requesters, 3 requests | 594 000 | `OvershootBounded`, `UndoPutsBack`, `ImportKeepsKeys` |
| `coordination_shared` | 2 instances a unit apart, either store, budgets 0, 1, 2, window 2, 5 calls, times 0..4, 1 restart | 1 756 000 | `WithinBudget` |
| `notifications_two_servers` | 2 servers, 2 workers, 2 keys and a window; three bounds (time and changes, or events) | 1 802 000 | `MailsExplained`, `DecidedLately`, `DigestBooks`, `ClaimsFinished` |
| `webhooks_one_event` | 3 rows, 2 regenerations, 2 attempts, 2 runs of the job, window 2, times 0..4, the sender up to 3 seconds ahead, 1 fault; five bounds | 1 012 000 | `LogTruthful`, `TakenOnce`, `OneActive` |
| `live_one_row` | 2 writers, 2 clients, 2 fan-outs; four bounds; fairness | 464 000 | `NoSilentStaleness`, `PollingCatchesUp` |
| `query_cache_one_record` | 2 mutations of two kinds with a mount and a failure; or 1 with two of each; four bounds | 3 046 000 | `ListConverges`, `RecordConverges` |
| `members_one_team` | 2 rows of which 1 or 2 owners, 4 ids, 3 users, 1 invitation, 2 requests at a time, 3 in all | 1 147 000 | `LastOwnerLostByRace`, `OneRowPerUser`, `InvitationSpent` |

`CHECK_DEADLOCK FALSE` everywhere: all of these systems may come to rest when the bounded
inputs (jobs, ops, saves, requests, time) are used up. The type invariant of every module is a theorem of section 4; it is
among a run's properties too for Notifications, Webhooks and Live.

**Bounds.** Each is a CONSTANT named `Max...`, in the guard of the action it bounds. The smallest
instance that has the interesting case: two rows are what a claim can confuse, two callers what
a key can race, budget 2 has a first, a last and a granted attempt; three instants and a
bound of 2 make a catch-up that discards; two pages and a third file make every eject
destination (own file, another page's, nobody's) and three ops remove a page and declare it
again; three row files around a log make every place a save can die. Rates of faults of 1 are enough
to separate each property from its mutants; the proofs of section 4 have no such bounds.
Notifications, Webhooks, Live, QueryCache and Sources take a *set* of bounds: the initial state picks one, so that a run explores a
budget rich in one kind of event (time and changes; crashes; reconnections) and then one rich in another, where all at once
would be too many states. MCJobQueue does the same with the store, and MCScheduler with `overlap`: two schedules and ticks in sequence, or one schedule and ticks
that overlap. Two requesters are what a check and a write need to be separated; the members' third request
makes the second of two transfers, and coordination's fifth call the one after a bucket was set back.
Symmetry (`CallSymmetry`, `BatchSymmetry`, `Alike`) is used only in runs without liveness.
One of the webhooks' bounds has a sender whose lead exceeds the window, so that a request may come too early as well as too late.

**Fairness.** `JobQueue.Fairness`: `setInterval` keeps calling `tick` and a handler settles
(WF of `TickStep`), backoff passes (WF of `BecomeDue`), and a call of `enqueue` or `retry` that has begun
proceeds. Nothing makes anybody enqueue or retry. Nothing makes a
store write succeed: `RecordRejected` competes with the fair records but is bounded by
`MaxFaults`. `Scheduler.FairSpec`: WF of `TickStep` for each tick, for the same reason. Strong fairness is
nowhere needed. `Live`: WF of `Ask`, `Reseed` and `Land` (the poll's interval keeps running and answers arrive); nothing makes a
stream connect or an announcement arrive. `Sources.FairnessSources` is JobQueue's, with the
handler's steps in the place of its one (a handler settles: it is awaited, and each of its awaits ends), and an audit sink that has begun goes on. That the body
of an answer ends is an assumption: `fetch.ts` clears its timer before it reads the body, so that a third party that stops in the middle
of one holds its tick, and the module has no such behaviour. Nothing makes anybody sync, write or delete. The other modules state safety only.

**Mutants.** Each property of each passing run has a mutant: a definition `M` placed just before
the one it replaces, with the comment "Mutant:", which makes that run fail (PROJECT.json
"mutants").

## 4 The proofs

Eight modules of theorems: *QueueProofs* (JobQueue, and Sources which extends it), *ClockProofs* (Scheduler and Coordination, which live by
the clock), *OwnershipProofs*, *SpecReviewProofs*, *BrowserProofs* (what a browser shows and what it writes: Live, QueryCache and Operations), *NotificationsProofs*
(with Preferences), *WebhooksProofs*, *MembersProofs*. None uses an assumption but the named
`...Assumption` of the module it is about, which says what the constants are (sets, numbers, markers that are no members of them), and, where said,
the hypothesis in the theorem's statement.

| theorem | statement | hypotheses |
|---|---|---|
| `QueueProofs!TypeCorrect` | `Spec => []TypeOK` | none |
| `QueueProofs!OneRowPerKeyAlways` | `Spec => []OneRowPerKey` | none |
| `QueueProofs!EnqueueAgrees` | `Spec => []EnqueueAgreement` | none |
| `QueueProofs!OneRunner` | `Spec => []OneRunnerPerRow` | none; the property speaks of rows that are not `clobbered`, like the next four |
| `QueueProofs!BudgetHolds` | `Spec => []RunsWithinBudget` | none |
| `QueueProofs!DeadLettersAreFailed` | `Spec => []DeadLetterExact` | none |
| `QueueProofs!FinalStaysFinal` | `Spec => TerminalIsFinal` | none |
| `QueueProofs!QueueImplementsLifecycle` | `Spec => ImplementsLifecycle` | none |
| `QueueProofs!QueueImplemented` | `SourcesSpec => Spec`: the queue of sources is JobQueue's | none |
| `QueueProofs!SourcesTypeCorrect` | `SourcesSpec => []SourcesTypeOK` | none |
| `QueueProofs!CopiesAreBounded` | `SourcesSpec => []CopiesBounded` | none |
| `QueueProofs!RowsGoForward` | `SourcesSpec => NeverBackwards` | none |
| `QueueProofs!SuccessLandsAll` | `SourcesSpec => SuccessMeansLanded` | none |
| `ClockProofs!ScheduleTypeCorrect` | `Spec => []TypeOK` (Scheduler's) | none |
| `ClockProofs!NeverBackfills` | `Spec => []NoBackfill` | none |
| `ClockProofs!NothingLostInSequence` | `Spec => []NoLossInSequence` | one process |
| `OwnershipProofs!TypeCorrect` | `Spec => []TypeOK` | none |
| `OwnershipProofs!EditedSurvives` | `Spec => EditedNeverDeleted` | none |
| `OwnershipProofs!EjectedForEver` | `Spec => OwnershipKept` | one command at a time |
| `OwnershipProofs!WatermarkNeverBack` | `Spec => WatermarkMonotone` | one command at a time |
| `OwnershipProofs!WatermarkCoversAll` | `Spec => []WatermarkCovers` | one command at a time |
| `OwnershipProofs!TreeIsWhatTheSpecSays` | `Spec => TreeFollowsSpec` | one command at a time |
| `OwnershipProofs!OwnedSurvives` | `Spec => OwnedBytesSurvive` | the same, and no file ejected to a page's own path |
| `SpecReviewProofs!TypeCorrect` | `Spec => []TypeOK` | one reviewer |
| `SpecReviewProofs!TrailIsTheWholeStory` | `Spec => []TrailExplainsRows` | one reviewer |
| `SpecReviewProofs!HighRiskIsDecidedByName` | `Spec => []HighRiskDecidedAlone` | one reviewer |
| `SpecReviewProofs!UndoneBeforeGeneration` | `Spec => UndoOnlyUngenerated` | the same, and no generation while a request works |
| `ClockProofs!BucketsTyped` | `BucketsSpec => []BucketsTypeOK`: no bucket overflows or is overdrawn | none |
| `ClockProofs!BudgetKept` | `BucketsSpec => []WithinBudget` | `RetentionAssumption`: an idle bucket is swept no sooner than it is full |
| `BrowserProofs!ChannelTyped` | `Spec => []TypeOK` (Live's) | none |
| `BrowserProofs!ScreensAreCurrent` | `Spec => []NoSilentStaleness` | none |
| `BrowserProofs!CacheTypeCorrect` | `CacheSpec => []CacheTypeOK` | none |
| `BrowserProofs!ListsConverge` | `CacheSpec => []ListConverges` | none |
| `BrowserProofs!RecordsConverge` | `CacheSpec => []RecordConverges` | none |
| `BrowserProofs!WritesTypeCorrect` | `WritesSpec => []WritesTypeOK` | none |
| `BrowserProofs!CapsPassedByRaceOnly` | `WritesSpec => []OvershootBounded` | none |
| `BrowserProofs!UndosPutBack` | `WritesSpec => UndoPutsBack` | none |
| `BrowserProofs!ImportsKeepKeys` | `WritesSpec => ImportKeepsKeys` | none; the property itself speaks of one request at a time and of files with no key twice |
| `NotificationsProofs!TypeCorrect` | `Spec => []TypeOK` | none |
| `NotificationsProofs!SecondMailHasAReason` | `Spec => []MailsExplained` | none |
| `NotificationsProofs!DecidedByWhatWasTrueLately` | `Spec => []DecidedLately` | none |
| `NotificationsProofs!BooksBalance` | `Spec => []DigestBooks` | none |
| `NotificationsProofs!ClaimsAreFinished` | `Spec => []ClaimsFinished` | none |
| `WebhooksProofs!TypeCorrect` | `Spec => []TypeOK` | none |
| `WebhooksProofs!Truthful` | `Spec => []LogTruthful` | none |
| `WebhooksProofs!TakenOnceOnly` | `Spec => []TakenOnce` | none |
| `WebhooksProofs!OneAddressOneRow` | `Spec => []OneActive` | none |
| `MembersProofs!TypeCorrect` | `Spec => []TypeOK` | none |
| `MembersProofs!LastOwnerOnlyByRace` | `Spec => LastOwnerLostByRace` | none |
| `MembersProofs!RowsOnlyByCrossing` | `Spec => []OneRowPerUser` | none |
| `MembersProofs!SpentOnce` | `Spec => []InvitationSpent` | none |

"None" means: any number of rows, callers, ticks, schedules, pages, processes, clients and commands, any
interleaving of them, any number of crashes. Each hypothesis is one whose absence TLC answers with a counterexample (section 5, and below).

**Job queue, both stores.** `KeyInv == TypeOK /\ OneRowPerKey /\ Answered /\ LiveRefs`.
`OneRowPerKey` alone is not inductive: a write by id (`Put`) must hit a row that exists, or it
would create one beside the unique index. `LiveRefs` says so of every id a tick or an operator
holds, `Answered` that an answered caller's row has its key; keys and existence of a row never
change, so both survive every other actor's step.

**Job queue, the life of a row.** `QueueInv` is `KeyInv` with `RowInv` for every row that is not clobbered. `RowFits` relates such a row to its
history: a pending row has an attempt left and as many runs as attempts, a running one at most one run more, failed and dead coincide. `CallFits`: the
row a tick holds is running, its attempt is the row's next one and its budget the row's; and no two ticks hold one row.
A write by id of a tick or of an operator either finds the row as it was read, and then the invariant says what is
written, or its row is clobbered and nothing is left to show; and it never reaches another row (`Untouched`). Stores, claims, operators and faults are not told apart, which is why no hypothesis is needed.
The refinement goes action by action: what a step does to `status`, `attempts` and `maxAttempts` is one
fact, that this is a step of JobLifecycle (or a stutter) another; an unseen write is `Clobber`.

**Scheduler.** `BackfillInv`: besides types and `NoBackfill`, every watermark of every process is at
or after the first look at its schedule (`MarkWatched`), and a tick's answer from the table is a
row and its pending occurrences fall after the first look (`PlanKept`). The key lemma is
`WindowWatched`: a window starts at a row (after the first look, by `NoBackfill`), at a watermark
(by `MarkWatched`), or at the tick's own instant, and then it is empty. Steps of
others only add rows and move the first look backwards (`Grows`), so nothing needs ticks
to be ordered. The schedules a tick has left are not typed in this invariant. `TypeInv` adds that: a tick past its reading has a
schedule at hand, and what it reads out of the spec is a sequence of schedules (`ActiveTyped`), for which the filter `activeSchedules`
is a recursive function of the position in the spec's order (`ActiveAmong`) and not `SelectSeq`, which the provers cannot open.

`SequenceInv` says, as long as nothing crashed and no two ticks overlapped: everything up to a schedule's watermark that fell due after
the first look is decided (`MarkCovers`); so is everything before any row of the table, because a tick enqueues oldest first
(`OldestFirst`); and what a tick has read from the table and not yet enqueued is, with what is decided, all that is due
(`InHand`). A decision is never revoked (`Keeps`). It takes one process: with two, the second's first look starts at its own now, enqueues
an occurrence, and the first then starts from that row; what fell due between its own watermark and the row is lost though no two ticks overlapped.

**Ownership.** `TypeInv == TypeOK /\ Placed(man) /\ \A c : Fits(cmd[c])`: a tracked entry names a file and
a command in the middle of a page has one. `CopyInv` adds that the manifest held by the command in
progress keeps what the one on disk says: its ejected pages are ejected and its watermark is the
same. With one command the disk's manifest does not change between its load and its save, so the save loses nothing;
with two it does, and TLC shows both properties failing. `EditedNeverDeleted` needs no such
hypothesis: the deletion is in the step that compared the bytes.

Three invariants go further, each over the same one command. `SiteInv`: a tracked entry names its page's own file or a destination an eject
chose, and so does the eject in progress; hence what a writer overwrites is a file the manifest does not call owned. The hypothesis that no
destination is another page's path is the divergence of section 5. `CoverInv`: unless a command died, the generator's bytes on disk are covered by the watermark,
or by the one a generation in progress is about to stamp. `TreeInv`: the generator's bytes are recorded with their hash (`BytesRecorded`), a wired page is
tracked or about to be unwired (`RoutesRecorded`), what a command has loaded and not changed is what is on disk (`Current`), and an undisturbed generation has by now
retired, emitted and wired all pages but those in its worklist (`Progress`).

**Review.** What a list of ops does is `ApplyAll`, a recursion over the list's length. Induction on data is had here without the library's induction
theorem: the numbers up to which a statement holds are a set that contains 0 and every successor, hence all of them (lemma `UpTo`). From it:
replaying a log and then an op is replaying the longer log, and lists that agree on a row's ops agree on the row. `TypeInv` adds `CopyOf`: the copy of a request continues the log on
disk, which is where one reviewer is needed. `TrailInv`: a row file that the save in progress has written holds what the request's log gives; a file it has not reached holds what
the log on disk gives as long as that is the old one; and the copy of the request holds what its own log gives, which is what the files after the log will be given.
The rows `torn` names are excepted, whichever of the two sides a death left behind. `AloneInv`: in every log, on disk or about to be written, an entry of
a review that moves a high-risk row names that row and belongs to no batch (resets apart, and rows a dying save tore). `UndoInv`: a generation consumed all of a batch or none of it
(`AllOrNone`); with an undo in progress that is what a generation in between would break.

**Coordination.** `BudgetInv` says how much a bucket may have given: what it gave plus what it holds is at most a full one, one
more per restart, the latest stamp it has seen, and what older stamps set it back (`Balanced`); a bucket's stamp is the latest
seen less that; and every stamp seen has been passed by some instance's clock. A take moves as much from the level to `given` as it costs, a refill adds
at most the time between two stamps, and the sweep removes only a bucket that a call would find full, which is
where `RetentionAssumption` (`Window <= Retention`) is needed.

**Live.** `LiveInv` is `TypeOK` with, for each client, `ClientFits`. The core: a stream has no seat at its channel exactly when a
goodbye is on its way to it (`ConnFits`), so that a client that is not being told is about to learn it. `Current`: unless it is excused, what a connected
client's screen will show when its pipe is drained (`Drained`) is the newest row that was sent to it (`Newest`), and that is the row's version or a fan-out still
owes it (`Owed`: an announcement not yet made, on the bus, or a fan-out with this connection among those left to visit, or holding a row read after the commit). Steps are proved twice: once for the client that takes them, once for every other
(`ClientAside`), whose fields do not move.

**Query cache.** `CacheInv` adds to the types that fetches of a key have numbers of their own and the entry they will be written to is there
(`FetchesFit`), that a served mutation has an answer (`CallFits`), and that a record's own entry is never told the row is gone (`NeverGone`: an update would patch it).
`ListFits`: either a mutation under way owes the list another fetch, or the list is current (`ListCurrent`): the answer of the fetch begun last, once it has been served, is
what the server has, and so is what is on screen when that was the last to land. Every step that changes the server or patches the list is of a mutation that owes.
`RecordFits` (unless crossed): one mutation at most is under way on the record and then no fetch of it; what its answer will leave in the entry is foreseen (`Foreseen`): an update's snapshot is the
server's row until it is applied, and its answer is the row after, so that both the answer and the rollback restore the truth. A callback that throws breaks that, and is one of the things `crossed` remembers.

**Operations.** All four theorems rest on `Sound`: the types, and where a request is in its list (`Placed`) with the writes its kind may contain (`Fit`). A step
either moves its request on (`AdvanceSound`) or to the next await of the same write (`MoveSound`). `OvershootBounded` alone is not inductive: a request past its
count will write whatever the table says by then. `RoomInv` counts these with the rows: the rows that hold a value together with those an
update is about to move there (one set: an update whose row somebody else moved adds none), and the creates about to be made, leave room for one less than the limit and all requests.
When a count passes, the table alone is below the limit and each other request is about to add one row at most (`CountLeavesRoom`); a write turns a request about to fill into a row (`RoomStore`); a restore is
added on both sides. `PicturesInv`: what a run has recorded of a row is what it found, unless `foreign` names the row; what it has yet to write is
named once and still as it found it (`ActionFaithful`: that an id counts once is what keeps a run from reading its own write);
and the list of an undo is those records (`UndoFaithful`). A step of another request changes a value only of a row it adds to `foreign`
(`StepElsewhere`). `PlansInv`: as long as requests come one at a time, every create an import has yet to make is of a key no live row has and no other of its creates (`PlanHolds`).

**Notifications.** `IInv == TypeOK /\ Shapes /\ Lately /\ Claims /\ ClaimsFinished /\ DigestBooks /\ Counted`. `Shapes` says what a run at each program counter
carries. `Lately`: every preference a cache holds or a run has been answered was the table's at some time within the cache's lifetime, which a decision then
inherits. `Counted` is `MailsExplained` with the mails to come: those sent, and those of runs that are before their marking, are at most one more than the rivals and cut runs. `Claims`: a
row that a run is to mail is claimed, and one nobody has claimed is not mailed and the calls about it are owed an answer, or `unsent` says why not.

**Webhooks.** A nonce is signed in one second and carries it in every retry (`OneSecond`); a receiver remembers it until that second can no longer pass
the window, so a second taking that claims its nonce before the window's last second would need a timestamp both older and younger than that; the sender's lead moves both by as much. `Told`, `Tried` and `Over` relate the log to the posts:
a success is recorded only of what the receiver took, a delivery that is over has a row, and so do all of a job that is done. `RowsAndOuts`: the active rows of an address and the regenerations that
have taken a row out and not put one in are at most one more than the regenerations that overlapped.

**Members.** `IInv == TypeOK /\ Busy /\ Sound`. `Sound`: a request that has passed its check and is not stale leaves an owner (its
target is none, or stays one, or there is another). `Overtaken` is the key lemma: a write that changes the owners
makes every other request stale, so `Sound` has nothing left to say of them. `LosingStep` then shows that only a role
change and a removal can empty the owners, and only by a stale request. Two counts need no such case split: the rows of a user and
the acceptances that have read the list without finding him and are about to add him are at most one more than those that crossed
(`RowsAndAdds`); and the members an invitation admitted, with the acceptances about to, are one at most but for the rivals and the cut ones (`Admissions`).

**Sources.** `QueueImplemented` maps each step to one of JobQueue or a stutter, so that `TypeCorrect`, `OneRowPerKeyAlways` and
`EnqueueAgrees` hold of the sources' jobs as well. `IInv == SourcesTypeOK /\ Aimed /\ Counted /\ Fresh /\ Covered`. `CopiesBounded`
alone is not inductive: a run that found no row will create one when others already have. `Counted` counts those runs with
the rows: the copies of a record and the runs about to create one are together at most `peak`. It is kept because a run joins them only
while the record has no row at all (then they are all syncs in progress, of which there are at most `peak`), and leaves them by
creating one row. `Aimed` keeps the row a run has found that record's. `Fresh`: nothing is newer than the collection, and while syncs never
overlapped no row is newer than what the one in progress holds. `Covered`: what a run that was refused nothing has left
behind is in the table. `StepKinds` reduces the eighteen actions to the four steps of a sync and `Aside`, which says what the others leave alone.

**Only model-checked.** Liveness (`EventuallySettles`, `EventuallyEnriched`, `EventuallyAccounted`, `PollingCatchesUp`), which is beyond the
prover. Every invariant and action property of the runs is a theorem.

## 5 Where code and documents disagree

No run is there to fail: the properties that pass name the exception instead, and removing the exception gives
TLC's counterexample. What was seen that way, against the words it contradicts:

* *Jobs are retried when their process dies* (`jobs/service.ts:13-17`): `claimNext` takes only pending rows and
  nothing resets a running one. `EventuallySettles` without `Abandoned` fails.
* *claimNext is atomic enough in a single process* (`jobs/service.ts:94`): not over drizzle with overlapping
  ticks, which `start()` allows: both select the row, the second's update is blind, and two handlers run it.
* *Give a dead-lettered job exactly one more attempt* (`jobs/service.ts:374`): `retry` looks at no status, nor do the route's action and `retryJob`. A second click, or a page gone stale,
  reopens a row that is pending, running or succeeded: a succeeded one is run again, and a running one is given to a second tick, which needs one operator and the memory store only.
  Without `\ clobbered`, `OneRunnerPerRow` and `RunsWithinBudget` fail and JobLifecycle is not implemented.
* *A schedule with no history has nothing to lose when the process dies* (`scheduler.ts:98-100`): it loses the
  occurrence that fell due after the first look. Overlapping first ticks do too: the later watermark may pass an occurrence neither enqueued.
* *Ejected files survive generation* (`eject.ts:4-5`): not when the dev watcher's generation overlaps the eject; with two commands
  `OwnershipKept`, `WatermarkMonotone` and `OwnedBytesSurvive` fail.
* *Ejected entries are never overwritten* (`write.ts:53`): a file ejected `--to` another page's path is.
* *A failed generate wrote nothing to be inconsistent with* (`lib/generate.ts:122-123`): it has written pages the watermark does not cover, and
  a death between wiring a route and saving the manifest leaves a file and a route nobody tracks.
* A page removed, its edited module kept and unwired, and declared again: `writeGenerated` overwrites the module.
* *An undo leaves alone what somebody re-decided* (`bulk-review.ts:909-911`, `bulk-review.server.ts:261-263`): it resets it. A generation during an
  undo request breaks `UndoOnlyUngenerated`; two reviewers break `HighRiskDecidedAlone`; a save that dies between files
  leaves rows the op log does not explain, or, after the log, decisions in the log whose flags, schedules, sources, portals and topics never moved (`torn`).
* *A declared budget is served at the declared number* (`rate-limit.ts:24-28`, `DeclaredBudget`): the shared bucket takes the caller's stamp, so an instance whose
  clock is behind makes the next call refill the same time again.
* *The browser starts polling alongside* a broken stream (`use-live-rows.ts:147-150`): `onerror` only sets a flag. A client may
  also subscribe to a channel that was replaced while its user was looked up (`live.server.ts:276`), two overlapping fan-outs may
  send the older row last (`live.ts:508`), and a revalidation may overwrite a row that was pushed. An access rule that rejects ends a fan-out, which is only logged
  (`live.server.ts:162-169`): the subscribers not visited yet stream on, behind and untold. A read that rejects is sent as a removal, so that a row that is still there leaves the screen.
* *Only the writer that won the insert sends* (notifications, `service.ts` header): a second run that finds an unmailed claim mails too, whether or not the first is
  still at it. A change of preference is not *turned up to immediate* (`service.ts:427-428`) for rows already gathered, and a retry mails by the category
  that was claimed, unsubscribed since or not. A call without an address claims an immediate row and returns (`service.ts:334`), so that a later call that has one
  sends, and if none comes nobody does; so it is when the queue has given the job up.
* *Do retry* after a 400 (`inbound.ts:176-179`): the nonce is claimed before the body is mapped, so the retry is refused as a
  replay. A nonce is evicted in the last second its timestamp passes (`signing.ts:166`), and a timestamp that has passed may have gone stale when the nonce is claimed; a delivery that succeeded is logged as failed when the insert of its success record
  throws and the post is made again; two regenerations at once leave two active rows.
* A superseded fetch's answer is written (`query-client.ts:107`); overlapping updates' rollbacks undo each other and nothing fetches the
  record again (`hooks.ts:437`); a failed update of a record deleted meanwhile brings it back; a pessimistic delete whose answer
  is lost leaves its row (`hooks.ts:500`); an `onSuccess` that throws lies in the `try` of the mutation and rolls an update back that was applied (`hooks.ts:432`).
* *An organization can never lose its last owner* (`members/service.ts:10-11`): two overlapping demotions or removals do it. Two
  overlapping acceptances add a user twice; `revokeInvitation` (*"Revoke a pending invitation"*, line 327) revokes an accepted one; an acceptance
  overwrites a revocation.
* *What makes a sync safe to run again is its upsert* (`sources/service.ts:49-53`): safe when runs follow each other. Two that overlap (two
  occurrences, or one job claimed by two drizzle ticks) both find no row and both create one, and the slower may write the older answer last: `CopiesBounded` and
  `NeverBackwards` fail without `peak`. Two enrichments of one row that overlap may leave the older answer.

Read, not modelled: *the retry budget the spec declares becomes the queue's*
(`sources/queue.ts:24-26`), but only its attempts: the declared backoff never reaches the queue; `sprout.server.ts` passes no limiter, so that a source's
`requestsPerMinute` is not applied to its runs; `sourceHealth` takes the newest 20 jobs of all sources before it looks for the source's (`queue.ts:292-300`), so that a quiet one reads as never
run; a write refused by validation uses up attempts that cannot succeed. The operator's actions on webhooks are made through a service without an audit sink (`sprout.server.ts:1337`);
what an inbound mapping returns is written by no route.

## 6 What is not modelled

**Out of reach or without state of its own:** calendar arithmetic and time zones, page layout, PDF and font
encoding, SQL text and ranking of search, email templates, the payment provider and the auth library, prompts to
a language model, rendering, process control of the command line, examples and templates.

**Of the modelled components:** see the "note" of each in PROJECT.json. The largest gaps are slot files and the four seam
registries (Ownership), the migration of an old project and risk rules (SpecReview), authorization, field validation and hooks (Operations), presence
(Live), infinite queries (QueryCache), and the health and the per-organization runs of sources (Sources).

**Not yet** (section 7): everything of section 1 that no module covers. Hazards beyond the ones in PROJECT.json:

| where | what |
|---|---|
| `features/src/jobs/service.ts:384` | a dead letter older than the newest thousand rows cannot be retried |
| `features/src/jobs/service.ts:387` | a retry of a row of any status (`OneRunnerPerRow`, section 5) |
| `features/src/jobs/scheduler.ts:119` | a schedule is paused while a tick that read it as active enqueues for it |
| `jobs/scheduler.ts:148`, `spec/src/base/schedules.ts:519` | the watermark before its rows, and a window open on the left (`NoLossInSequence`, `NoBackfill`) |
| `ownership/prune.ts:103` | an edit saved between the hash check and the remove (one step of the model) |
| `ownership/prune.ts:106`, `lib/generate.ts:82`, `commands/eject.ts:95` | deaths while pruning, the order of pruning and emission, the prompt of eject (`EditedNeverDeleted`, `TreeFollowsSpec`, `OwnedBytesSurvive`) |
| `ownership/manifest.ts:98` | a 32-bit hash collision makes an edited file look unedited |
| `ownership/write.ts:88` | an edited module is overwritten when its page is declared again (modelled; section 5) |
| `spec/src/base/spec-ops.ts:9517` | a review that does not cascade moves a hand-authored row (modelled) |
| `spec/src/base/bulk-review.ts:922`, `:1004` | an undo resets later decisions (section 5); a watermark off by one (`UndoOnlyUngenerated`) |
| `workbench/bulk-review.server.ts:135` | any review entry with a session counts as a batch and may be undone as one |
| `mcp/src/spec-store.ts:66` | a load during another process's save sees some files before and some after |
| `workbench/land.server.ts:196`, `:254` | two clicks, or a death before the landing is recorded, land an issue twice |
| `webhooks/service.ts:317` | the insert of the failed record can throw, and the whole emit is run again (`LogTruthful`) |
| `webhooks/inbound.ts:162` | a sender told to retry is refused as a replay (section 5) |
| `notifications/service.ts:334` | a retry mails whoever unsubscribed since the claim (section 5) |
| `members/service.ts:313`, `:363` | an acceptance overwrites a revocation; an owner removed while another leaves (`InvitationSpent`, `LastOwnerLostByRace`) |
| `ui/src/realtime/locks.ts:46`, `:89` | a lock expires while its holder goes on editing; two holders replace each other's lock |
| `billing/metering.ts:198`, `:269` | concurrent requests exceed a quota; usage is the sum of at most 5000 rows |
| `billing/entitlements.ts:186` | a subscription after the first 500 rows is not seen |
| `api-keys/service.ts:242` | a rotation revokes and then issues |
| `storage/objects.ts:121` | an object referenced after the scan is reported as an orphan |
| `compliance/erasure-service.ts:111`, `:157` | rows created between collection and deletion survive; a delete that throws leaves an erasure half done |
| `compliance/retention.ts:270` | collection stops silently at 10 000 rows per table |
| `compliance/purge-job.ts:58` | a row restored between the list and its delete is purged |
| `ui/src/data/hooks.ts:500` | a pessimistic delete whose answer is lost leaves its row (section 5) |
| `ownership/write.ts:66` | the owner is looked up in the manifest the command loaded, which another command may have changed since (`OwnedBytesSurvive`, section 5) |
| `sprout/coordination.ts:409` | an idle bucket is swept before it is full (`RetentionAssumption`, `WithinBudget`) |
| `webhooks/service.ts:182` | two regenerations at once leave two active rows (`OneActive`) |

## 7 Plan

Done, in the order of what the system's users would lose first: JobQueue with JobLifecycle, Scheduler, Ownership, SpecReview,
Operations, Coordination, Preferences and Notifications, Webhooks, Live, QueryCache, Members, Sources. Left:

| module | composes with | abstract promise | bounds |
|---|---|---|---|
| Landing | SpecReview's store | an issue lands once, but for overlapping clicks and deaths | 2 clicks, 1 death |
| RecordLocks | Live | one holder while messages arrive | 2 browsers |
| Quota | Operations | a quota is passed by at most the requests in progress | 2 requests |
| Erasure | retention, purge | nothing older than the erasure is left of the subject | 1 writer |
| Ownership: slots and seams | Ownership | as Ownership | 1 slot |

Proofs to come: those of the modules planned above.
