------------------------------ MODULE Sources ------------------------------
(***************************************************************************)
(* Declared external sources (packages/features/src/sources), run as jobs  *)
(* of JobQueue and applied through the app's write path by                 *)
(* apps/web/app/sources.server.ts.                                         *)
(*                                                                         *)
(* Two sources are declared.  A sync pulls a remote collection into a      *)
(* table, one upsert per record: read for a match, then update or create.  *)
(* An enrichment runs for a row each time somebody writes it: it reads the *)
(* row's input, asks about it, and writes what it is told into another     *)
(* column.  The handler of JobQueue's `source.run` is taken apart at its   *)
(* awaits; everything else of the queue is as it is there but for retries  *)
(* by operators, with the claim of either store, so a job may be run twice *)
(* and by two ticks at once.                                               *)
(* Versions stand for a record's content and for a row's input; an         *)
(* enrichment's answer is the input it is about.                           *)
(***************************************************************************)
EXTENDS JobQueue, Sequences, SequencesExt

CONSTANTS
  SyncRun, EnrichRun,  \* the two payloads of a source.run job
  Records,             \* remote ids
  Bounds               \* bounds of a behaviour: the records of the collection in their
                       \* order, how often it changes, the occurrences a sync is asked
                       \* for, how often the enriched row is written and deleted, the
                       \* limits.maxAttempts of both sources, how many faults there
                       \* are, the ticks that claim

ASSUME SourcesAssumption ==
  /\ IsFiniteSet(Ticks)
  /\ SyncRun # EnrichRun /\ Types = {SyncRun, EnrichRun} /\ Handled = Types
  /\ IsFiniteSet(Keys)
  /\ Bounds \subseteq [feed : Seq(Records), changes : Nat, syncs : SUBSET Keys, edits : Nat,
                       deletes : 0..1, maxAttempts : Budgets, faults : Nat,
                       ticks : SUBSET Ticks]
  /\ \A b \in Bounds : Cardinality(b.syncs) + b.edits <= MaxJobs /\ b.faults <= MaxFaults

VARIABLES
  bound,    \* the bounds of this behaviour
  table,    \* the rows synced so far, in creation order
  remote,   \* the version of the collection
  row,      \* the enriched row
  sink,     \* callers whose write is committed and whose enrichment is not yet enqueued
  work,     \* tick -> how far the handler it runs has come
  peak,     \* history: the most syncs in progress at one time
  excused   \* history: a write of the row was not, or may not have been, followed up

sources == <<bound, table, remote, row, sink, work, peak, excused>>
all == <<vars, sources>>

Synced == [record : Records, version : Nat]
Enriched == [input : Nat, output : Nat, gone : BOOLEAN]

NoMatch == 0
Run == [pc     : {"idle", "match", "write", "fetch"},
        todo   : Seq(Records),   \* the upserts that are left
        match  : Nat,            \* the row found for the first of them
        copy   : Nat,            \* the version fetched, or the input read
        failed : BOOLEAN]
Idle == [pc |-> "idle", todo |-> <<>>, match |-> NoMatch, copy |-> 0, failed |-> FALSE]

-----------------------------------------------------------------------------
(* What enqueues a run                                                     *)

\* The job a call goes on to insert, with the source's budget.
Asks(e, payload) ==
  req'[e].pc = "inserting" /\ req'[e].type = payload /\ req'[e].budget = bound.maxAttempts

AtRest(e) == req[e].pc \in {"idle", "done"} /\ e \notin sink

\* enqueueSync, for an occurrence of a schedule or an operator: the occurrence
\* is the key.
EnqueueSync(e) ==
  /\ AtRest(e)
  /\ EnqueueCheck(e)
  /\ req'[e].key \in bound.syncs
  /\ req'[e].pc = "done" \/ Asks(e, SyncRun)
  /\ UNCHANGED sources

\* Mutant: only a create triggers an enrichment.
OnlyCreates(action) == action = "create"

\* The writes that do.  One made by a source's own run is not among them
\* (writeTriggersEnrichment), so Upsert and EnrichRow leave `sink` alone.
Triggers(action) == action \in {"create", "update"}

\* Somebody writes the row; the audit sink of the committed write comes after it.
Write(e) ==
  /\ AtRest(e)
  /\ row.input < bound.edits /\ ~row.gone
  /\ row' = [row EXCEPT !.input = @ + 1]
  /\ sink' = IF Triggers(IF row.input = 0 THEN "create" ELSE "update")
             THEN sink \cup {e} ELSE sink
  /\ UNCHANGED <<vars, bound, table, remote, work, peak, excused>>

\* enqueueWriteEnrichments: the write is the occurrence, so no two share a key.
EnqueueEnrichment(e) ==
  /\ e \in sink
  /\ EnqueueCheck(e)
  /\ req'[e].key = NoKey /\ Asks(e, EnrichRun)
  /\ sink' = sink \ {e}
  /\ UNCHANGED <<bound, table, remote, row, work, peak, excused>>

\* Best effort: the spec does not load, or the queue does not take the job.
EnqueueSwallowed(e) ==
  /\ e \in sink
  /\ sink' = sink \ {e}
  /\ excused' = TRUE
  /\ UNCHANGED <<vars, bound, table, remote, row, work, peak>>

-----------------------------------------------------------------------------
(* The handler of source.run                                               *)

Runs(t, payload) == tick[t].pc = "running" /\ jobs[tick[t].id].type = payload

\* The runs that have fetched their collection, or read their row, and not returned.
Syncing == {t \in Ticks : work[t].pc \in {"match", "write"}}
Enriching == {t \in Ticks : work[t].pc = "fetch"}

\* The handler returns or throws.
Return(t, outcome) ==
  /\ RunHandler(t)
  /\ tick'[t].outcome = outcome
  /\ work' = [work EXCEPT ![t] = Idle]

\* It comes to nothing: no identity (permanent); no such source, entity or row, no
\* input, a fetch that cannot succeed, an answer without values (returns); a read
\* or write refused, a fetch worth another attempt, a tenant that blocks the whole
\* run (throws).
ComesToNothing(t) ==
  /\ tick[t].pc = "running"
  /\ \E outcome \in {"ok", "error", "permanent"} :
       /\ \/ work[t].pc = "idle"
          \/ work[t].pc = "fetch" /\ outcome # "permanent"
          \/ /\ work[t].pc = "match" /\ outcome = "error"
             /\ work[t].todo = bound.feed /\ bound.feed # <<>>
       /\ Return(t, outcome)
       /\ excused' = (excused \/ (Runs(t, EnrichRun) /\ outcome = "ok"))
  /\ UNCHANGED <<bound, table, remote, row, sink, peak>>

\* Mutant: a fetch may be answered from what was fetched before.
FromCache == 0..remote

\* The versions a fetch may return.
Fetched == {remote}

\* runSync: the collection, as one upsert per record.
FetchCollection(t) ==
  /\ Runs(t, SyncRun) /\ work[t].pc = "idle"
  /\ \E version \in Fetched :
       work' = [work EXCEPT ![t] = [Idle EXCEPT !.pc = "match", !.todo = bound.feed, !.copy = version]]
  /\ peak' = LET now == 1 + Cardinality(Syncing)
             IN  IF now > peak THEN now ELSE peak
  /\ UNCHANGED <<vars, bound, table, remote, row, sink, excused>>

\* Mutant: a record matches only a row of its present content.
SameContent(record) == {i \in DOMAIN table : table[i] = [record |-> record, version |-> remote]}

\* `opList` with the remote id as its filter.
Matching(record) == {i \in DOMAIN table : table[i].record = record}

\* An upsert reads first ...
Match(t) ==
  /\ Runs(t, SyncRun) /\ work[t].pc = "match" /\ work[t].todo # <<>>
  /\ LET found == Matching(Head(work[t].todo))
     IN  \E i \in IF found = {} THEN {NoMatch} ELSE found :
           work' = [work EXCEPT ![t].match = i, ![t].pc = "write"]
  /\ UNCHANGED <<vars, bound, table, remote, row, sink, peak, excused>>

NextRecord(t, failed) ==
  work' = [work EXCEPT ![t].pc = "match", ![t].todo = Tail(@), ![t].failed = failed]

\* ... and updates the row it found, or creates one that has the remote id.
Upsert(t) ==
  /\ Runs(t, SyncRun) /\ work[t].pc = "write"
  /\ LET new == [record |-> Head(work[t].todo), version |-> work[t].copy]
     IN  table' = IF work[t].match = NoMatch THEN Append(table, new)
                  ELSE [table EXCEPT ![work[t].match] = new]
  /\ NextRecord(t, work[t].failed)
  /\ UNCHANGED <<vars, bound, remote, row, sink, peak, excused>>

\* The ops refuse the read or the write; the run goes on with the next record.
RefuseUpsert(t) ==
  /\ Runs(t, SyncRun) /\ work[t].pc \in {"match", "write"} /\ work[t].todo # <<>>
  /\ NextRecord(t, TRUE)
  /\ UNCHANGED <<vars, bound, table, remote, row, sink, peak, excused>>

\* Mutant: the refusals are logged and forgotten.
AlwaysOk(failed) == "ok"

\* `if (failures.length > 0) throw`
Verdict(failed) == IF failed THEN "error" ELSE "ok"

Conclude(t) ==
  /\ Runs(t, SyncRun) /\ work[t].pc = "match" /\ work[t].todo = <<>>
  /\ Return(t, Verdict(work[t].failed))
  /\ UNCHANGED <<bound, table, remote, row, sink, peak, excused>>

\* readSourceRow, and the request it is read for.
ReadRow(t) ==
  /\ Runs(t, EnrichRun) /\ work[t].pc = "idle"
  /\ row.input > 0 /\ ~row.gone
  /\ work' = [work EXCEPT ![t] = [Idle EXCEPT !.pc = "fetch", !.copy = row.input]]
  /\ excused' = (excused \/ Enriching # {})
  /\ UNCHANGED <<vars, bound, table, remote, row, sink, peak>>

\* The answer arrives and is written to the row.
EnrichRow(t) ==
  /\ Runs(t, EnrichRun) /\ work[t].pc = "fetch"
  /\ ~row.gone
  /\ row' = [row EXCEPT !.output = work[t].copy]
  /\ Return(t, "ok")
  /\ UNCHANGED <<bound, table, remote, sink, peak, excused>>

SourceRun(t) ==
  \/ ComesToNothing(t)
  \/ FetchCollection(t) \/ Match(t) \/ Upsert(t) \/ RefuseUpsert(t) \/ Conclude(t)
  \/ ReadRow(t) \/ EnrichRow(t)

-----------------------------------------------------------------------------
(* The world, and the rest of the queue                                    *)

RemoteChanges ==
  /\ remote < bound.changes /\ remote' = remote + 1
  /\ UNCHANGED <<vars, bound, table, row, sink, work, peak, excused>>

RowDeleted ==
  /\ bound.deletes = 1 /\ row.input > 0 /\ ~row.gone
  /\ row' = [row EXCEPT !.gone = TRUE]
  /\ UNCHANGED <<vars, bound, table, remote, sink, work, peak, excused>>

\* With a process go its handlers, and the enrichments it was about to enqueue.
ProcessDies(p) ==
  /\ faults < bound.faults
  /\ Crash(p)
  /\ LET mine == {e \in Enqueuers : ProcOf[e] = p}
     IN  /\ sink' = sink \ mine
         /\ excused' = \/ excused \/ sink \cap mine # {}
                       \/ \E e \in mine : req[e].pc = "inserting" /\ req[e].type = EnrichRun
  /\ work' = [t \in Ticks |-> IF ProcOf[t] = p THEN Idle ELSE work[t]]
  /\ UNCHANGED <<bound, table, remote, row, peak>>

InsertStep(e) == (EnqueueInsert(e) \/ EnqueueReread(e)) /\ UNCHANGED sources

\* A tick but for its handler.
ClaimOrRecord(t) ==
  /\ t \in bound.ticks
  /\ tick[t].pc # "running"
  /\ TickStep(t)
  /\ UNCHANGED sources

WriteRejected(t) ==
  /\ faults < bound.faults
  /\ RecordRejected(t)
  /\ UNCHANGED sources

InitSources ==
  /\ Init
  /\ bound \in Bounds
  /\ table = <<>> /\ remote = 0
  /\ row = [input |-> 0, output |-> 0, gone |-> FALSE]
  /\ sink = {}
  /\ work = [t \in Ticks |-> Idle]
  /\ peak = 0 /\ excused = FALSE

NextSources ==
  \/ \E e \in Enqueuers :
       EnqueueSync(e) \/ Write(e) \/ EnqueueEnrichment(e) \/ EnqueueSwallowed(e) \/ InsertStep(e)
  \/ \E t \in Ticks : SourceRun(t) \/ ClaimOrRecord(t) \/ WriteRejected(t)
  \/ \E i \in Ids : BecomeDue(i) /\ UNCHANGED sources
  \/ \E p \in Procs : ProcessDies(p)
  \/ RemoteChanges \/ RowDeleted

\* That of JobQueue, with the handler's steps for its handler, and an audit sink
\* that began goes on.
FairnessSources ==
  /\ \A t \in Ticks : WF_all(SourceRun(t) \/ ClaimOrRecord(t))
  /\ \A i \in Ids : WF_all(BecomeDue(i) /\ UNCHANGED sources)
  /\ \A e \in Enqueuers : WF_all(InsertStep(e)) /\ WF_all(EnqueueEnrichment(e))

SourcesSpec == InitSources /\ [][NextSources]_all /\ FairnessSources

-----------------------------------------------------------------------------
(* Properties                                                              *)

\* Every variable beside the queue's has its type.
SourcesTypeOK ==
  /\ bound \in Bounds
  /\ table \in Seq(Synced) /\ remote \in Nat /\ row \in Enriched
  /\ sink \subseteq Enqueuers
  /\ work \in [Ticks -> Run]
  /\ peak \in Nat /\ excused \in BOOLEAN

\* The rows a remote record has.
Copies(record) == {i \in DOMAIN table : table[i].record = record}

\* "What makes a sync safe to run again" (service.ts:49-53): a remote record has one
\* row, however often runs are retried, repeated or cut short, but for one more per
\* run that was in progress at the same time.
CopiesBounded == \A i \in DOMAIN table : Cardinality(Copies(table[i].record)) <= peak

\* A sync that returns as a success has landed every record it fetched, as new as it
\* fetched it, whatever earlier attempts left undone (sources.server.ts, "the run reads
\* as failed").
SuccessMeansLanded ==
  [][\A t \in Ticks :
       /\ Runs(t, SyncRun) /\ work[t].pc = "match"
       /\ tick'[t].pc = "recording" /\ tick'[t].outcome = "ok"
       => \A record \in ToSet(bound.feed) : \E i \in Copies(record) :
            table[i].version >= work[t].copy \/ peak > 1]_all

\* A row never goes back to an older version of its record unless syncs overlapped.
NeverBackwards ==
  [][\A i \in DOMAIN table : table'[i].version < table[i].version => peak > 1]_all

\* A write of the row is in the end followed by what the source says of it, however
\* edits, retries and duplicated claims interleave: unless the row is gone, a run
\* is dead-lettered or died, or the follow-up was excused.
EventuallyEnriched ==
  <>[](\/ row.output = row.input \/ row.gone \/ excused
       \/ \E i \in Ids : jobs[i].type = EnrichRun /\ (jobs[i].dead \/ Abandoned(i)))
=============================================================================
