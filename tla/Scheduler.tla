----------------------------- MODULE Scheduler -----------------------------
(***************************************************************************)
(* packages/features/src/jobs/scheduler.ts: declared schedules become one  *)
(* keyed job per occurrence.                                               *)
(*                                                                         *)
(* Time is 0..MaxTime and a schedule's calendar is the set Calendar[s] of  *)
(* the instants it falls due.  A tick of the scheduler reads the active    *)
(* schedules, and for each of them finds where to start looking (the       *)
(* newest job row, the in-process watermark, else now), enqueues the       *)
(* occurrences up to the instant the tick was given, and only then moves   *)
(* the watermark.  start() calls tick() from setInterval and does not wait *)
(* for it, so ticks of one process overlap; every process has a scheduler. *)
(* JobQueue.enqueue is one step here: with an idempotency key it adds the  *)
(* row or answers the one there is (module JobQueue, EnqueueAgreement).    *)
(***************************************************************************)
EXTENDS Integers, FiniteSets, Sequences, FiniteSetsExt

CONSTANTS
  Schedules,     \* keys of the declared schedules
  Order,         \* the sequence in which the spec lists them
  Calendar,      \* schedule -> the instants it falls due
  MaxTime,       \* bound: the clock stops there
  CatchUpLimit,  \* most occurrences one tick catches up for a schedule
  Ticks,         \* concurrent calls of tick()
  Procs,         \* processes, each with its own scheduler
  ProcOf,        \* the process of a tick
  MaxCrashes,    \* bound: process deaths
  MaxRejects,    \* bound: enqueues the store rejects
  MaxPauses      \* bound: uses of schedules.pause

Time == 0..MaxTime
Never == -1

ASSUME ConstantsAssumption ==
  /\ MaxTime \in Nat /\ CatchUpLimit \in Nat \ {0}
  /\ MaxCrashes \in Nat /\ MaxRejects \in Nat /\ MaxPauses \in Nat
  /\ Order \in Seq(Schedules)
  /\ Calendar \in [Schedules -> SUBSET Time]
  /\ ProcOf \in [Ticks -> Procs]

VARIABLES
  now,       \* the wall clock
  paused,    \* the schedules that are paused
  rows,      \* the job table: schedule -> occurrence -> createdAt, or Never
  mark,      \* Scheduler.watermark of each process, Never when absent
  tick,      \* the calls in progress
  watched,   \* history: the first instant a finished tick looked at a schedule
  horizon,   \* history: the last instant a finished tick looked up to
  dropped,   \* history: occurrences the catch-up bound discarded
  overlapped, \* history: a tick has started while another was in progress
  crashes, rejects, pauses

history == <<watched, horizon, dropped, overlapped>>
faults  == <<crashes, rejects, pauses>>
vars == <<now, paused, rows, mark, tick, history, faults>>

-----------------------------------------------------------------------------
Instant == Time \cup {Never}

Tick == [pc      : {"idle", "reading", "asking", "planning", "enqueuing"},
         at      : Time,              \* the tick's `now`
         todo    : Seq(Schedules),    \* the schedules left, the current one first
         durable : Instant,           \* lastScheduledFor()
         pending : SUBSET Time]       \* occurrences still to enqueue

NoTick == [pc |-> "idle", at |-> 0, todo |-> <<>>, durable |-> Never,
           pending |-> {}]

Enqueued(s) == {o \in Calendar[s] : rows[s][o] # Never}

\* The rows with the newest createdAt.
Newest(s) == {o \in Enqueued(s) : \A q \in Enqueued(s) : rows[s][q] <= rows[s][o]}

\* store.list({scheduleKey, limit: 1}) answers one of them, or that there is none.
LastScheduledFor(s) == IF Enqueued(s) = {} THEN {Never} ELSE Newest(s)

\* Mutant: the job table is not asked.
ForgetsTheTable(s, durable, inProcess, at) == IF inProcess = Never THEN at ELSE inProcess
\* Mutant: a schedule that never fired starts at the beginning of time.
FromDeclaration(s, durable, inProcess, at) ==
  IF durable = Never /\ inProcess = Never THEN Never ELSE Max({durable, inProcess})

\* The instant to start looking from: the later of the newest row and the
\* watermark, and `now` when there is neither.
Since(s, durable, inProcess, at) ==
  IF durable = Never /\ inProcess = Never THEN at ELSE Max({durable, inProcess})

\* Every occurrence in (after, until].
Due(s, after, until) == {o \in Calendar[s] : after < o /\ o <= until}

\* ... of which occurrencesBetween keeps the most recent `limit`.
Recent(due) == {o \in due : Cardinality({q \in due : q > o}) < CatchUpLimit}

-----------------------------------------------------------------------------
\* `now` is the tick's argument: it is taken before the schedules are read.
Start(t) ==
  /\ tick[t].pc = "idle"
  /\ tick' = [tick EXCEPT ![t] = [NoTick EXCEPT !.pc = "reading", !.at = now]]
  /\ overlapped' = (overlapped \/ \E u \in Ticks \ {t} : tick[u].pc # "idle")
  /\ UNCHANGED <<now, paused, rows, mark, watched, horizon, dropped, faults>>

\* A tick goes on to the next schedule, or returns its results.
Advance(t, todo) ==
  tick' = [tick EXCEPT ![t] =
             IF todo = <<>> THEN NoTick
             ELSE [NoTick EXCEPT !.pc = "asking", !.at = tick[t].at, !.todo = todo]]

\* The first n schedules of the spec, without the paused ones.
ActiveAmong ==
  LET active[n \in 0..Len(Order)] ==
        IF n = 0 THEN <<>>
        ELSE IF Order[n] \in paused THEN active[n - 1] ELSE Append(active[n - 1], Order[n])
  IN  active

\* The active schedules of the spec as it is now, in its order.
ActiveSchedules == ActiveAmong[Len(Order)]

ReadSchedules(t) ==
  /\ tick[t].pc = "reading"
  /\ Advance(t, ActiveSchedules)
  /\ UNCHANGED <<now, paused, rows, mark, history, faults>>

\* `await this.lastScheduledFor(key)`
AskTable(t) ==
  /\ tick[t].pc = "asking"
  /\ \E o \in LastScheduledFor(Head(tick[t].todo)) :
       tick' = [tick EXCEPT ![t].pc = "planning", ![t].durable = o]
  /\ UNCHANGED <<now, paused, rows, mark, history, faults>>

\* Mutant: the watermark moves before the occurrences are enqueued.
PlanAndMark(t) ==
  /\ tick[t].pc = "planning"
  /\ LET s   == Head(tick[t].todo)
         due == Due(s, Since(s, tick[t].durable, mark[ProcOf[t]][s], tick[t].at),
                    tick[t].at)
     IN  /\ tick' = [tick EXCEPT ![t].pc = "enqueuing", ![t].pending = Recent(due)]
         /\ dropped' = dropped \cup {<<s, o>> : o \in due \ Recent(due)}
         /\ mark' = [mark EXCEPT ![ProcOf[t]][s] = tick[t].at]
  /\ UNCHANGED <<now, paused, rows, watched, horizon, overlapped, faults>>

\* The watermark is read when the answer has come, and the window computed.
Plan(t) ==
  /\ tick[t].pc = "planning"
  /\ LET s   == Head(tick[t].todo)
         due == Due(s, Since(s, tick[t].durable, mark[ProcOf[t]][s], tick[t].at),
                    tick[t].at)
     IN  /\ tick' = [tick EXCEPT ![t].pc = "enqueuing", ![t].pending = Recent(due)]
         /\ dropped' = dropped \cup {<<s, o>> : o \in due \ Recent(due)}
  /\ UNCHANGED <<now, paused, rows, mark, watched, horizon, overlapped, faults>>

\* Oldest first.
NextPending(t) == Min(tick[t].pending)

\* `await this.queue.enqueue(...)` with the occurrence's key.
EnqueueNext(t) ==
  /\ tick[t].pc = "enqueuing" /\ tick[t].pending # {}
  /\ LET s == Head(tick[t].todo)
         o == NextPending(t)
     IN  /\ rows' = [rows EXCEPT ![s][o] = IF @ = Never THEN now ELSE @]
         /\ tick' = [tick EXCEPT ![t].pending = @ \ {o}]
  /\ UNCHANGED <<now, paused, mark, history, faults>>

\* The store rejects an enqueue: the whole tick rejects, the results of the
\* schedules before it included, and start() voids the promise.
EnqueueRejected(t) ==
  /\ rejects < MaxRejects
  /\ tick[t].pc = "enqueuing" /\ tick[t].pending # {}
  /\ tick' = [tick EXCEPT ![t] = NoTick]
  /\ rejects' = rejects + 1
  /\ UNCHANGED <<now, paused, rows, mark, history, crashes, pauses>>

NewMark(t) == tick[t].at

\* `this.watermark.set(key, now)` and on to the next schedule.
Finish(t) ==
  /\ tick[t].pc = "enqueuing" /\ tick[t].pending = {}
  /\ LET s == Head(tick[t].todo)
         at == tick[t].at
     IN  /\ mark' = [mark EXCEPT ![ProcOf[t]][s] = NewMark(t)]
         /\ watched' = [watched EXCEPT ![s] = IF @ = Never THEN at ELSE Min({@, at})]
         /\ horizon' = [horizon EXCEPT ![s] = Max({@, at})]
         /\ Advance(t, Tail(tick[t].todo))
  /\ UNCHANGED <<now, paused, rows, dropped, overlapped, faults>>

-----------------------------------------------------------------------------
Clock ==
  /\ now < MaxTime
  /\ now' = now + 1
  /\ UNCHANGED <<paused, rows, mark, tick, history, faults>>

\* schedules.pause, which stops or resumes a schedule.
Pause(s) ==
  /\ pauses < MaxPauses
  /\ paused' = IF s \in paused THEN paused \ {s} ELSE paused \cup {s}
  /\ pauses' = pauses + 1
  /\ UNCHANGED <<now, rows, mark, tick, history, crashes, rejects>>

\* A process dies and comes back: its watermarks and ticks are gone.
Crash(p) ==
  /\ crashes < MaxCrashes
  /\ mark' = [mark EXCEPT ![p] = [s \in Schedules |-> Never]]
  /\ tick' = [t \in Ticks |-> IF ProcOf[t] = p THEN NoTick ELSE tick[t]]
  /\ crashes' = crashes + 1
  /\ UNCHANGED <<now, paused, rows, history, rejects, pauses>>

Init ==
  /\ now = 0
  /\ paused \in SUBSET Schedules
  /\ rows = [s \in Schedules |-> [o \in Calendar[s] |-> Never]]
  /\ mark = [p \in Procs |-> [s \in Schedules |-> Never]]
  /\ tick = [t \in Ticks |-> NoTick]
  /\ watched = [s \in Schedules |-> Never]
  /\ horizon = [s \in Schedules |-> Never]
  /\ dropped = {} /\ overlapped = FALSE
  /\ crashes = 0 /\ rejects = 0 /\ pauses = 0

TickStep(t) == \/ Start(t) \/ ReadSchedules(t) \/ AskTable(t)
               \/ Plan(t) \/ EnqueueNext(t) \/ Finish(t)

Next ==
  \/ \E t \in Ticks : TickStep(t) \/ EnqueueRejected(t)
  \/ Clock
  \/ \E s \in Schedules : Pause(s)
  \/ \E p \in Procs : Crash(p)

Spec == Init /\ [][Next]_vars

\* setInterval keeps calling tick(), and every call of the store returns.
FairSpec == Spec /\ \A t \in Ticks : WF_vars(TickStep(t))

-----------------------------------------------------------------------------
(* Properties                                                              *)

\* Every variable has its type.
TypeOK ==
  /\ now \in Time /\ paused \subseteq Schedules
  /\ \A s \in Schedules : rows[s] \in [Calendar[s] -> Instant]
  /\ mark \in [Procs -> [Schedules -> Instant]]
  /\ tick \in [Ticks -> Tick]
  /\ watched \in [Schedules -> Instant] /\ horizon \in [Schedules -> Instant]
  /\ dropped \subseteq Schedules \X Time /\ overlapped \in BOOLEAN

\* An occurrence that has its job, or that the catch-up bound discarded.
Decided(s, o) == o \in Enqueued(s) \/ <<s, o>> \in dropped

\* ... or that is still to come: a tick in progress is about to enqueue it, or the
\* next tick of some process starts looking before it, whichever row it is answered.
Ahead(s, o) ==
  \/ \E t \in Ticks : o \in tick[t].pending /\ Head(tick[t].todo) = s
  \/ \E p \in Procs : \A newest \in LastScheduledFor(s) :
       o > Since(s, newest, mark[p][s], now)

Accounted(s, o) == Decided(s, o) \/ Ahead(s, o)

\* No occurrence is lost: one that fell due after the scheduler first looked at
\* the schedule has its job, was discarded by the catch-up bound, or will still
\* be found.
NoLostOccurrence ==
  \A s \in Schedules : watched[s] # Never =>
    \A o \in Due(s, watched[s], now) : Accounted(s, o)

\* ... which holds as long as no process has died and no two ticks have overlapped
\* (scheduler.ts, tick: the watermark moves once the enqueues have returned).
NoLossInSequence == crashes = 0 /\ ~ overlapped => NoLostOccurrence

\* A schedule never backfills: no job for an occurrence at or before the first
\* instant a finished tick looked at it (scheduler.ts, since(): "how a scheduling
\* feature becomes an incident").
NoBackfill ==
  \A s \in Schedules : \A o \in Enqueued(s) :
    watched[s] # Never /\ watched[s] < o

\* An occurrence that falls due once the schedule has fired, and while it is not
\* paused, is in the end enqueued or discarded, whatever crashes.
EventuallyAccounted ==
  \A s \in Schedules, o \in Time :
    (/\ o \in Calendar[s] /\ o <= now
     /\ \E f \in Enqueued(s) : f < o)
      ~> (Decided(s, o) \/ s \in paused)
=============================================================================
