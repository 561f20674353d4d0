----------------------------- MODULE ClockProofs -----------------------------
(***************************************************************************)
(* Theorems about the two components that live by the clock.               *)
(*                                                                         *)
(* Scheduler, for every calendar and any number of schedules and ticks.    *)
(* That nothing is backfilled holds for any number                         *)
(* of processes, whatever crashes, overlaps or is rejected; that nothing   *)
(* is lost holds for one process, as long as it lives and its ticks do not *)
(* overlap.  With two it fails even in sequence: the first tick of the     *)
(* second starts at its own now, and the row it then adds moves the first  *)
(* process past an occurrence that neither enqueued.                       *)
(*                                                                         *)
(* Coordination, for any number of buckets, instances and callers, any     *)
(* skew of their clocks, any budgets and any order of the statements.      *)
(***************************************************************************)
EXTENDS Scheduler, Coordination, WellFoundedInduction, FiniteSetTheorems, TLAPS

(***************************************************************************)
(* Part 1.  The schedules.                                                 *)
(***************************************************************************)

-----------------------------------------------------------------------------
(* Min and Max of FiniteSetsExt choose an element: there is one to choose.  *)

\* A non-empty set of naturals has a least element.
LEMMA MinOfNats ==
  ASSUME NEW S, S \subseteq Nat, S # {}
  PROVE  Min(S) \in S /\ \A y \in S : Min(S) <= y
<1>1. PICK x \in S : \A y \in S : ~ (<<y, x>> \in OpToRel(<, Nat))
  BY NatLessThanWellFounded, WFMin, Zenon
<1>2. \A y \in S : ~ (y < x)
  BY <1>1 DEF OpToRel
<1>3. \A y \in S : x <= y
  BY <1>2
<1> QED BY <1>3 DEF Min

\* The larger of two integers.
LEMMA MaxOfTwo ==
  ASSUME NEW a \in Int, NEW b \in Int
  PROVE  Max({a, b}) \in {a, b} /\ Max({a, b}) >= a /\ Max({a, b}) >= b
<1>1. \E x \in {a, b} : \A y \in {a, b} : x >= y
  OBVIOUS
<1> QED BY <1>1 DEF Max

-----------------------------------------------------------------------------
(* The inductive invariant.  The sequences tick[t].todo are left untyped    *)
(* here: nothing below depends on what they list.                           *)

\* r has the fields of a Tick, whatever sequence its `todo` is.
HasTickFields(r) ==
  r \in [pc : {r.pc}, at : Time, todo : {r.todo}, durable : {r.durable},
         pending : {r.pending}]

TablesOK ==
  /\ now \in Time
  /\ rows = [s \in Schedules |-> rows[s]]
  /\ \A s \in Schedules : rows[s] \in [Calendar[s] -> Instant]
  /\ mark \in [Procs -> [Schedules -> Instant]]
  /\ watched \in [Schedules -> Instant]
  /\ tick = [t \in Ticks |-> tick[t]]
  /\ \A t \in Ticks : HasTickFields(tick[t])

\* The schedule was first looked at before o.
WatchedBefore(s, o) == watched[s] # Never /\ watched[s] < o

\* A watermark is the instant of some tick that looked at the schedule.
MarkWatched(p, s) ==
  mark[p][s] # Never => watched[s] # Never /\ watched[s] <= mark[p][s]

\* The answer a tick waits for is a row of the table, and the occurrences it is
\* about to enqueue fall due after the schedule was first looked at.
PlanKept(t, s) ==
  Head(tick[t].todo) = s =>
    /\ tick[t].durable \in Enqueued(s) \cup {Never}
    /\ \A o \in tick[t].pending : o \in Calendar[s] /\ WatchedBefore(s, o)

BackfillInv ==
  /\ TablesOK
  /\ NoBackfill
  /\ \A p \in Procs, s \in Schedules : MarkWatched(p, s)
  /\ \A t \in Ticks, s \in Schedules : PlanKept(t, s)

-----------------------------------------------------------------------------
(* What a step leaves true of the ticks that do not take it.                *)

\* Rows are added and the first instant a schedule was looked at moves back only.
Grows ==
  \A s \in Schedules :
    /\ Enqueued(s) \subseteq Enqueued(s)'
    /\ watched[s] # Never => watched'[s] # Never /\ watched'[s] <= watched[s]

LEMMA CalendarIsTime ==
  ASSUME NEW s \in Schedules, NEW o \in Calendar[s]
  PROVE  o \in Nat /\ o \in Int /\ o # Never
<1>1. o \in Time
  BY ConstantsAssumption
<1>2. QED BY <1>1, ConstantsAssumption DEF Time, Never

LEMMA InstantIsInt ==
  ASSUME NEW i \in Instant
  PROVE  i \in Int /\ (i # Never => i \in Time /\ i \in Nat)
BY ConstantsAssumption DEF Instant, Time, Never

LEMMA WatchedBeforeKept ==
  ASSUME TablesOK, TablesOK', Grows, NEW s \in Schedules, NEW o \in Calendar[s],
         WatchedBefore(s, o)
  PROVE  WatchedBefore(s, o)'
<1>1. watched[s] \in Int /\ watched'[s] \in Int /\ o \in Int
  BY CalendarIsTime, InstantIsInt DEF TablesOK
<1>2. QED BY <1>1 DEF Grows, WatchedBefore

LEMMA PlanStillKept ==
  ASSUME TablesOK, TablesOK', Grows, NEW t \in Ticks, NEW s \in Schedules,
         PlanKept(t, s), tick'[t] = tick[t]
  PROVE  PlanKept(t, s)'
<1> SUFFICES ASSUME Head(tick[t].todo) = s
             PROVE  /\ tick[t].durable \in Enqueued(s)' \cup {Never}
                    /\ \A o \in tick[t].pending : o \in Calendar[s] /\ WatchedBefore(s, o)'
  BY DEF PlanKept
<1>1. tick[t].durable \in Enqueued(s)' \cup {Never}
  BY DEF PlanKept, Grows
<1>2. ASSUME NEW o \in tick[t].pending PROVE o \in Calendar[s] /\ WatchedBefore(s, o)'
  BY WatchedBeforeKept DEF PlanKept
<1>3. QED BY <1>1, <1>2

LEMMA MarkStillWatched ==
  ASSUME TablesOK, TablesOK', Grows, NEW p \in Procs, NEW s \in Schedules,
         MarkWatched(p, s), mark'[p][s] = mark[p][s]
  PROVE  MarkWatched(p, s)'
<1>1. watched[s] \in Int /\ watched'[s] \in Int /\ mark[p][s] \in Int
  BY InstantIsInt DEF TablesOK
<1>2. QED BY <1>1 DEF MarkWatched, Grows

\* A tick that has no answer and nothing to enqueue keeps its plan.
LEMMA NothingPlanned ==
  ASSUME NEW t \in Ticks, NEW s \in Schedules,
         tick'[t].durable = Never, tick'[t].pending = {}
  PROVE  PlanKept(t, s)'
BY DEF PlanKept

\* Rows and `watched` as they were: nothing to do for rows and watermarks.
LEMMA SameTables ==
  ASSUME BackfillInv, TablesOK', rows' = rows, watched' = watched, mark' = mark
  PROVE  Grows /\ NoBackfill' /\ \A p \in Procs, s \in Schedules : MarkWatched(p, s)'
<1>1. \A s \in Schedules : Enqueued(s)' = Enqueued(s)
  BY DEF Enqueued
<1>2. \A s \in Schedules : watched[s] \in Int
  BY InstantIsInt DEF BackfillInv, TablesOK
<1>3. Grows
  BY <1>1, <1>2 DEF Grows
<1>4. NoBackfill'
  BY <1>1 DEF NoBackfill, BackfillInv
<1>5. QED BY <1>3, <1>4, MarkStillWatched DEF BackfillInv

\* One tick moves, the others stay.
LEMMA OneTickMoves ==
  ASSUME BackfillInv, TablesOK', Grows, NoBackfill',
         \A p \in Procs, s \in Schedules : MarkWatched(p, s)',
         NEW t \in Ticks, \A u \in Ticks \ {t} : tick'[u] = tick[u],
         \A s \in Schedules : PlanKept(t, s)'
  PROVE  BackfillInv'
<1>1. ASSUME NEW u \in Ticks, NEW s \in Schedules PROVE PlanKept(u, s)'
  BY PlanStillKept DEF BackfillInv
<1>2. QED BY <1>1 DEF BackfillInv

\* One row of `tick` is replaced by another.
LEMMA TickReplaced ==
  ASSUME TablesOK, NEW t \in Ticks, NEW row, HasTickFields(row),
         tick' = [tick EXCEPT ![t] = row]
  PROVE  /\ tick' = [u \in Ticks |-> tick'[u]]
         /\ \A u \in Ticks : HasTickFields(tick'[u])
         /\ tick'[t] = row
         /\ \A u \in Ticks \ {t} : tick'[u] = tick[u]
<1>0. DOMAIN tick = Ticks
  <2>1. tick = [u \in Ticks |-> tick[u]]
    BY DEF TablesOK
  <2>2. QED BY <2>1
<1>1. tick' = [u \in Ticks |-> IF u = t THEN row ELSE tick[u]]
  BY <1>0
<1>2. tick' = [u \in Ticks |-> tick'[u]]
  BY <1>1
<1>3. tick'[t] = row /\ \A u \in Ticks \ {t} : tick'[u] = tick[u]
  BY <1>1
<1>4. \A u \in Ticks : HasTickFields(tick'[u])
  BY <1>3 DEF TablesOK
<1>5. QED BY <1>2, <1>3, <1>4

LEMMA NoTickFields ==
  HasTickFields(NoTick) /\ NoTick.durable = Never /\ NoTick.pending = {}
BY ConstantsAssumption DEF NoTick, HasTickFields, Time

\* Going on to the next schedule, or returning, leaves nothing planned.
LEMMA AdvanceMoves ==
  ASSUME TablesOK, NEW t \in Ticks, NEW todo, Advance(t, todo)
  PROVE  /\ tick' = [u \in Ticks |-> tick'[u]]
         /\ \A u \in Ticks : HasTickFields(tick'[u])
         /\ \A u \in Ticks \ {t} : tick'[u] = tick[u]
         /\ tick'[t].durable = Never /\ tick'[t].pending = {}
<1>1. PICK row : /\ tick' = [tick EXCEPT ![t] = row]
                 /\ HasTickFields(row) /\ row.durable = Never /\ row.pending = {}
  <2>1. CASE todo = <<>>
    BY <2>1, NoTickFields DEF Advance
  <2>2. CASE todo # <<>>
    <3>1. PICK row : row = [NoTick EXCEPT !.pc = "asking", !.at = tick[t].at,
                                          !.todo = todo]
      OBVIOUS
    <3>2. tick[t].at \in Time
      BY DEF TablesOK, HasTickFields
    <3>3. HasTickFields(row) /\ row.durable = Never /\ row.pending = {}
      BY <3>1, <3>2 DEF NoTick, HasTickFields
    <3>4. QED BY <2>2, <3>1, <3>3 DEF Advance
  <2>3. QED BY <2>1, <2>2
<1>2. QED BY <1>1, TickReplaced

-----------------------------------------------------------------------------
(* One lemma per action.                                                    *)

LEMMA BackfillInit == Init => BackfillInv
<1> SUFFICES ASSUME Init PROVE BackfillInv
  OBVIOUS
<1>1. \A s \in Schedules : Enqueued(s) = {}
  BY DEF Init, Enqueued
<1>2. TablesOK
  <2>1. Never \in Instant /\ now \in Time
    BY ConstantsAssumption DEF Init, Instant, Time
  <2>2. \A t \in Ticks : HasTickFields(tick[t])
    BY NoTickFields DEF Init
  <2>3. \A s \in Schedules : rows[s] \in [Calendar[s] -> Instant]
    BY <2>1 DEF Init
  <2>4. /\ mark \in [Procs -> [Schedules -> Instant]]
        /\ watched \in [Schedules -> Instant]
    BY <2>1 DEF Init
  <2>5. rows = [s \in Schedules |-> rows[s]] /\ tick = [t \in Ticks |-> tick[t]]
    BY DEF Init
  <2>6. QED BY <2>1, <2>2, <2>3, <2>4, <2>5 DEF TablesOK
<1>3. NoBackfill
  BY <1>1 DEF NoBackfill
<1>4. \A p \in Procs, s \in Schedules : MarkWatched(p, s)
  BY DEF Init, MarkWatched
<1>5. \A t \in Ticks, s \in Schedules : PlanKept(t, s)
  BY NoTickFields DEF Init, PlanKept
<1>6. QED BY <1>2, <1>3, <1>4, <1>5 DEF BackfillInv

LEMMA StartKeeps == ASSUME BackfillInv, NEW t \in Ticks, Start(t) PROVE BackfillInv'
<1>1. now \in Time /\ TablesOK
  BY DEF BackfillInv, TablesOK
<1>2. PICK row : row = [NoTick EXCEPT !.pc = "reading", !.at = now]
  OBVIOUS
<1>3. HasTickFields(row) /\ row.durable = Never /\ row.pending = {}
  BY <1>1, <1>2 DEF NoTick, HasTickFields
<1>4. tick' = [tick EXCEPT ![t] = row]
  BY <1>2 DEF Start
<1>5. /\ tick' = [u \in Ticks |-> tick'[u]] /\ \A u \in Ticks : HasTickFields(tick'[u])
      /\ tick'[t] = row /\ \A u \in Ticks \ {t} : tick'[u] = tick[u]
  BY <1>1, <1>3, <1>4, TickReplaced
<1>6. UNCHANGED <<now, rows, mark, watched>>
  BY DEF Start, history
<1>7. TablesOK'
  BY <1>1, <1>5, <1>6 DEF TablesOK
<1>8. \A s \in Schedules : PlanKept(t, s)'
  BY <1>3, <1>5, NothingPlanned
<1>9. Grows /\ NoBackfill' /\ \A p \in Procs, s \in Schedules : MarkWatched(p, s)'
  BY <1>6, <1>7, SameTables
<1>10. QED BY <1>5, <1>7, <1>8, <1>9, OneTickMoves

LEMMA ReadSchedulesKeeps ==
  ASSUME BackfillInv, NEW t \in Ticks, ReadSchedules(t) PROVE BackfillInv'
<1>1. TablesOK /\ Advance(t, ActiveSchedules)
  BY DEF BackfillInv, ReadSchedules
<1>2. /\ tick' = [u \in Ticks |-> tick'[u]] /\ \A u \in Ticks : HasTickFields(tick'[u])
      /\ \A u \in Ticks \ {t} : tick'[u] = tick[u]
      /\ tick'[t].durable = Never /\ tick'[t].pending = {}
  BY <1>1, AdvanceMoves
<1>3. TablesOK'
  BY <1>1, <1>2 DEF TablesOK, ReadSchedules, history
<1>4. \A s \in Schedules : PlanKept(t, s)'
  BY <1>2, NothingPlanned
<1>5. Grows /\ NoBackfill' /\ \A p \in Procs, s \in Schedules : MarkWatched(p, s)'
  BY <1>3, SameTables DEF ReadSchedules, history
<1>6. QED BY <1>2, <1>3, <1>4, <1>5, OneTickMoves

LEMMA AskTableKeeps ==
  ASSUME BackfillInv, NEW t \in Ticks, AskTable(t) PROVE BackfillInv'
<1>1. PICK o \in LastScheduledFor(Head(tick[t].todo)) :
        tick' = [tick EXCEPT ![t].pc = "planning", ![t].durable = o]
  BY DEF AskTable
<1>2. o \in Enqueued(Head(tick[t].todo)) \cup {Never}
  BY <1>1 DEF Newest, LastScheduledFor
<1>3. UNCHANGED <<now, rows, mark, watched>>
  BY DEF AskTable, history
<1>4. TablesOK /\ HasTickFields(tick[t])
  BY DEF BackfillInv, TablesOK
<1>5. PICK row : row = [tick[t] EXCEPT !.pc = "planning", !.durable = o]
  OBVIOUS
<1>6. /\ HasTickFields(row) /\ row.durable = o
      /\ row.pending = tick[t].pending /\ row.todo = tick[t].todo
  BY <1>4, <1>5 DEF HasTickFields
<1>7. tick' = [tick EXCEPT ![t] = row]
  BY <1>1, <1>5
<1>8. /\ tick' = [u \in Ticks |-> tick'[u]] /\ \A u \in Ticks : HasTickFields(tick'[u])
      /\ tick'[t] = row /\ \A u \in Ticks \ {t} : tick'[u] = tick[u]
  BY <1>4, <1>6, <1>7, TickReplaced
<1>9. TablesOK'
  BY <1>3, <1>4, <1>8 DEF TablesOK
<1>10. Grows /\ NoBackfill' /\ \A p \in Procs, s \in Schedules : MarkWatched(p, s)'
  BY <1>3, <1>9, SameTables
<1>11. ASSUME NEW s \in Schedules PROVE PlanKept(t, s)'
  <2> SUFFICES ASSUME Head(tick[t].todo) = s
               PROVE  /\ o \in Enqueued(s)' \cup {Never}
                      /\ \A x \in tick[t].pending : x \in Calendar[s] /\ WatchedBefore(s, x)'
    BY <1>6, <1>8 DEF PlanKept
  <2>1. Enqueued(s)' = Enqueued(s)
    BY <1>3 DEF Enqueued
  <2>2. \A x \in tick[t].pending : x \in Calendar[s] /\ WatchedBefore(s, x)
    BY DEF BackfillInv, PlanKept
  <2>3. \A x : WatchedBefore(s, x)' = WatchedBefore(s, x)
    BY <1>3 DEF WatchedBefore
  <2>4. QED BY <1>2, <2>1, <2>2, <2>3
<1>12. QED BY <1>8, <1>9, <1>10, <1>11, OneTickMoves

\* Every occurrence of the window a tick computes falls due after the schedule was
\* first looked at: it starts at a row or at a watermark, or it is empty.
LEMMA WindowWatched ==
  ASSUME BackfillInv, NEW t \in Ticks, NEW s \in Schedules, Head(tick[t].todo) = s,
         NEW o \in Due(s, Since(s, tick[t].durable, mark[ProcOf[t]][s], tick[t].at),
                       tick[t].at)
  PROVE  o \in Calendar[s] /\ WatchedBefore(s, o)
<1> DEFINE d == tick[t].durable
           m == mark[ProcOf[t]][s]
           w == watched[s]
<1>1. d \in Enqueued(s) \cup {Never}
  BY DEF BackfillInv, PlanKept
<1>2. ProcOf[t] \in Procs
  BY ConstantsAssumption
<1>3. m \in Int /\ w \in Int
  BY <1>2, InstantIsInt DEF BackfillInv, TablesOK
<1>4. tick[t].at \in Int
  BY ConstantsAssumption DEF BackfillInv, TablesOK, HasTickFields, Time
<1>5. o \in Calendar[s] /\ o \in Int
  BY CalendarIsTime DEF Due
<1>6. d \in Int
  BY <1>1, CalendarIsTime DEF Enqueued, Never
<1>7. d # Never => w # Never /\ w < d
  BY <1>1 DEF BackfillInv, NoBackfill
<1>8. m # Never => w # Never /\ w <= m
  BY <1>2 DEF BackfillInv, MarkWatched
<1>9. Since(s, d, m, tick[t].at) < o /\ o <= tick[t].at
  BY DEF Due
<1> HIDE DEF d, m, w
<1>10. ~ (d = Never /\ m = Never)
  BY <1>4, <1>5, <1>9 DEF Since
<1>11. Max({d, m}) < o
  BY <1>9, <1>10 DEF Since
<1>12. Max({d, m}) \in {d, m} /\ Max({d, m}) >= d /\ Max({d, m}) >= m
  BY <1>3, <1>6, MaxOfTwo
<1>13. d < o /\ m < o
  <2>1. Max({d, m}) \in Int
    BY <1>3, <1>6, <1>12
  <2>2. QED BY <1>3, <1>5, <1>6, <1>11, <1>12, <2>1
<1>14. w # Never /\ w < o
  BY <1>3, <1>5, <1>6, <1>7, <1>8, <1>10, <1>13
<1>15. QED BY <1>5, <1>14 DEF WatchedBefore, w

LEMMA PlanKeeps == ASSUME BackfillInv, NEW t \in Ticks, Plan(t) PROVE BackfillInv'
<1>1. PICK s, due :
        /\ s = Head(tick[t].todo)
        /\ due = Due(s, Since(s, tick[t].durable, mark[ProcOf[t]][s], tick[t].at), tick[t].at)
        /\ tick' = [tick EXCEPT ![t].pc = "enqueuing", ![t].pending = Recent(due)]
  BY DEF Plan
<1>2. Recent(due) \subseteq due
  BY DEF Recent
<1>3. UNCHANGED <<now, rows, mark, watched>>
  BY DEF Plan
<1>4. TablesOK /\ HasTickFields(tick[t])
  BY DEF BackfillInv, TablesOK
<1>5. PICK row : row = [tick[t] EXCEPT !.pc = "enqueuing", !.pending = Recent(due)]
  OBVIOUS
<1>6. /\ HasTickFields(row) /\ row.durable = tick[t].durable
      /\ row.pending = Recent(due) /\ row.todo = tick[t].todo
  BY <1>4, <1>5 DEF HasTickFields
<1>7. tick' = [tick EXCEPT ![t] = row]
  BY <1>1, <1>5
<1>8. /\ tick' = [u \in Ticks |-> tick'[u]] /\ \A u \in Ticks : HasTickFields(tick'[u])
      /\ tick'[t] = row /\ \A u \in Ticks \ {t} : tick'[u] = tick[u]
  BY <1>4, <1>6, <1>7, TickReplaced
<1>9. TablesOK'
  BY <1>3, <1>4, <1>8 DEF TablesOK
<1>10. Grows /\ NoBackfill' /\ \A p \in Procs, q \in Schedules : MarkWatched(p, q)'
  BY <1>3, <1>9, SameTables
<1>11. ASSUME NEW q \in Schedules PROVE PlanKept(t, q)'
  <2> SUFFICES ASSUME s = q
               PROVE  /\ tick[t].durable \in Enqueued(q)' \cup {Never}
                      /\ \A o \in Recent(due) : o \in Calendar[q] /\ WatchedBefore(q, o)'
    BY <1>1, <1>6, <1>8 DEF PlanKept
  <2>1. Enqueued(q)' = Enqueued(q)
    BY <1>3 DEF Enqueued
  <2>2. \A o \in due : o \in Calendar[q] /\ WatchedBefore(q, o)
    BY <1>1, WindowWatched
  <2>3. \A o : WatchedBefore(q, o)' = WatchedBefore(q, o)
    BY <1>3 DEF WatchedBefore
  <2>4. tick[t].durable \in Enqueued(q) \cup {Never}
    BY <1>1 DEF BackfillInv, PlanKept
  <2>5. QED BY <1>2, <2>1, <2>2, <2>3, <2>4
<1>12. QED BY <1>8, <1>9, <1>10, <1>11, OneTickMoves

\* The oldest of the pending occurrences gets its row, and no other.
LEMMA EnqueueNextRows ==
  ASSUME BackfillInv, NEW t \in Ticks, EnqueueNext(t),
         NEW s, s = Head(tick[t].todo), NEW o, o = NextPending(t)
  PROVE  /\ s \in Schedules =>
              /\ o \in Calendar[s] /\ WatchedBefore(s, o) /\ o \in tick[t].pending
              /\ \A x \in tick[t].pending : x \in Calendar[s] /\ o <= x
         /\ rows' = [q \in Schedules |-> rows'[q]]
         /\ \A q \in Schedules : rows'[q] \in [Calendar[q] -> Instant]
         /\ \A q \in Schedules : Enqueued(q)' = Enqueued(q) \cup (IF q = s THEN {o} ELSE {})
<1>1. /\ s = Head(tick[t].todo) /\ o = NextPending(t)
      /\ rows' = [rows EXCEPT ![s][o] = IF @ = Never THEN now ELSE @]
  BY DEF EnqueueNext
<1>2. tick[t].pending # {} /\ UNCHANGED <<now, mark, watched>>
  BY DEF EnqueueNext, history
<1>3. TablesOK /\ HasTickFields(tick[t])
  BY DEF BackfillInv, TablesOK
<1>4. ASSUME s \in Schedules
      PROVE  /\ o \in Calendar[s] /\ WatchedBefore(s, o) /\ o \in tick[t].pending
             /\ \A x \in tick[t].pending : x \in Calendar[s] /\ o <= x
  <2>1. \A x \in tick[t].pending : x \in Calendar[s] /\ WatchedBefore(s, x)
    BY <1>1, <1>4 DEF BackfillInv, PlanKept
  <2>2. tick[t].pending \subseteq Nat
    BY <1>4, <2>1, CalendarIsTime
  <2>3. /\ Min(tick[t].pending) \in tick[t].pending
        /\ \A x \in tick[t].pending : Min(tick[t].pending) <= x
    BY <1>2, <2>2, MinOfNats
  <2>4. QED BY <1>1, <2>1, <2>3 DEF NextPending
<1>5. /\ rows' = [q \in Schedules |-> rows'[q]]
      /\ \A q \in Schedules : rows'[q] \in [Calendar[q] -> Instant]
      /\ \A q \in Schedules : Enqueued(q)' = Enqueued(q) \cup (IF q = s THEN {o} ELSE {})
  <2>0. now \in Instant /\ now # Never
    BY <1>3, ConstantsAssumption DEF TablesOK, Instant, Time, Never
  <2>1. DOMAIN rows = Schedules
    <3>1. rows = [q \in Schedules |-> rows[q]]
      BY <1>3 DEF TablesOK
    <3>2. QED BY <3>1
  <2>2. rows' = [q \in Schedules |->
                   IF q = s THEN [rows[s] EXCEPT ![o] = IF @ = Never THEN now ELSE @]
                   ELSE rows[q]]
    BY <1>1, <2>1
  <2>3. \A q \in Schedules : q # s => rows'[q] = rows[q]
    BY <2>2
  <2>4. ASSUME s \in Schedules
        PROVE  /\ rows'[s] \in [Calendar[s] -> Instant]
               /\ Enqueued(s)' = Enqueued(s) \cup {o}
    <3>1. rows[s] \in [Calendar[s] -> Instant] /\ o \in Calendar[s]
      BY <1>3, <1>4, <2>4 DEF TablesOK
    <3>2. rows'[s] = [x \in Calendar[s] |->
                        IF x = o /\ rows[s][x] = Never THEN now ELSE rows[s][x]]
      BY <2>2, <2>4, <3>1
    <3>3. rows'[s] \in [Calendar[s] -> Instant]
      BY <2>0, <3>1, <3>2
    <3>4. \A x \in Calendar[s] : rows'[s][x] # Never <=> rows[s][x] # Never \/ x = o
      BY <2>0, <3>2
    <3>5. QED BY <3>1, <3>3, <3>4 DEF Enqueued
  <2>5. ASSUME NEW q \in Schedules, q # s
        PROVE  rows'[q] \in [Calendar[q] -> Instant] /\ Enqueued(q)' = Enqueued(q)
    BY <1>3, <2>3, <2>5 DEF TablesOK, Enqueued
  <2>6. rows' = [q \in Schedules |-> rows'[q]]
    BY <2>2
  <2>7. QED BY <2>4, <2>5, <2>6
<1>6. QED BY <1>4, <1>5

LEMMA EnqueueNextKeeps ==
  ASSUME BackfillInv, NEW t \in Ticks, EnqueueNext(t) PROVE BackfillInv'
<1>1. PICK s, o :
        /\ s = Head(tick[t].todo) /\ o = NextPending(t)
        /\ tick' = [tick EXCEPT ![t].pending = @ \ {o}]
  BY DEF EnqueueNext
<1>2. UNCHANGED <<now, mark, watched>>
  BY DEF EnqueueNext, history
<1>3. TablesOK /\ HasTickFields(tick[t])
  BY DEF BackfillInv, TablesOK
<1>4. s \in Schedules => o \in Calendar[s] /\ WatchedBefore(s, o)
  BY <1>1, EnqueueNextRows
<1>5. /\ rows' = [q \in Schedules |-> rows'[q]]
      /\ \A q \in Schedules : rows'[q] \in [Calendar[q] -> Instant]
      /\ \A q \in Schedules : Enqueued(q)' = Enqueued(q) \cup (IF q = s THEN {o} ELSE {})
  BY <1>1, EnqueueNextRows
<1>6. PICK row : row = [tick[t] EXCEPT !.pending = @ \ {o}]
  OBVIOUS
<1>7. /\ HasTickFields(row) /\ row.durable = tick[t].durable
      /\ row.pending = tick[t].pending \ {o} /\ row.todo = tick[t].todo
  BY <1>3, <1>6 DEF HasTickFields
<1>8. tick' = [tick EXCEPT ![t] = row]
  BY <1>1, <1>6
<1>9. /\ tick' = [u \in Ticks |-> tick'[u]] /\ \A u \in Ticks : HasTickFields(tick'[u])
      /\ tick'[t] = row /\ \A u \in Ticks \ {t} : tick'[u] = tick[u]
  BY <1>3, <1>7, <1>8, TickReplaced
<1>10. TablesOK'
  BY <1>2, <1>3, <1>5, <1>9 DEF TablesOK
<1>11. Grows
  <2>1. \A q \in Schedules : watched[q] \in Int
    BY <1>3, InstantIsInt DEF TablesOK
  <2>2. QED BY <1>2, <1>5, <2>1 DEF Grows
<1>12. NoBackfill'
  BY <1>2, <1>4, <1>5 DEF NoBackfill, BackfillInv, WatchedBefore
<1>13. \A p \in Procs, q \in Schedules : MarkWatched(p, q)'
  BY <1>2 DEF MarkWatched, BackfillInv
<1>14. ASSUME NEW q \in Schedules PROVE PlanKept(t, q)'
  <2>1. \A x : WatchedBefore(q, x)' = WatchedBefore(q, x)
    BY <1>2 DEF WatchedBefore
  <2>2. PlanKept(t, q)
    BY DEF BackfillInv
  <2>3. QED BY <1>5, <1>7, <1>9, <2>1, <2>2 DEF PlanKept
<1>15. QED BY <1>9, <1>10, <1>11, <1>12, <1>13, <1>14, OneTickMoves

LEMMA EnqueueRejectedKeeps ==
  ASSUME BackfillInv, NEW t \in Ticks, EnqueueRejected(t) PROVE BackfillInv'
<1>1. TablesOK /\ tick' = [tick EXCEPT ![t] = NoTick]
  BY DEF BackfillInv, EnqueueRejected
<1>2. UNCHANGED <<now, rows, mark, watched>>
  BY DEF EnqueueRejected, history
<1>3. /\ tick' = [u \in Ticks |-> tick'[u]] /\ \A u \in Ticks : HasTickFields(tick'[u])
      /\ tick'[t] = NoTick /\ \A u \in Ticks \ {t} : tick'[u] = tick[u]
  BY <1>1, NoTickFields, TickReplaced
<1>4. TablesOK'
  BY <1>1, <1>2, <1>3 DEF TablesOK
<1>5. Grows /\ NoBackfill' /\ \A p \in Procs, s \in Schedules : MarkWatched(p, s)'
  BY <1>2, <1>4, SameTables
<1>6. \A s \in Schedules : PlanKept(t, s)'
  BY <1>3, NoTickFields, NothingPlanned
<1>7. QED BY <1>3, <1>4, <1>5, <1>6, OneTickMoves

\* The tick's instant becomes the watermark, and the first look if it is earlier.
LEMMA FinishKeeps == ASSUME BackfillInv, NEW t \in Ticks, Finish(t) PROVE BackfillInv'
<1>1. PICK s, at, p :
        /\ at = tick[t].at /\ p = ProcOf[t]
        /\ mark' = [mark EXCEPT ![p][s] = at]
        /\ watched' = [watched EXCEPT ![s] = IF @ = Never THEN at ELSE Min({@, at})]
        /\ Advance(t, Tail(tick[t].todo))
  BY DEF Finish, NewMark
<1>2. UNCHANGED <<now, rows>> /\ TablesOK
  BY DEF Finish, BackfillInv
<1>3. at \in Time /\ at \in Nat /\ at \in Instant /\ at # Never
  <2>1. at \in Time
    BY <1>1, <1>2 DEF TablesOK, HasTickFields
  <2>2. QED BY <2>1, ConstantsAssumption DEF Time, Instant, Never
<1>4. \A q \in Schedules :
        /\ watched[q] \in Int /\ watched[q] \in Instant
        /\ watched[q] # Never => watched[q] \in Nat /\ watched[q] \in Time
  BY <1>2, InstantIsInt DEF TablesOK
<1>5. ASSUME NEW q \in Schedules, q # s PROVE watched'[q] = watched[q]
  BY <1>1, <1>2, <1>5 DEF TablesOK
<1>6. ASSUME s \in Schedules
      PROVE  /\ watched'[s] \in Instant /\ watched'[s] # Never /\ watched'[s] <= at
             /\ watched[s] # Never => watched'[s] <= watched[s]
  <2>1. CASE watched[s] = Never
    <3>1. watched'[s] = at
      BY <1>1, <1>2, <1>6, <2>1 DEF TablesOK
    <3>2. QED BY <1>3, <2>1, <3>1
  <2>2. CASE watched[s] # Never
    <3>1. watched'[s] = Min({watched[s], at})
      BY <1>1, <1>2, <1>6, <2>2 DEF TablesOK
    <3>2. {watched[s], at} \subseteq Nat /\ {watched[s], at} # {}
      BY <1>3, <1>4, <1>6, <2>2
    <3>3. /\ Min({watched[s], at}) \in {watched[s], at}
          /\ \A y \in {watched[s], at} : Min({watched[s], at}) <= y
      BY <3>2, MinOfNats
    <3>4. QED BY <1>3, <1>4, <1>6, <2>2, <3>1, <3>3
  <2>3. QED BY <2>1, <2>2
<1>7. watched' \in [Schedules -> Instant]
  <2>1. watched' = [q \in Schedules |-> watched'[q]]
    BY <1>1, <1>2 DEF TablesOK
  <2>2. \A q \in Schedules : watched'[q] \in Instant
    BY <1>4, <1>5, <1>6
  <2>3. QED BY <2>1, <2>2
<1>8. /\ mark' \in [Procs -> [Schedules -> Instant]]
      /\ \A r \in Procs, q \in Schedules :
           mark'[r][q] = IF r = p /\ q = s THEN at ELSE mark[r][q]
  BY <1>1, <1>2, <1>3 DEF TablesOK
<1>9. /\ tick' = [u \in Ticks |-> tick'[u]] /\ \A u \in Ticks : HasTickFields(tick'[u])
      /\ \A u \in Ticks \ {t} : tick'[u] = tick[u]
      /\ tick'[t].durable = Never /\ tick'[t].pending = {}
  BY <1>1, <1>2, AdvanceMoves
<1>10. TablesOK'
  BY <1>2, <1>7, <1>8, <1>9 DEF TablesOK
<1>11. \A q \in Schedules : Enqueued(q)' = Enqueued(q)
  BY <1>2 DEF Enqueued
<1>12. Grows
  BY <1>4, <1>5, <1>6, <1>11 DEF Grows
<1>13. NoBackfill'
  <2> SUFFICES ASSUME NEW q \in Schedules, NEW o \in Enqueued(q)
               PROVE  WatchedBefore(q, o)'
    BY <1>11 DEF NoBackfill, WatchedBefore
  <2>1. o \in Calendar[q]
    BY DEF Enqueued
  <2>2. WatchedBefore(q, o)
    BY DEF BackfillInv, NoBackfill, WatchedBefore
  <2>3. QED BY <1>2, <1>10, <1>12, <2>1, <2>2, WatchedBeforeKept
<1>14. ASSUME NEW r \in Procs, NEW q \in Schedules PROVE MarkWatched(r, q)'
  <2>1. CASE r = p /\ q = s
    BY <1>6, <1>8, <2>1 DEF MarkWatched
  <2>2. CASE ~ (r = p /\ q = s)
    <3>1. mark'[r][q] = mark[r][q] /\ MarkWatched(r, q)
      BY <1>8, <2>2 DEF BackfillInv
    <3>2. QED BY <1>2, <1>10, <1>12, <3>1, MarkStillWatched
  <2>3. QED BY <2>1, <2>2
<1>15. \A q \in Schedules : PlanKept(t, q)'
  BY <1>9, NothingPlanned
<1>16. QED BY <1>9, <1>10, <1>12, <1>13, <1>14, <1>15, OneTickMoves

\* The clock, a pause and a stutter leave the tables and the ticks alone.
LEMMA IdleKeeps ==
  ASSUME BackfillInv, now' \in Time, UNCHANGED <<rows, mark, tick, watched>>
  PROVE  BackfillInv'
<1>1. TablesOK'
  BY DEF BackfillInv, TablesOK
<1>2. Grows /\ NoBackfill' /\ \A p \in Procs, s \in Schedules : MarkWatched(p, s)'
  BY <1>1, SameTables
<1>3. \A t \in Ticks, s \in Schedules : PlanKept(t, s)'
  BY <1>1, <1>2, PlanStillKept DEF BackfillInv
<1>4. QED BY <1>1, <1>2, <1>3 DEF BackfillInv

LEMMA CrashKeeps == ASSUME BackfillInv, NEW p \in Procs, Crash(p) PROVE BackfillInv'
<1>1. TablesOK /\ UNCHANGED <<now, rows, watched>>
  BY DEF BackfillInv, Crash, history
<1>2. /\ mark' \in [Procs -> [Schedules -> Instant]]
      /\ \A r \in Procs, s \in Schedules : mark'[r][s] \in {mark[r][s], Never}
  <2>1. Never \in Instant
    BY DEF Instant
  <2>2. mark' = [mark EXCEPT ![p] = [s \in Schedules |-> Never]]
    BY DEF Crash
  <2>3. QED BY <1>1, <2>1, <2>2 DEF TablesOK
<1>3. \A t \in Ticks : tick'[t] \in {tick[t], NoTick}
  BY DEF Crash
<1>4. tick' = [t \in Ticks |-> tick'[t]]
  BY DEF Crash
<1>5. \A t \in Ticks : HasTickFields(tick'[t])
  BY <1>1, <1>3, NoTickFields DEF TablesOK
<1>6. TablesOK'
  BY <1>1, <1>2, <1>4, <1>5 DEF TablesOK
<1>7. \A s \in Schedules : Enqueued(s)' = Enqueued(s) /\ watched[s] \in Int
  BY <1>1, InstantIsInt DEF Enqueued, TablesOK
<1>8. Grows
  BY <1>1, <1>7 DEF Grows
<1>9. NoBackfill'
  BY <1>1, <1>7 DEF NoBackfill, BackfillInv
<1>10. \A r \in Procs, s \in Schedules : MarkWatched(r, s)'
  BY <1>1, <1>2 DEF MarkWatched, BackfillInv
<1>11. ASSUME NEW t \in Ticks, NEW s \in Schedules PROVE PlanKept(t, s)'
  <2>1. CASE tick'[t] = tick[t]
    BY <1>1, <1>6, <1>8, <2>1, PlanStillKept DEF BackfillInv
  <2>2. CASE tick'[t] = NoTick
    BY <2>2, NoTickFields, NothingPlanned
  <2>3. QED BY <1>3, <2>1, <2>2
<1>12. QED BY <1>6, <1>9, <1>10, <1>11 DEF BackfillInv

LEMMA BackfillStep == BackfillInv /\ [Next]_vars => BackfillInv'
<1> SUFFICES ASSUME BackfillInv, [Next]_vars PROVE BackfillInv'
  OBVIOUS
<1>0. now \in Time
  BY DEF BackfillInv, TablesOK
<1>1. ASSUME NEW t \in Ticks, TickStep(t) \/ EnqueueRejected(t) PROVE BackfillInv'
  <2>1. CASE Start(t)            BY <2>1, StartKeeps
  <2>2. CASE ReadSchedules(t)    BY <2>2, ReadSchedulesKeeps
  <2>3. CASE AskTable(t)         BY <2>3, AskTableKeeps
  <2>4. CASE Plan(t)             BY <2>4, PlanKeeps
  <2>5. CASE EnqueueNext(t)      BY <2>5, EnqueueNextKeeps
  <2>6. CASE Finish(t)           BY <2>6, FinishKeeps
  <2>7. CASE EnqueueRejected(t)  BY <2>7, EnqueueRejectedKeeps
  <2>8. QED BY <1>1, <2>1, <2>2, <2>3, <2>4, <2>5, <2>6, <2>7 DEF TickStep
<1>2. CASE Clock
  <2>1. now' \in Time
    BY <1>0, <1>2, ConstantsAssumption DEF Clock, Time
  <2>2. QED BY <1>2, <2>1, IdleKeeps DEF Clock, history
<1>3. ASSUME NEW s \in Schedules, Pause(s) PROVE BackfillInv'
  BY <1>0, <1>3, IdleKeeps DEF Pause, history
<1>4. ASSUME NEW p \in Procs, Crash(p) PROVE BackfillInv'
  BY <1>4, CrashKeeps
<1>5. CASE UNCHANGED vars
  BY <1>0, <1>5, IdleKeeps DEF vars, history
<1>6. QED BY <1>1, <1>2, <1>3, <1>4, <1>5 DEF Next

\* A schedule is never backfilled: every occurrence that has its job fell due after
\* some tick had looked at the schedule, with any number of processes and of
\* overlapping ticks, and whatever dies or is rejected.
THEOREM NeverBackfills == Spec => []NoBackfill
<1>1. BackfillInv => NoBackfill
  BY DEF BackfillInv
<1>2. QED BY <1>1, BackfillInit, BackfillStep, PTL DEF Spec

-----------------------------------------------------------------------------
(* The types.  What is left to type are the ticks, whose schedules come out *)
(* of a recursion over the spec's order.                                    *)

\* Induction on the numbers up to a bound.
LEMMA NumbersUpTo ==
  ASSUME NEW L \in Nat, NEW S, 0 \in S, \A n \in 0..L : n \in S /\ n < L => n + 1 \in S
  PROVE  \A n \in 0..L : n \in S
<1> SUFFICES ASSUME NEW m \in 0..L, m \notin S PROVE FALSE
  OBVIOUS
<1> DEFINE T == {n \in 0..L : n \notin S}
<1>1. T \subseteq Nat /\ T # {}
  OBVIOUS
<1>2. \A n \in 0..L : n \in T <=> n \notin S
  OBVIOUS
<1>3. T \subseteq 0..L
  OBVIOUS
<1> HIDE DEF T
<1>4. Min(T) \in T /\ \A y \in T : Min(T) <= y
  BY <1>1, MinOfNats
<1>5. PICK x : x = Min(T)
  OBVIOUS
<1>6. x \in 0..L /\ x \notin S /\ x # 0
  BY <1>2, <1>3, <1>4, <1>5
<1>7. x - 1 \in 0..L /\ x - 1 < L /\ (x - 1) + 1 = x
  BY <1>6
<1>8. x - 1 \in S
  BY <1>2, <1>4, <1>5, <1>7
<1>9. QED BY <1>6, <1>7, <1>8

\* The active schedules before the n-th, and the n-th unless it is paused.
WithNext(before, n) == IF Order[n] \in paused THEN before ELSE Append(before, Order[n])

LEMMA ActiveExists ==
  ASSUME NEW L \in Nat
  PROVE  \E g : g = [n \in 0..L |->
                       IF n = 0 THEN <<>>
                       ELSE IF Order[n] \in paused THEN g[n - 1] ELSE Append(g[n - 1], Order[n])]
<1> DEFINE S == {k \in 0..L :
                   \E g : g = [n \in 0..k |-> IF n = 0 THEN <<>> ELSE WithNext(g[n - 1], n)]}
<1>1. 0 \in S
  <2>1. PICK g : g = [n \in 0..0 |-> <<>>]
    OBVIOUS
  <2>2. g = [n \in 0..0 |-> IF n = 0 THEN <<>> ELSE WithNext(g[n - 1], n)]
    BY <2>1
  <2>3. QED BY <2>2
<1>2. ASSUME NEW k \in 0..L, k \in S, k < L PROVE k + 1 \in S
  <2>1. PICK g : g = [n \in 0..k |-> IF n = 0 THEN <<>> ELSE WithNext(g[n - 1], n)]
    BY <1>2
  <2>2. PICK h : h = [n \in 0..(k + 1) |-> IF n <= k THEN g[n] ELSE WithNext(g[k], n)]
    OBVIOUS
  <2>3. ASSUME NEW n \in 0..(k + 1)
        PROVE  h[n] = IF n = 0 THEN <<>> ELSE WithNext(h[n - 1], n)
    <3>1. CASE n = 0
      BY <2>1, <2>2, <3>1
    <3>2. CASE n # 0 /\ n <= k
      <4>1. n - 1 \in 0..(k + 1) /\ n - 1 <= k /\ n \in 0..k
        BY <3>2
      <4>2. h[n] = g[n] /\ h[n - 1] = g[n - 1]
        BY <2>2, <3>2, <4>1
      <4>3. g[n] = WithNext(g[n - 1], n)
        BY <2>1, <3>2, <4>1
      <4>4. QED BY <3>2, <4>2, <4>3
    <3>3. CASE n = k + 1
      <4>1. k \in 0..(k + 1) /\ n # 0 /\ ~ (n <= k) /\ n - 1 = k
        BY <3>3
      <4>2. h[n] = WithNext(g[k], n) /\ h[k] = g[k]
        BY <2>2, <4>1
      <4>3. QED BY <4>1, <4>2
    <3>4. QED BY <3>1, <3>2, <3>3
  <2>4. h = [n \in 0..(k + 1) |-> h[n]]
    BY <2>2
  <2>5. h = [n \in 0..(k + 1) |-> IF n = 0 THEN <<>> ELSE WithNext(h[n - 1], n)]
    BY <2>3, <2>4
  <2>6. k + 1 \in 0..L
    BY <1>2
  <2> HIDE DEF WithNext
  <2>7. QED BY <2>5, <2>6
<1>3. \A k \in 0..L : k \in S
  <2> HIDE DEF S
  <2>1. QED BY <1>1, <1>2, NumbersUpTo
<1>4. L \in S
  BY <1>3
<1>5. QED BY <1>4 DEF WithNext

LEMMA ActiveTyped == ActiveSchedules \in Seq(Schedules)
<1>0. Len(Order) \in Nat /\ \A n \in 1..Len(Order) : Order[n] \in Schedules
  BY ConstantsAssumption
<1>1. ActiveAmong = CHOOSE g : g = [n \in 0..Len(Order) |->
        IF n = 0 THEN <<>>
        ELSE IF Order[n] \in paused THEN g[n - 1] ELSE Append(g[n - 1], Order[n])]
  BY DEF ActiveAmong
<1>2. PICK g : /\ g = ActiveAmong
               /\ g = [n \in 0..Len(Order) |->
                    IF n = 0 THEN <<>>
                    ELSE IF Order[n] \in paused THEN g[n - 1] ELSE Append(g[n - 1], Order[n])]
  BY <1>0, <1>1, ActiveExists
<1> DEFINE S == {n \in 0..Len(Order) : g[n] \in Seq(Schedules)}
<1>3. 0 \in S
  <2>1. g[0] = <<>>
    BY <1>0, <1>2
  <2>2. 0 \in 0..Len(Order) /\ <<>> \in Seq(Schedules)
    BY <1>0
  <2>3. QED BY <2>1, <2>2
<1>4. ASSUME NEW n \in 0..Len(Order), n \in S, n < Len(Order) PROVE n + 1 \in S
  <2>1. n + 1 \in 0..Len(Order) /\ n + 1 \in 1..Len(Order) /\ n + 1 # 0 /\ (n + 1) - 1 = n
    BY <1>0, <1>4
  <2>2. g[n + 1] = IF Order[n + 1] \in paused THEN g[n] ELSE Append(g[n], Order[n + 1])
    BY <1>2, <2>1
  <2>3. g[n] \in Seq(Schedules) /\ Order[n + 1] \in Schedules
    BY <1>0, <1>4, <2>1
  <2>4. Append(g[n], Order[n + 1]) \in Seq(Schedules)
    BY <2>3
  <2>5. g[n + 1] \in Seq(Schedules)
    BY <2>2, <2>3, <2>4
  <2>6. QED BY <2>1, <2>5
<1>5. \A n \in 0..Len(Order) : n \in S
  <2> HIDE DEF S
  <2>1. QED BY <1>0, <1>3, <1>4, NumbersUpTo
<1>6. g[Len(Order)] \in Seq(Schedules)
  BY <1>0, <1>5
<1>7. QED BY <1>2, <1>6 DEF ActiveSchedules

\* A tick past its reading has a schedule at hand, and what it holds is of the calendar.
TickTyped(r) ==
  /\ r.pc \in {"idle", "reading", "asking", "planning", "enqueuing"}
  /\ r.pc \in {"asking", "planning", "enqueuing"} => r.todo # <<>>
  /\ r.todo \in Seq(Schedules)
  /\ r.durable \in Instant /\ r.pending \subseteq Time

HistoryTyped ==
  /\ paused \subseteq Schedules /\ horizon \in [Schedules -> Instant]
  /\ dropped \subseteq Schedules \X Time /\ overlapped \in BOOLEAN

TypeInv == BackfillInv /\ HistoryTyped /\ \A t \in Ticks : TickTyped(tick[t])

LEMMA NoTickTyped == TickTyped(NoTick) /\ Never \in Instant
BY DEF TickTyped, NoTick, Instant

LEMMA AdvanceTyped ==
  ASSUME TypeInv, NEW t \in Ticks, NEW todo \in Seq(Schedules), Advance(t, todo)
  PROVE  \A u \in Ticks : TickTyped(tick'[u])
<1>1. PICK row : tick' = [tick EXCEPT ![t] = row] /\ TickTyped(row)
  <2>1. CASE todo = <<>>
    BY <2>1, NoTickTyped DEF Advance
  <2>2. CASE todo # <<>>
    <3>1. PICK row : row = [NoTick EXCEPT !.pc = "asking", !.at = tick[t].at, !.todo = todo]
      OBVIOUS
    <3>2. TickTyped(row)
      BY <2>2, <3>1, NoTickTyped DEF NoTick, TickTyped
    <3>3. QED BY <2>2, <3>1, <3>2 DEF Advance
  <2>3. QED BY <2>1, <2>2
<1>2. QED BY <1>1 DEF TypeInv, BackfillInv, TablesOK

\* The tick at hand becomes a row that is typed.
LEMMA TickStaysTyped ==
  ASSUME TypeInv, NEW t \in Ticks, NEW row, TickTyped(row), tick' = [tick EXCEPT ![t] = row]
  PROVE  \A u \in Ticks : TickTyped(tick'[u])
BY DEF TypeInv, BackfillInv, TablesOK

\* The schedule a tick is about.
LEMMA AtHand ==
  ASSUME TypeInv, NEW t \in Ticks, tick[t].pc \in {"asking", "planning", "enqueuing"}
  PROVE  /\ Head(tick[t].todo) \in Schedules /\ Tail(tick[t].todo) \in Seq(Schedules)
         /\ HasTickFields(tick[t]) /\ TickTyped(tick[t])
<1>1. tick[t].todo \in Seq(Schedules) /\ tick[t].todo # <<>>
  BY DEF TypeInv, TickTyped
<1>2. QED BY <1>1 DEF TypeInv, BackfillInv, TablesOK

LEMMA StepTyped ==
  ASSUME TypeInv, NEW t \in Ticks, TickStep(t)
  PROVE  HistoryTyped' /\ \A u \in Ticks : TickTyped(tick'[u])
<1>1. CASE Start(t)
  <2>1. PICK row : row = [NoTick EXCEPT !.pc = "reading", !.at = now]
    OBVIOUS
  <2>2. TickTyped(row) /\ tick' = [tick EXCEPT ![t] = row]
    BY <1>1, <2>1, NoTickTyped DEF Start, NoTick, TickTyped
  <2>3. overlapped' \in BOOLEAN /\ UNCHANGED <<paused, horizon, dropped>>
    BY <1>1 DEF Start, TypeInv, HistoryTyped
  <2>4. QED BY <2>2, <2>3, TickStaysTyped DEF TypeInv, HistoryTyped
<1>2. CASE ReadSchedules(t)
  <2>1. UNCHANGED <<paused, history>> /\ Advance(t, ActiveSchedules)
    BY <1>2 DEF ReadSchedules
  <2>2. QED BY <2>1, ActiveTyped, AdvanceTyped DEF TypeInv, HistoryTyped, history
<1>3. CASE AskTable(t)
  <2>1. /\ Head(tick[t].todo) \in Schedules
        /\ HasTickFields(tick[t]) /\ TickTyped(tick[t]) /\ tick[t].pc = "asking"
    BY <1>3, AtHand DEF AskTable
  <2>2. PICK o \in LastScheduledFor(Head(tick[t].todo)) :
          tick' = [tick EXCEPT ![t].pc = "planning", ![t].durable = o]
    BY <1>3 DEF AskTable
  <2>3. o \in Calendar[Head(tick[t].todo)] \cup {Never}
    BY <2>2 DEF LastScheduledFor, Newest, Enqueued
  <2>4. o \in Instant
    BY <2>1, <2>3, ConstantsAssumption DEF Instant
  <2>5. PICK row : row = [tick[t] EXCEPT !.pc = "planning", !.durable = o]
    OBVIOUS
  <2>6. TickTyped(row) /\ tick' = [tick EXCEPT ![t] = row]
    BY <2>1, <2>2, <2>4, <2>5 DEF HasTickFields, TickTyped
  <2>7. UNCHANGED <<paused, history>>
    BY <1>3 DEF AskTable
  <2>8. QED BY <2>6, <2>7, TickStaysTyped DEF TypeInv, HistoryTyped, history
<1>4. CASE Plan(t)
  <2>1. /\ Head(tick[t].todo) \in Schedules
        /\ HasTickFields(tick[t]) /\ TickTyped(tick[t]) /\ tick[t].pc = "planning"
    BY <1>4, AtHand DEF Plan
  <2>2. PICK s, due :
          /\ s = Head(tick[t].todo)
          /\ due = Due(s, Since(s, tick[t].durable, mark[ProcOf[t]][s], tick[t].at), tick[t].at)
          /\ tick' = [tick EXCEPT ![t].pc = "enqueuing", ![t].pending = Recent(due)]
          /\ dropped' = dropped \cup {<<s, o>> : o \in due \ Recent(due)}
    BY <1>4 DEF Plan
  <2>3. due \subseteq Time /\ Recent(due) \subseteq Time
    <3>1. due \subseteq Calendar[s]
      BY <2>2 DEF Due
    <3>2. Calendar[s] \subseteq Time
      BY <2>1, <2>2, ConstantsAssumption
    <3>3. QED BY <3>1, <3>2 DEF Recent
  <2>4. PICK row : row = [tick[t] EXCEPT !.pc = "enqueuing", !.pending = Recent(due)]
    OBVIOUS
  <2>5. TickTyped(row) /\ tick' = [tick EXCEPT ![t] = row]
    BY <2>1, <2>2, <2>3, <2>4 DEF HasTickFields, TickTyped
  <2>6. dropped' \subseteq Schedules \X Time
    <3>1. {<<s, o>> : o \in due \ Recent(due)} \subseteq Schedules \X Time
      BY <2>1, <2>2, <2>3
    <3>2. QED BY <2>2, <3>1 DEF TypeInv, HistoryTyped
  <2>7. UNCHANGED <<paused, horizon, overlapped>>
    BY <1>4 DEF Plan
  <2>8. QED BY <2>5, <2>6, <2>7, TickStaysTyped DEF TypeInv, HistoryTyped
<1>5. CASE EnqueueNext(t)
  <2>1. HasTickFields(tick[t]) /\ TickTyped(tick[t]) /\ tick[t].pc = "enqueuing"
    BY <1>5, AtHand DEF EnqueueNext
  <2>2. PICK o : tick' = [tick EXCEPT ![t].pending = @ \ {o}]
    BY <1>5 DEF EnqueueNext
  <2>3. PICK row : row = [tick[t] EXCEPT !.pending = @ \ {o}]
    OBVIOUS
  <2>4. TickTyped(row) /\ tick' = [tick EXCEPT ![t] = row]
    BY <2>1, <2>2, <2>3 DEF HasTickFields, TickTyped
  <2>5. UNCHANGED <<paused, history>>
    BY <1>5 DEF EnqueueNext
  <2>6. QED BY <2>4, <2>5, TickStaysTyped DEF TypeInv, HistoryTyped, history
<1>6. CASE Finish(t)
  <2>1. /\ Tail(tick[t].todo) \in Seq(Schedules)
        /\ HasTickFields(tick[t]) /\ tick[t].pc = "enqueuing"
    BY <1>6, AtHand DEF Finish
  <2>2. PICK s : horizon' = [horizon EXCEPT ![s] = Max({@, tick[t].at})]
    BY <1>6 DEF Finish
  <2>3. Advance(t, Tail(tick[t].todo)) /\ UNCHANGED <<paused, dropped, overlapped>>
    BY <1>6 DEF Finish
  <2>4. horizon' \in [Schedules -> Instant]
    <3>1. tick[t].at \in Instant
      BY <2>1 DEF HasTickFields, Instant
    <3>2. ASSUME NEW h \in Instant PROVE Max({h, tick[t].at}) \in Instant
      <4>1. Max({h, tick[t].at}) \in {h, tick[t].at}
        BY <3>1, InstantIsInt, MaxOfTwo
      <4>2. QED BY <3>1, <4>1
    <3>3. QED BY <2>2, <3>2 DEF TypeInv, HistoryTyped
  <2>5. QED BY <2>1, <2>3, <2>4, AdvanceTyped DEF TypeInv, HistoryTyped
<1>7. QED BY <1>1, <1>2, <1>3, <1>4, <1>5, <1>6 DEF TickStep

LEMMA TypeStep == TypeInv /\ [Next]_vars => TypeInv'
<1> SUFFICES ASSUME TypeInv, [Next]_vars PROVE TypeInv'
  OBVIOUS
<1>0. BackfillInv'
  BY BackfillStep DEF TypeInv
<1>1. ASSUME NEW t \in Ticks, TickStep(t) PROVE TypeInv'
  BY <1>0, <1>1, StepTyped DEF TypeInv
<1>2. ASSUME NEW t \in Ticks, EnqueueRejected(t) PROVE TypeInv'
  <2>1. tick' = [tick EXCEPT ![t] = NoTick] /\ UNCHANGED <<paused, history>>
    BY <1>2 DEF EnqueueRejected
  <2>2. \A u \in Ticks : TickTyped(tick'[u])
    BY <2>1, NoTickTyped, TickStaysTyped
  <2>3. QED BY <1>0, <2>1, <2>2 DEF TypeInv, HistoryTyped, history
<1>3. CASE Clock
  BY <1>0, <1>3 DEF Clock, TypeInv, HistoryTyped, history
<1>4. ASSUME NEW s \in Schedules, Pause(s) PROVE TypeInv'
  BY <1>0, <1>4 DEF Pause, TypeInv, HistoryTyped, history
<1>5. ASSUME NEW p \in Procs, Crash(p) PROVE TypeInv'
  <2>1. \A t \in Ticks : tick'[t] \in {tick[t], NoTick}
    BY <1>5 DEF Crash
  <2>2. \A t \in Ticks : TickTyped(tick'[t])
    BY <2>1, NoTickTyped DEF TypeInv
  <2>3. UNCHANGED <<paused, history>>
    BY <1>5 DEF Crash
  <2>4. QED BY <1>0, <2>2, <2>3 DEF TypeInv, HistoryTyped, history
<1>6. CASE UNCHANGED vars
  BY <1>0, <1>6 DEF vars, TypeInv, HistoryTyped, history
<1>7. QED BY <1>1, <1>2, <1>3, <1>4, <1>5, <1>6 DEF Next

LEMMA TypeInit == Init => TypeInv
<1> SUFFICES ASSUME Init PROVE TypeInv
  OBVIOUS
<1>1. HistoryTyped
  BY NoTickTyped DEF Init, HistoryTyped
<1>2. \A t \in Ticks : TickTyped(tick[t])
  BY NoTickTyped DEF Init
<1>3. QED BY <1>1, <1>2, BackfillInit DEF TypeInv

LEMMA TypeInvTypes == ASSUME TypeInv PROVE TypeOK
<1>1. ASSUME NEW t \in Ticks PROVE tick[t] \in Tick
  <2>1. TickTyped(tick[t]) /\ HasTickFields(tick[t])
    BY DEF TypeInv, BackfillInv, TablesOK
  <2>2. QED BY <2>1 DEF TickTyped, HasTickFields, Tick
<1>2. tick \in [Ticks -> Tick]
  BY <1>1 DEF TypeInv, BackfillInv, TablesOK
<1>3. QED BY <1>2 DEF TypeOK, TypeInv, BackfillInv, TablesOK, HistoryTyped

\* Clock, table, watermarks and ticks are well typed: a tick past its reading is always
\* at a schedule of the spec, whatever is paused, dies or is rejected meanwhile
\* (scheduler.ts:148-186).
THEOREM ScheduleTypeCorrect == Spec => []TypeOK
<1>1. TypeInv => TypeOK
  BY TypeInvTypes
<1>2. QED BY <1>1, TypeInit, TypeStep, PTL DEF Spec

-----------------------------------------------------------------------------
(***************************************************************************)
(* What one process that does not die, and whose ticks do not overlap,     *)
(* never loses.  Everything between the first look at a schedule and its   *)
(* watermark has been decided, the rows are added oldest first, and what a *)
(* tick has not decided yet of its window it still has in hand.            *)
(***************************************************************************)

SingleProcess == \E p : Procs = {p}

\* At most one tick is in progress.
OneAtATime ==
  \A t, u \in Ticks : tick[t].pc # "idle" /\ tick[u].pc # "idle" => t = u

\* No instant is ahead of the clock, and no tick is older than a first look.
InThePast ==
  /\ \A s \in Schedules : watched[s] <= now
  /\ \A t \in Ticks :
       /\ tick[t].at <= now
       /\ tick[t].pc # "idle" => \A s \in Schedules : watched[s] <= tick[t].at

\* Of the occurrences since the first look, those up to i have been decided.
DecidedUpTo(s, i) ==
  \A o \in Calendar[s] : watched[s] < o /\ o <= i => Decided(s, o)

\* A schedule that was looked at has a watermark, and it has been decided up to it.
MarkCovers ==
  \A s \in Schedules : watched[s] # Never =>
    \A p \in Procs : mark[p][s] # Never /\ DecidedUpTo(s, mark[p][s])

OldestFirst == \A s \in Schedules : \A e \in Enqueued(s) : DecidedUpTo(s, e)

\* The window of a tick that is enqueuing is decided, or pending.
InHand(t, s) ==
  tick[t].pc = "enqueuing" /\ Head(tick[t].todo) = s =>
    /\ \A o \in tick[t].pending : o <= tick[t].at
    /\ watched[s] # Never =>
         \A o \in Calendar[s] :
           watched[s] < o /\ o <= tick[t].at => Decided(s, o) \/ o \in tick[t].pending

InSequence ==
  /\ OneAtATime
  /\ InThePast
  /\ MarkCovers
  /\ OldestFirst
  /\ \A t \in Ticks, s \in Schedules : InHand(t, s)

SequenceInv == crashes \in Nat /\ (crashes = 0 /\ ~ overlapped => InSequence)
LEMMA SequenceInts ==
  ASSUME TablesOK
  PROVE  /\ now \in Int /\ now \in Nat
         /\ \A s \in Schedules : watched[s] \in Int
         /\ \A p \in Procs, s \in Schedules : mark[p][s] \in Int
         /\ \A t \in Ticks : tick[t].at \in Int /\ tick[t].at \in Nat
         /\ \A s \in Schedules : \A o \in Calendar[s] : o \in Int /\ o \in Nat
<1>1. now \in Time /\ \A t \in Ticks : tick[t].at \in Time
  BY DEF TablesOK, HasTickFields
<1>2. now \in Int /\ now \in Nat /\ \A t \in Ticks : tick[t].at \in Int /\ tick[t].at \in Nat
  BY <1>1, ConstantsAssumption DEF Time
<1>3. \A s \in Schedules : watched[s] \in Int
  BY InstantIsInt DEF TablesOK
<1>4. \A p \in Procs, s \in Schedules : mark[p][s] \in Int
  BY InstantIsInt DEF TablesOK
<1>5. QED BY <1>2, <1>3, <1>4, CalendarIsTime

\* What was decided stays decided.
Keeps == \A s \in Schedules : \A o : Decided(s, o) => Decided(s, o)'

LEMMA KeepsWhenTablesGrow ==
  ASSUME \A s \in Schedules : Enqueued(s) \subseteq Enqueued(s)', dropped \subseteq dropped'
  PROVE  Keeps
BY DEF Keeps, Decided

\* Rows, watermarks and first looks as they were: what they cover is decided still.
LEMMA CoversStill ==
  ASSUME MarkCovers, OldestFirst, rows' = rows, mark' = mark, watched' = watched,
         dropped \subseteq dropped'
  PROVE  Keeps /\ MarkCovers' /\ OldestFirst'
<1>1. \A s \in Schedules : Enqueued(s)' = Enqueued(s)
  BY DEF Enqueued
<1>2. Keeps
  BY <1>1, KeepsWhenTablesGrow
<1>3. \A s \in Schedules : \A i : DecidedUpTo(s, i) => DecidedUpTo(s, i)'
  BY <1>2 DEF DecidedUpTo, Keeps
<1>4. MarkCovers'
  <2>1. ASSUME NEW s \in Schedules, watched[s] # Never, NEW p \in Procs
        PROVE  mark[p][s] # Never /\ DecidedUpTo(s, mark[p][s])'
    BY <1>3, <2>1 DEF MarkCovers
  <2>2. QED BY <2>1 DEF MarkCovers, DecidedUpTo, Decided, Enqueued
<1>5. OldestFirst'
  <2>1. ASSUME NEW s \in Schedules, NEW e \in Enqueued(s) PROVE DecidedUpTo(s, e)'
    BY <1>3, <2>1 DEF OldestFirst
  <2>2. QED BY <1>1, <2>1 DEF OldestFirst
<1>6. QED BY <1>2, <1>4, <1>5

\* A tick that moves while the others are idle.
LEMMA AloneKeeps ==
  ASSUME BackfillInv, BackfillInv', InSequence, NEW t \in Ticks,
         \A u \in Ticks \ {t} : tick[u].pc = "idle" /\ tick'[u] = tick[u],
         now' = now, tick'[t].at <= now,
         \A s \in Schedules : /\ watched'[s] <= now
                              /\ tick'[t].pc # "idle" => watched'[s] <= tick'[t].at,
         MarkCovers', OldestFirst', \A s \in Schedules : InHand(t, s)'
  PROVE  InSequence'
<1>1. \A u \in Ticks \ {t} : tick'[u].pc = "idle" /\ tick'[u].at = tick[u].at
  OBVIOUS
<1>2. OneAtATime'
  BY <1>1 DEF OneAtATime
<1>3. InThePast'
  BY <1>1 DEF InThePast, InSequence
<1>4. ASSUME NEW u \in Ticks, NEW s \in Schedules PROVE InHand(u, s)'
  BY <1>1 DEF InHand
<1>5. QED BY <1>2, <1>3, <1>4 DEF InSequence

\* The others are idle when a tick is in progress.
LEMMA OthersIdle ==
  ASSUME InSequence, NEW t \in Ticks, tick[t].pc # "idle"
  PROVE  \A u \in Ticks \ {t} : tick[u].pc = "idle"
BY DEF InSequence, OneAtATime

-----------------------------------------------------------------------------
LEMMA StartInSequence ==
  ASSUME BackfillInv, BackfillInv', InSequence, NEW t \in Ticks, Start(t), ~ overlapped'
  PROVE  InSequence'
<1>1. \A u \in Ticks \ {t} : tick[u].pc = "idle"
  BY DEF Start
<1>2. UNCHANGED <<now, rows, mark, watched, dropped>>
  BY DEF Start
<1>3. DOMAIN tick = Ticks
  <2>1. tick = [u \in Ticks |-> tick[u]]
    BY DEF BackfillInv, TablesOK
  <2>2. QED BY <2>1
<1>4. PICK row : row = [NoTick EXCEPT !.pc = "reading", !.at = now]
  OBVIOUS
<1>5. row.pc = "reading" /\ row.at = now
  BY <1>4 DEF NoTick
<1>6. tick' = [tick EXCEPT ![t] = row]
  BY <1>4 DEF Start
<1>7. tick'[t] = row /\ \A u \in Ticks \ {t} : tick'[u] = tick[u]
  BY <1>3, <1>6
<1>8. MarkCovers' /\ OldestFirst'
  BY <1>2, CoversStill DEF InSequence
<1>9. \A s \in Schedules : watched[s] <= now
  BY DEF InSequence, InThePast
<1>10. now <= now
  BY SequenceInts DEF BackfillInv
<1>11. \A s \in Schedules : InHand(t, s)'
  BY <1>5, <1>7 DEF InHand
<1>12. QED BY <1>1, <1>2, <1>5, <1>7, <1>8, <1>9, <1>10, <1>11, AloneKeeps

\* Going on, or returning: the tick keeps its instant, and enqueues nothing.
LEMMA AdvanceAt ==
  ASSUME TablesOK, NEW t \in Ticks, NEW todo, Advance(t, todo)
  PROVE  /\ tick'[t].pc \in {"idle", "asking"}
         /\ IF tick'[t].pc = "idle" THEN tick'[t].at = 0 ELSE tick'[t].at = tick[t].at
<1>1. DOMAIN tick = Ticks
  <2>1. tick = [u \in Ticks |-> tick[u]]
    BY DEF TablesOK
  <2>2. QED BY <2>1
<1>2. tick'[t] = IF todo = <<>> THEN NoTick
                 ELSE [NoTick EXCEPT !.pc = "asking", !.at = tick[t].at, !.todo = todo]
  BY <1>1 DEF Advance
<1>3. CASE todo = <<>>
  BY <1>2, <1>3 DEF NoTick
<1>4. CASE todo # <<>>
  BY <1>2, <1>4 DEF NoTick
<1>5. QED BY <1>3, <1>4

LEMMA ReadSchedulesInSequence ==
  ASSUME BackfillInv, BackfillInv', InSequence, NEW t \in Ticks, ReadSchedules(t)
  PROVE  InSequence'
<1>1. tick[t].pc # "idle" /\ UNCHANGED <<now, rows, mark, watched, dropped>>
  BY DEF ReadSchedules, history
<1>2. TablesOK /\ Advance(t, ActiveSchedules)
  BY DEF ReadSchedules, BackfillInv
<1>3. \A u \in Ticks \ {t} : tick[u].pc = "idle" /\ tick'[u] = tick[u]
  BY <1>1, <1>2, OthersIdle, AdvanceMoves
<1>4. /\ tick'[t].pc \in {"idle", "asking"}
      /\ IF tick'[t].pc = "idle" THEN tick'[t].at = 0 ELSE tick'[t].at = tick[t].at
  BY <1>2, AdvanceAt
<1>5. /\ tick[t].at <= now
      /\ \A s \in Schedules : watched[s] <= now /\ watched[s] <= tick[t].at
  BY <1>1 DEF InSequence, InThePast
<1>6. 0 <= now
  BY <1>2, SequenceInts
<1>7. MarkCovers' /\ OldestFirst'
  BY <1>1, CoversStill DEF InSequence
<1>8. \A s \in Schedules : InHand(t, s)'
  BY <1>4 DEF InHand
<1>9. QED BY <1>1, <1>3, <1>4, <1>5, <1>6, <1>7, <1>8, AloneKeeps

LEMMA AskTableInSequence ==
  ASSUME BackfillInv, BackfillInv', InSequence, NEW t \in Ticks, AskTable(t)
  PROVE  InSequence'
<1>1. tick[t].pc # "idle" /\ UNCHANGED <<now, rows, mark, watched, dropped>>
  BY DEF AskTable, history
<1>2. PICK o : tick' = [tick EXCEPT ![t].pc = "planning", ![t].durable = o]
  BY DEF AskTable
<1>3. TablesOK /\ DOMAIN tick = Ticks /\ HasTickFields(tick[t])
  <2>1. TablesOK /\ tick = [u \in Ticks |-> tick[u]]
    BY DEF BackfillInv, TablesOK
  <2>2. DOMAIN tick = Ticks
    BY <2>1
  <2>3. QED BY <2>1, <2>2 DEF TablesOK
<1>4. tick'[t] = [tick[t] EXCEPT !.pc = "planning", !.durable = o]
  BY <1>2, <1>3
<1>5. tick'[t].pc = "planning" /\ tick'[t].at = tick[t].at
  BY <1>3, <1>4 DEF HasTickFields
<1>6. \A u \in Ticks \ {t} : tick[u].pc = "idle" /\ tick'[u] = tick[u]
  BY <1>1, <1>2, <1>3, OthersIdle
<1>7. /\ tick[t].at <= now
      /\ \A s \in Schedules : watched[s] <= now /\ watched[s] <= tick[t].at
  BY <1>1 DEF InSequence, InThePast
<1>8. MarkCovers' /\ OldestFirst'
  BY <1>1, CoversStill DEF InSequence
<1>9. \A s \in Schedules : InHand(t, s)'
  BY <1>5 DEF InHand
<1>10. QED BY <1>1, <1>5, <1>6, <1>7, <1>8, <1>9, AloneKeeps

\* The window starts where everything has been decided: its occurrences are the ones
\* left since the first look.
LEMMA WindowLeavesNothing ==
  ASSUME BackfillInv, InSequence, NEW t \in Ticks, NEW s \in Schedules,
         Head(tick[t].todo) = s, watched[s] # Never,
         NEW o \in Calendar[s], watched[s] < o, o <= tick[t].at
  PROVE  \/ Decided(s, o)
         \/ o \in Due(s, Since(s, tick[t].durable, mark[ProcOf[t]][s], tick[t].at),
                      tick[t].at)
<1>1. PICK d, m : d = tick[t].durable /\ m = mark[ProcOf[t]][s]
  OBVIOUS
<1>2. ProcOf[t] \in Procs
  BY ConstantsAssumption
<1>3. TablesOK
  BY DEF BackfillInv
<1>4. m \in Int /\ o \in Int /\ o \in Nat
  BY <1>1, <1>2, <1>3, SequenceInts
<1>5. d \in Enqueued(s) \cup {Never}
  BY <1>1 DEF BackfillInv, PlanKept
<1>6. d \in Int
  BY <1>5, CalendarIsTime DEF Enqueued, Never
<1>7. m # Never /\ DecidedUpTo(s, m)
  BY <1>1, <1>2 DEF InSequence, MarkCovers
<1>8. Since(s, d, m, tick[t].at) = Max({d, m})
  BY <1>7 DEF Since
<1>9. Max({d, m}) \in {d, m}
  BY <1>4, <1>6, MaxOfTwo
<1>10. CASE o <= m
  BY <1>7, <1>10 DEF DecidedUpTo
<1>11. CASE d # Never /\ o <= d
  BY <1>5, <1>11 DEF InSequence, OldestFirst, DecidedUpTo
<1>12. CASE m < o /\ (d = Never \/ d < o)
  <2>1. d < o
    BY <1>4, <1>12 DEF Never
  <2>2. Max({d, m}) < o
    BY <1>9, <1>12, <2>1
  <2>3. QED BY <1>1, <1>8, <2>2 DEF Due
<1>13. QED BY <1>4, <1>6, <1>10, <1>11, <1>12

LEMMA PlanInSequence ==
  ASSUME BackfillInv, BackfillInv', InSequence, NEW t \in Ticks, Plan(t)
  PROVE  InSequence'
<1>1. tick[t].pc # "idle" /\ UNCHANGED <<now, rows, mark, watched>>
  BY DEF Plan
<1>2. PICK s, due :
        /\ s = Head(tick[t].todo)
        /\ due = Due(s, Since(s, tick[t].durable, mark[ProcOf[t]][s], tick[t].at), tick[t].at)
        /\ tick' = [tick EXCEPT ![t].pc = "enqueuing", ![t].pending = Recent(due)]
        /\ dropped' = dropped \cup {<<s, o>> : o \in due \ Recent(due)}
  BY DEF Plan
<1>3. TablesOK /\ DOMAIN tick = Ticks /\ HasTickFields(tick[t])
  <2>1. TablesOK /\ tick = [u \in Ticks |-> tick[u]]
    BY DEF BackfillInv, TablesOK
  <2>2. DOMAIN tick = Ticks
    BY <2>1
  <2>3. QED BY <2>1, <2>2 DEF TablesOK
<1>4. tick'[t] = [tick[t] EXCEPT !.pc = "enqueuing", !.pending = Recent(due)]
  BY <1>2, <1>3
<1>5. /\ tick'[t].pc = "enqueuing" /\ tick'[t].at = tick[t].at
      /\ tick'[t].pending = Recent(due) /\ tick'[t].todo = tick[t].todo
  BY <1>3, <1>4 DEF HasTickFields
<1>6. \A u \in Ticks \ {t} : tick[u].pc = "idle" /\ tick'[u] = tick[u]
  BY <1>1, <1>2, <1>3, OthersIdle
<1>7. /\ tick[t].at <= now
      /\ \A q \in Schedules : watched[q] <= now /\ watched[q] <= tick[t].at
  BY <1>1 DEF InSequence, InThePast
<1>8. dropped \subseteq dropped'
  BY <1>2
<1>9. Keeps /\ MarkCovers' /\ OldestFirst'
  BY <1>1, <1>8, CoversStill DEF InSequence
<1>10. ASSUME NEW q \in Schedules PROVE InHand(t, q)'
  <2> SUFFICES ASSUME s = q
               PROVE  /\ \A o \in Recent(due) : o <= tick[t].at
                      /\ watched[q] # Never =>
                           \A o \in Calendar[q] :
                             watched[q] < o /\ o <= tick[t].at =>
                               Decided(q, o)' \/ o \in Recent(due)
    BY <1>1, <1>2, <1>5 DEF InHand
  <2>1. \A o \in Recent(due) : o <= tick[t].at
    BY <1>2 DEF Recent, Due
  <2>2. ASSUME watched[q] # Never, NEW o \in Calendar[q], watched[q] < o, o <= tick[t].at
        PROVE  Decided(q, o)' \/ o \in Recent(due)
    <3>1. Decided(q, o) \/ o \in due
      BY <1>2, <2>2, WindowLeavesNothing
    <3>2. CASE Decided(q, o)
      BY <1>9, <3>2 DEF Keeps
    <3>3. CASE o \in due \ Recent(due)
      BY <1>2, <3>3 DEF Decided
    <3>4. QED BY <3>1, <3>2, <3>3
  <2>3. QED BY <2>1, <2>2
<1>11. QED BY <1>1, <1>5, <1>6, <1>7, <1>9, <1>10, AloneKeeps
\* The row added is the oldest that was pending: what is older has been decided.
LEMMA EnqueueNextInSequence ==
  ASSUME BackfillInv, BackfillInv', InSequence, NEW t \in Ticks, EnqueueNext(t)
  PROVE  InSequence'
<1>1. /\ tick[t].pc = "enqueuing" /\ UNCHANGED <<now, mark, watched, dropped>>
      /\ tick[t].pc # "idle"
  BY DEF EnqueueNext, history
<1>2. PICK s, o :
        /\ s = Head(tick[t].todo) /\ o = NextPending(t)
        /\ tick' = [tick EXCEPT ![t].pending = @ \ {o}]
  BY DEF EnqueueNext
<1>3. TablesOK /\ DOMAIN tick = Ticks /\ HasTickFields(tick[t])
  <2>1. TablesOK /\ tick = [u \in Ticks |-> tick[u]]
    BY DEF BackfillInv, TablesOK
  <2>2. DOMAIN tick = Ticks
    BY <2>1
  <2>3. QED BY <2>1, <2>2 DEF TablesOK
<1>4. tick'[t] = [tick[t] EXCEPT !.pending = @ \ {o}]
  BY <1>2, <1>3
<1>5. /\ tick'[t].pc = tick[t].pc /\ tick'[t].at = tick[t].at
      /\ tick'[t].pending = tick[t].pending \ {o} /\ tick'[t].todo = tick[t].todo
  BY <1>3, <1>4 DEF HasTickFields
<1>6. \A u \in Ticks \ {t} : tick[u].pc = "idle" /\ tick'[u] = tick[u]
  BY <1>1, <1>2, <1>3, OthersIdle
<1>7. /\ tick[t].at <= now
      /\ \A q \in Schedules : watched[q] <= now /\ watched[q] <= tick[t].at
  BY <1>1 DEF InSequence, InThePast
<1>8. /\ s \in Schedules =>
           /\ o \in Calendar[s] /\ WatchedBefore(s, o) /\ o \in tick[t].pending
           /\ \A x \in tick[t].pending : x \in Calendar[s] /\ o <= x
      /\ \A q \in Schedules : Enqueued(q)' = Enqueued(q) \cup (IF q = s THEN {o} ELSE {})
  BY <1>2, EnqueueNextRows
<1>9. Keeps
  BY <1>1, <1>8, KeepsWhenTablesGrow
<1>10. \A q \in Schedules : \A i : DecidedUpTo(q, i) => DecidedUpTo(q, i)'
  BY <1>1, <1>9 DEF DecidedUpTo, Keeps
<1>11. MarkCovers'
  <2>1. ASSUME NEW q \in Schedules, watched[q] # Never, NEW p \in Procs
        PROVE  mark'[p][q] # Never /\ DecidedUpTo(q, mark[p][q])'
    BY <1>1, <1>10, <2>1 DEF MarkCovers, InSequence
  <2>2. QED BY <1>1, <2>1 DEF MarkCovers, DecidedUpTo
<1>12. ASSUME s \in Schedules
       PROVE  \A x \in Calendar[s] :
                watched[s] < x /\ x <= tick[t].at =>
                  Decided(s, x)' \/ x \in tick[t].pending \ {o}
  <2>1. watched[s] # Never
    BY <1>8, <1>12 DEF WatchedBefore
  <2>2. \A x \in Calendar[s] :
          watched[s] < x /\ x <= tick[t].at => Decided(s, x) \/ x \in tick[t].pending
    BY <1>1, <1>2, <1>12, <2>1 DEF InSequence, InHand
  <2>3. Decided(s, o)'
    BY <1>8, <1>12 DEF Decided
  <2>4. QED BY <1>9, <1>12, <2>2, <2>3 DEF Keeps
<1>13. ASSUME s \in Schedules PROVE DecidedUpTo(s, o)'
  <2> SUFFICES ASSUME NEW x \in Calendar[s], watched[s] < x, x <= o PROVE Decided(s, x)'
    BY <1>1 DEF DecidedUpTo
  <2>1. o <= tick[t].at
    BY <1>1, <1>2, <1>8, <1>13 DEF InSequence, InHand
  <2>2. x \in Int /\ o \in Int /\ tick[t].at \in Int
    BY <1>3, <1>8, <1>13, SequenceInts
  <2>3. x <= tick[t].at
    BY <2>1, <2>2
  <2>4. Decided(s, x)' \/ x \in tick[t].pending \ {o}
    BY <1>12, <1>13, <2>3
  <2>5. x \notin tick[t].pending \ {o}
    BY <1>8, <1>13, <2>2
  <2>6. QED BY <2>4, <2>5
<1>14. OldestFirst'
  <2>1. ASSUME NEW q \in Schedules, NEW e \in Enqueued(q)' PROVE DecidedUpTo(q, e)'
    <3>1. CASE e \in Enqueued(q)
      BY <1>10, <3>1 DEF InSequence, OldestFirst
    <3>2. CASE q = s /\ e = o
      BY <1>13, <3>2
    <3>3. QED BY <1>8, <3>1, <3>2
  <2>2. QED BY <2>1 DEF OldestFirst
<1>15. ASSUME NEW q \in Schedules PROVE InHand(t, q)'
  <2> SUFFICES ASSUME s = q
               PROVE  /\ \A x \in tick[t].pending \ {o} : x <= tick[t].at
                      /\ \A x \in Calendar[q] :
                           watched[q] < x /\ x <= tick[t].at =>
                             Decided(q, x)' \/ x \in tick[t].pending \ {o}
    BY <1>1, <1>2, <1>5 DEF InHand
  <2>1. \A x \in tick[t].pending \ {o} : x <= tick[t].at
    BY <1>1, <1>2 DEF InSequence, InHand
  <2>2. QED BY <1>12, <2>1
<1>16. QED BY <1>1, <1>5, <1>6, <1>7, <1>11, <1>14, <1>15, AloneKeeps

LEMMA EnqueueRejectedInSequence ==
  ASSUME BackfillInv, BackfillInv', InSequence, NEW t \in Ticks, EnqueueRejected(t)
  PROVE  InSequence'
<1>1. tick[t].pc # "idle" /\ UNCHANGED <<now, rows, mark, watched, dropped>>
  BY DEF EnqueueRejected, history
<1>2. TablesOK /\ DOMAIN tick = Ticks
  <2>1. TablesOK /\ tick = [u \in Ticks |-> tick[u]]
    BY DEF BackfillInv, TablesOK
  <2>2. DOMAIN tick = Ticks
    BY <2>1
  <2>3. QED BY <2>1, <2>2
<1>3. tick'[t] = NoTick /\ \A u \in Ticks \ {t} : tick'[u] = tick[u]
  BY <1>2 DEF EnqueueRejected
<1>4. tick'[t].pc = "idle" /\ tick'[t].at = 0
  BY <1>3 DEF NoTick
<1>5. 0 <= now /\ \A s \in Schedules : watched[s] <= now
  BY <1>2, SequenceInts DEF InSequence, InThePast
<1>6. MarkCovers' /\ OldestFirst'
  BY <1>1, CoversStill DEF InSequence
<1>7. \A s \in Schedules : InHand(t, s)'
  BY <1>4 DEF InHand
<1>8. \A u \in Ticks \ {t} : tick[u].pc = "idle"
  BY <1>1, OthersIdle
<1>9. QED BY <1>1, <1>3, <1>4, <1>5, <1>6, <1>7, <1>8, AloneKeeps

\* The watermark moves to the end of a window that has been decided.  A first look has
\* no row and nothing between itself and its watermark.
LEMMA FinishInSequence ==
  ASSUME SingleProcess, BackfillInv, BackfillInv', InSequence, NEW t \in Ticks, Finish(t)
  PROVE  InSequence'
<1>1. /\ tick[t].pc = "enqueuing" /\ tick[t].pc # "idle" /\ tick[t].pending = {}
      /\ UNCHANGED <<now, rows, dropped>>
  BY DEF Finish
<1>2. PICK s, at, p :
        /\ s = Head(tick[t].todo) /\ at = tick[t].at /\ p = ProcOf[t]
        /\ mark' = [mark EXCEPT ![p][s] = at]
        /\ watched' = [watched EXCEPT ![s] = IF @ = Never THEN at ELSE Min({@, at})]
        /\ Advance(t, Tail(tick[t].todo))
  BY DEF Finish, NewMark
<1>3. TablesOK /\ p \in Procs /\ \A r \in Procs : r = p
  BY <1>2, ConstantsAssumption DEF BackfillInv, SingleProcess
<1>4. at \in Nat /\ at <= now /\ \A q \in Schedules : watched[q] <= now /\ watched[q] <= at
  BY <1>1, <1>2, <1>3, SequenceInts DEF InSequence, InThePast
<1>5. \A q \in Schedules :
        watched'[q] = IF q = s /\ watched[q] = Never THEN at ELSE watched[q]
  <2>1. ASSUME NEW q \in Schedules, q # s PROVE watched'[q] = watched[q]
    BY <1>2, <1>3, <2>1 DEF TablesOK
  <2>2. ASSUME s \in Schedules, watched[s] = Never PROVE watched'[s] = at
    BY <1>2, <1>3, <2>2 DEF TablesOK
  <2>3. ASSUME s \in Schedules, watched[s] # Never PROVE watched'[s] = watched[s]
    <3>1. watched'[s] = Min({watched[s], at})
      BY <1>2, <1>3, <2>3 DEF TablesOK
    <3>2. watched[s] \in Nat
      BY <1>3, <2>3, InstantIsInt DEF TablesOK
    <3>3. /\ Min({watched[s], at}) \in {watched[s], at}
          /\ \A y \in {watched[s], at} : Min({watched[s], at}) <= y
      <4>1. {watched[s], at} \subseteq Nat /\ {watched[s], at} # {}
        BY <1>4, <3>2
      <4>2. QED BY <4>1, MinOfNats
    <3>4. watched[s] <= at
      BY <1>4, <2>3
    <3>5. QED BY <1>4, <3>1, <3>2, <3>3, <3>4
  <2>4. QED BY <2>1, <2>2, <2>3
<1>6. \A q \in Schedules : mark'[p][q] = IF q = s THEN at ELSE mark[p][q]
  BY <1>2, <1>3 DEF TablesOK
<1>7. \A q \in Schedules : Enqueued(q)' = Enqueued(q)
  BY <1>1 DEF Enqueued
<1>8. Keeps
  BY <1>1, <1>7, KeepsWhenTablesGrow
<1>9. at # Never
  BY <1>4 DEF Never
<1>10. ASSUME s \in Schedules PROVE DecidedUpTo(s, at)'
  <2> SUFFICES ASSUME NEW o \in Calendar[s], watched'[s] < o, o <= at PROVE Decided(s, o)'
    BY DEF DecidedUpTo
  <2>1. watched[s] # Never
    <3>1. o \in Int
      BY <1>3, <1>10, SequenceInts
    <3>2. QED BY <1>4, <1>5, <1>10, <3>1
  <2>2. watched[s] < o
    BY <1>5, <1>10, <2>1
  <2>3. Decided(s, o)
    BY <1>1, <1>2, <1>10, <2>1, <2>2 DEF InSequence, InHand
  <2>4. QED BY <1>8, <1>10, <2>3 DEF Keeps
<1>11. MarkCovers'
  <2>1. ASSUME NEW q \in Schedules, watched'[q] # Never
        PROVE  mark'[p][q] # Never /\ DecidedUpTo(q, mark[p][q])'
    <3>1. CASE q = s
      <4>1. mark'[p][q] = at
        BY <1>6, <3>1
      <4>2. QED BY <1>9, <1>10, <3>1, <4>1 DEF DecidedUpTo
    <3>2. CASE q # s
      <4>1. watched'[q] = watched[q] /\ mark'[p][q] = mark[p][q]
        BY <1>5, <1>6, <3>2
      <4>2. mark[p][q] # Never /\ DecidedUpTo(q, mark[p][q])
        BY <1>3, <2>1, <4>1 DEF InSequence, MarkCovers
      <4>3. QED BY <1>8, <4>1, <4>2 DEF DecidedUpTo, Keeps
    <3>3. QED BY <3>1, <3>2
  <2>2. ASSUME NEW q \in Schedules, watched'[q] # Never, NEW r \in Procs
        PROVE  mark'[r][q] # Never /\ DecidedUpTo(q, mark[r][q])'
    <3>1. r = p
      BY <1>3
    <3>2. mark'[p][q] # Never
      BY <2>1, <2>2
    <3>3. \A o \in Calendar[q] : watched'[q] < o /\ o <= mark'[p][q] => Decided(q, o)'
      BY <2>1, <2>2 DEF DecidedUpTo
    <3>4. QED BY <3>1, <3>2, <3>3 DEF DecidedUpTo
  <2>3. QED BY <2>2 DEF MarkCovers
<1>12. OldestFirst'
  <2>1. ASSUME NEW q \in Schedules, NEW e \in Enqueued(q) PROVE DecidedUpTo(q, e)'
    <3>1. watched[q] # Never
      BY DEF BackfillInv, NoBackfill
    <3>2. watched'[q] = watched[q]
      BY <1>5, <3>1
    <3>3. DecidedUpTo(q, e)
      BY DEF InSequence, OldestFirst
    <3>4. QED BY <1>8, <3>2, <3>3 DEF DecidedUpTo, Keeps
  <2>2. QED BY <1>7, <2>1 DEF OldestFirst
<1>13. \A u \in Ticks \ {t} : tick[u].pc = "idle" /\ tick'[u] = tick[u]
  BY <1>1, <1>2, <1>3, OthersIdle, AdvanceMoves
<1>14. /\ tick'[t].pc \in {"idle", "asking"}
       /\ IF tick'[t].pc = "idle" THEN tick'[t].at = 0 ELSE tick'[t].at = at
  BY <1>2, <1>3, AdvanceAt
<1>15. /\ tick'[t].at <= now
       /\ \A q \in Schedules : /\ watched'[q] <= now
                               /\ tick'[t].pc # "idle" => watched'[q] <= tick'[t].at
  <2>1. now \in Nat /\ at \in Int
    BY <1>3, <1>4, SequenceInts
  <2>2. \A q \in Schedules : watched'[q] <= now /\ watched'[q] <= at
    BY <1>4, <1>5, <2>1
  <2>3. QED BY <1>4, <1>14, <2>1, <2>2
<1>16. \A q \in Schedules : InHand(t, q)'
  BY <1>14 DEF InHand
<1>17. QED BY <1>1, <1>11, <1>12, <1>13, <1>15, <1>16, AloneKeeps

\* The clock, a pause and a stutter.
LEMMA IdleInSequence ==
  ASSUME BackfillInv, BackfillInv', InSequence, now <= now',
         UNCHANGED <<rows, mark, tick, watched, dropped>>
  PROVE  InSequence'
<1>1. Keeps /\ MarkCovers' /\ OldestFirst'
  BY CoversStill DEF InSequence
<1>2. TablesOK /\ now' \in Int
  <2>1. now' \in Time
    BY DEF BackfillInv, TablesOK
  <2>2. QED BY <2>1, ConstantsAssumption DEF BackfillInv, Time
<1>3. OneAtATime'
  BY DEF InSequence, OneAtATime
<1>4. InThePast'
  <2>1. /\ now \in Int /\ \A s \in Schedules : watched[s] \in Int
        /\ \A t \in Ticks : tick[t].at \in Int
    BY <1>2, SequenceInts
  <2>2. /\ \A s \in Schedules : watched[s] <= now'
        /\ \A t \in Ticks : tick[t].at <= now'
    BY <1>2, <2>1 DEF InSequence, InThePast
  <2>3. QED BY <2>2 DEF InSequence, InThePast
<1>5. ASSUME NEW t \in Ticks, NEW s \in Schedules PROVE InHand(t, s)'
  BY <1>1 DEF InSequence, InHand, Keeps
<1>6. QED BY <1>1, <1>3, <1>4, <1>5 DEF InSequence
LEMMA SequenceInit == Init => SequenceInv
<1> SUFFICES ASSUME Init PROVE SequenceInv
  OBVIOUS
<1>1. /\ \A t \in Ticks : tick[t].pc = "idle" /\ tick[t].at = 0
      /\ \A s \in Schedules : watched[s] = Never /\ Enqueued(s) = {}
      /\ now = 0 /\ crashes = 0
  BY DEF Init, NoTick, Enqueued
<1>2. OneAtATime
  BY <1>1 DEF OneAtATime
<1>3. InThePast
  BY <1>1 DEF InThePast, Never
<1>4. MarkCovers /\ OldestFirst
  BY <1>1 DEF MarkCovers, OldestFirst
<1>5. \A t \in Ticks, s \in Schedules : InHand(t, s)
  BY <1>1 DEF InHand
<1>6. QED BY <1>1, <1>2, <1>3, <1>4, <1>5 DEF SequenceInv, InSequence

LEMMA SequenceStep ==
  SingleProcess /\ BackfillInv /\ BackfillInv' /\ SequenceInv /\ [Next]_vars => SequenceInv'
<1> SUFFICES ASSUME SingleProcess, BackfillInv, BackfillInv', SequenceInv, [Next]_vars
             PROVE  SequenceInv'
  OBVIOUS
<1>1. ASSUME NEW t \in Ticks, Start(t) PROVE SequenceInv'
  <2>1. crashes' = crashes /\ overlapped' = (overlapped \/ \E u \in Ticks \ {t} : tick[u].pc # "idle")
    BY <1>1 DEF Start, faults
  <2>2. ASSUME crashes' = 0, ~ overlapped' PROVE InSequence'
    <3>1. InSequence
      BY <2>1, <2>2 DEF SequenceInv
    <3>2. QED BY <1>1, <2>2, <3>1, StartInSequence
  <2>3. QED BY <2>1, <2>2 DEF SequenceInv
<1>2. ASSUME UNCHANGED <<crashes, overlapped>>, InSequence => InSequence'
      PROVE  SequenceInv'
  BY <1>2 DEF SequenceInv
<1>3. ASSUME NEW t \in Ticks, ReadSchedules(t) PROVE SequenceInv'
  BY <1>2, <1>3, ReadSchedulesInSequence DEF ReadSchedules, history, faults
<1>4. ASSUME NEW t \in Ticks, AskTable(t) PROVE SequenceInv'
  BY <1>2, <1>4, AskTableInSequence DEF AskTable, history, faults
<1>5. ASSUME NEW t \in Ticks, Plan(t) PROVE SequenceInv'
  BY <1>2, <1>5, PlanInSequence DEF Plan, faults
<1>6. ASSUME NEW t \in Ticks, EnqueueNext(t) PROVE SequenceInv'
  BY <1>2, <1>6, EnqueueNextInSequence DEF EnqueueNext, history, faults
<1>7. ASSUME NEW t \in Ticks, Finish(t) PROVE SequenceInv'
  BY <1>2, <1>7, FinishInSequence DEF Finish, faults
<1>8. ASSUME NEW t \in Ticks, EnqueueRejected(t) PROVE SequenceInv'
  BY <1>2, <1>8, EnqueueRejectedInSequence DEF EnqueueRejected, history
<1>9. ASSUME now <= now', UNCHANGED <<rows, mark, tick, history, crashes>>
      PROVE  SequenceInv'
  BY <1>2, <1>9, IdleInSequence DEF history
<1>10. now <= now
  BY SequenceInts DEF BackfillInv
<1>11. CASE Clock
  <2>1. now <= now'
    BY <1>10, <1>11, SequenceInts DEF Clock, BackfillInv
  <2>2. QED BY <1>9, <1>11, <2>1 DEF Clock, faults
<1>12. ASSUME NEW s \in Schedules, Pause(s) PROVE SequenceInv'
  BY <1>9, <1>10, <1>12 DEF Pause
<1>13. CASE UNCHANGED vars
  BY <1>9, <1>10, <1>13 DEF vars, faults
<1>14. ASSUME NEW p \in Procs, Crash(p) PROVE SequenceInv'
  <2>1. crashes' = crashes + 1 /\ crashes \in Nat
    BY <1>14 DEF Crash, SequenceInv
  <2>2. crashes' \in Nat /\ crashes' # 0
    BY <2>1
  <2>3. QED BY <2>2 DEF SequenceInv
<1>15. ASSUME NEW t \in Ticks, TickStep(t) \/ EnqueueRejected(t) PROVE SequenceInv'
  BY <1>1, <1>3, <1>4, <1>5, <1>6, <1>7, <1>8, <1>15 DEF TickStep
<1>16. QED BY <1>11, <1>12, <1>13, <1>14, <1>15 DEF Next

\* What has not been decided is past the watermark and past every row: the next tick
\* starts before it.
LEMMA NothingLost ==
  SingleProcess /\ BackfillInv /\ SequenceInv => NoLossInSequence
<1> SUFFICES ASSUME SingleProcess, BackfillInv, InSequence,
                    NEW s \in Schedules, watched[s] # Never,
                    NEW o \in Due(s, watched[s], now), ~ Decided(s, o)
             PROVE  Ahead(s, o)
  BY DEF SequenceInv, NoLossInSequence, NoLostOccurrence, Accounted
<1>1. TablesOK /\ o \in Calendar[s] /\ watched[s] < o
  BY DEF BackfillInv, Due
<1>2. o \in Nat
  BY <1>1, SequenceInts
<1>3. ASSUME NEW p \in Procs, NEW newest \in LastScheduledFor(s)
      PROVE  o > Since(s, newest, mark[p][s], now)
  <2>1. PICK m : m = mark[p][s]
    OBVIOUS
  <2>2. m \in Int /\ m # Never /\ DecidedUpTo(s, m)
    BY <1>1, <2>1, SequenceInts DEF InSequence, MarkCovers
  <2>3. m < o
    <3>1. ~ (o <= m)
      BY <1>1, <2>2 DEF DecidedUpTo
    <3>2. QED BY <1>2, <2>2, <3>1
  <2>4. newest \in Enqueued(s) \cup {Never}
    BY DEF LastScheduledFor, Newest
  <2>5. newest \in Int /\ newest < o
    <3>1. CASE newest = Never
      BY <1>2, <3>1 DEF Never
    <3>2. CASE newest \in Enqueued(s)
      <4>1. newest \in Int
        BY <3>2, CalendarIsTime DEF Enqueued
      <4>2. ~ (o <= newest)
        BY <1>1, <3>2 DEF InSequence, OldestFirst, DecidedUpTo
      <4>3. QED BY <1>2, <4>1, <4>2
    <3>3. QED BY <2>4, <3>1, <3>2
  <2>6. Since(s, newest, m, now) = Max({newest, m})
    BY <2>2 DEF Since
  <2>7. Max({newest, m}) \in {newest, m}
    BY <2>2, <2>5, MaxOfTwo
  <2>8. QED BY <1>2, <2>1, <2>2, <2>3, <2>5, <2>6, <2>7
<1>4. QED BY <1>3 DEF Ahead, SingleProcess

\* Nothing is lost by one process that lives, and whose ticks do not overlap: every
\* occurrence since the first look has its job, was discarded by the bound, or is found
\* by the next tick; whatever is rejected or paused, for every calendar.
THEOREM NothingLostInSequence ==
  ASSUME SingleProcess
  PROVE  Spec => []NoLossInSequence
<1>1. SingleProcess
  OBVIOUS
<1>2. Init => BackfillInv /\ SequenceInv
  BY BackfillInit, SequenceInit
<1>3. BackfillInv /\ SequenceInv /\ [Next]_vars => (BackfillInv /\ SequenceInv)'
  BY <1>1, BackfillStep, SequenceStep
<1>4. BackfillInv /\ SequenceInv => NoLossInSequence
  BY <1>1, NothingLost
<1>5. QED BY <1>2, <1>3, <1>4, PTL DEF Spec

(***************************************************************************)
(* Part 2.  The token buckets.                                              *)
(***************************************************************************)
-----------------------------------------------------------------------------
(* The inductive invariant.                                                *)

\* The refills that restarts gave away.
Restarted(st) == Window * (1 + (IF st = Table THEN 0 ELSE restarts[st]))

\* What was given and what is left were refilled at some time: the last stamp,
\* or the time it was set back by.
Balanced(st, k) ==
  /\ given[st][k] + bucket[st][k].level <= Restarted(st) + seen[st][k] + setBack[st][k]
  /\ bucket[st][k] # None => bucket[st][k].at = seen[st][k]

\* Stamps are no later than some clock is now.
Passed(t) == \E i \in Instances : t <= ClockOf(i)

BudgetInv ==
  /\ BucketsTypeOK
  /\ \A st \in Stores, k \in Keys : Balanced(st, k) /\ Passed(seen[st][k])
  /\ \A c \in Callers : call[c].pc # "idle" => Passed(call[c].now)

-----------------------------------------------------------------------------
(* Facts about the helpers.                                                *)

LEMMA IdleIsCall == Idle \in Call /\ Idle.pc = "idle"
<1>1. \E c \in [pc : {"idle"}, key : Keys, max : Budgets, now : {0}] : TRUE
  <2>1. PICK k \in Keys, max \in Budgets : TRUE
    BY BucketsAssumption
  <2>2. [pc |-> "idle", key |-> k, max |-> max, now |-> 0]
          \in [pc : {"idle"}, key : Keys, max : Budgets, now : {0}]
    OBVIOUS
  <2>3. QED BY <2>2
<1>2. Idle \in [pc : {"idle"}, key : Keys, max : Budgets, now : {0}]
  BY <1>1 DEF Idle
<1>3. QED BY <1>2 DEF Call

LEMMA BucketFacts ==
  ASSUME NEW b \in Bucket
  PROVE  /\ b.level \in 0..Window
         /\ b # None => b.at \in Nat
BY BucketsAssumption DEF Bucket, None

\* A refill never exceeds the time that has passed, nor the bucket.
LEMMA RefilledFacts ==
  ASSUME NEW b \in Bucket, NEW stamp \in Nat
  PROVE  /\ Refilled(b, stamp) \in 0..Window
         /\ b = None => Refilled(b, stamp) <= b.level
         /\ b # None => Refilled(b, stamp) <= b.level + (IF stamp > b.at THEN stamp - b.at ELSE 0)
<1>1. b.level \in 0..Window /\ Window \in Nat
  BY BucketFacts, BucketsAssumption
<1>2. CASE b = None
  <2>1. b.level = Window
    BY <1>2 DEF None
  <2>2. Refilled(b, stamp) = Window
    BY <1>2 DEF Refilled
  <2>3. QED BY <1>1, <1>2, <2>1, <2>2
<1>3. CASE b # None
  <2>1. b.at \in Nat
    BY <1>3, BucketFacts
  <2>2. QED BY <1>1, <1>3, <2>1 DEF Refilled, Elapsed
<1>4. QED BY <1>2, <1>3

LEMMA CostIsNat ==
  ASSUME NEW max \in Budgets, max >= 1
  PROVE  Cost(max) \in Nat
BY BucketsAssumption DEF Cost

\* An instance of the deployment has a store.
LEMMA StoreOfIsStore ==
  ASSUME NEW i \in Instances
  PROVE  StoreOf(i) \in Stores
BY DEF StoreOf, Stores

-----------------------------------------------------------------------------
LEMMA InitBalanced == BucketsInit => BudgetInv
<1> SUFFICES ASSUME BucketsInit PROVE BudgetInv
  OBVIOUS
<1> USE DEF BucketsInit, PerBucket
<1>1. None \in Bucket /\ None.level = Window
  BY DEF Bucket, None
<1>2. BucketsTypeOK
  BY <1>1, IdleIsCall DEF BucketsTypeOK
<1>3. ASSUME NEW st \in Stores, NEW k \in Keys
      PROVE  Balanced(st, k) /\ Passed(seen[st][k])
  <2>1. /\ given[st][k] = 0 /\ seen[st][k] = 0 /\ setBack[st][k] = 0
        /\ bucket[st][k] = None
    OBVIOUS
  <2>2. Restarted(st) = Window
    BY BucketsAssumption DEF Restarted, Stores
  <2>3. PICK i \in Instances : TRUE
    BY BucketsAssumption
  <2>4. 0 <= ClockOf(i)
    BY BucketsAssumption DEF ClockOf
  <2>5. QED BY <1>1, <2>1, <2>2, <2>4, BucketsAssumption DEF Balanced, Passed
<1>4. QED BY <1>2, <1>3, IdleIsCall DEF BudgetInv

LEMMA TakeBalanced ==
  ASSUME BudgetInv, NEW c \in Callers, Take(c)
  PROVE  BudgetInv'
<1> DEFINE st == StoreOf(At[c])
           k == call[c].key
           stamp == call[c].now
           b == bucket[st][k]
           level == Refilled(b, stamp)
           cost == Cost(call[c].max)
           paid == IF level >= cost THEN cost ELSE 0
<1>1. /\ st \in Stores /\ k \in Keys /\ stamp \in Nat /\ b \in Bucket
      /\ call[c] \in Call /\ call[c].max \in Budgets /\ call[c].max >= 1
  <2>1. call[c] \in Call
    BY DEF BudgetInv, BucketsTypeOK
  <2>2. st \in Stores
    BY StoreOfIsStore, BucketsAssumption
  <2>3. QED BY <2>1, <2>2 DEF BudgetInv, BucketsTypeOK, Call, Take
<1>2. /\ bucket' = [bucket EXCEPT ![st][k] = [level |-> level - paid, at |-> stamp]]
      /\ given' = [given EXCEPT ![st][k] = given[st][k] + paid]
      /\ setBack' = SetBack(st, k, stamp)
      /\ seen' = [seen EXCEPT ![st][k] = stamp]
      /\ call' = [call EXCEPT ![c] = Idle] \/ call' = [call EXCEPT ![c].pc = "sweep"]
      /\ UNCHANGED <<kind, clock, restarts, calls>>
  BY DEF Take
<1>3. /\ level \in 0..Window /\ cost \in Nat /\ paid \in Nat /\ paid <= level
      /\ b = None => level <= b.level
      /\ b # None => level <= b.level + (IF stamp > b.at THEN stamp - b.at ELSE 0)
      /\ b.level \in 0..Window
      /\ b # None => b.at \in Nat
  <2>1. /\ level \in 0..Window
        /\ b = None => level <= b.level
        /\ b # None => level <= b.level + (IF stamp > b.at THEN stamp - b.at ELSE 0)
    BY <1>1, RefilledFacts
  <2>2. b # None => b.at \in Nat
    BY <1>1, BucketFacts
  <2>3. b.level \in 0..Window
    BY <1>1, BucketFacts
  <2>4. cost \in Nat
    BY <1>1, CostIsNat
  <2> HIDE DEF level, cost, b, stamp
  <2>5. paid \in Nat /\ paid <= level
    BY <2>1, <2>4, BucketsAssumption
  <2>6. QED BY <2>1, <2>2, <2>3, <2>4, <2>5
<1>4. call[c].pc # "idle" /\ Passed(stamp)
  BY DEF Take, BudgetInv
<1> HIDE DEF level, cost, paid, st, k, stamp, b
<1>5. [level |-> level - paid, at |-> stamp] \in Bucket \ {None}
  BY <1>1, <1>3, BucketsAssumption DEF Bucket, None
<1>6. call' \in [Callers -> Call]
  <2>1. [call[c] EXCEPT !.pc = "sweep"] \in Call
    BY <1>1 DEF Call
  <2>2. QED BY <1>2, <2>1, IdleIsCall DEF BudgetInv, BucketsTypeOK
<1>7. setBack' \in [Stores -> [Keys -> Nat]]
  <2>1. seen[st][k] \in Nat /\ setBack[st][k] \in Nat
    BY <1>1 DEF BudgetInv, BucketsTypeOK
  <2>2. (IF stamp < seen[st][k] THEN setBack[st][k] + (seen[st][k] - stamp) ELSE setBack[st][k]) \in Nat
    BY <1>1, <2>1
  <2>3. QED BY <1>1, <1>2, <2>2 DEF BudgetInv, BucketsTypeOK, SetBack
<1>8. BucketsTypeOK'
  <2>1. bucket' \in [Stores -> [Keys -> Bucket]]
    BY <1>1, <1>2, <1>5 DEF BudgetInv, BucketsTypeOK
  <2>2. given' \in [Stores -> [Keys -> Nat]]
    <3>1. given[st][k] + paid \in Nat
      BY <1>1, <1>3 DEF BudgetInv, BucketsTypeOK
    <3>2. QED BY <1>1, <1>2, <3>1 DEF BudgetInv, BucketsTypeOK
  <2>3. seen' \in [Stores -> [Keys -> Nat]]
    BY <1>1, <1>2 DEF BudgetInv, BucketsTypeOK
  <2>4. QED BY <1>2, <1>6, <1>7, <2>1, <2>2, <2>3 DEF BudgetInv, BucketsTypeOK
<1>9. ASSUME NEW s \in Stores, NEW q \in Keys
      PROVE  Balanced(s, q)' /\ Passed(seen[s][q])'
  <2>1. Restarted(s)' = Restarted(s) /\ \A t \in Nat : Passed(t)' = Passed(t)
    BY <1>2 DEF Restarted, Passed, ClockOf
  <2>2. Balanced(s, q) /\ Passed(seen[s][q])
    BY DEF BudgetInv
  <2>3. CASE s = st /\ q = k
    <3>1. /\ bucket'[s][q] = [level |-> level - paid, at |-> stamp]
          /\ given'[s][q] = given[st][k] + paid /\ seen'[s][q] = stamp
          /\ setBack'[s][q] = IF stamp < seen[st][k] THEN setBack[st][k] + (seen[st][k] - stamp)
                              ELSE setBack[st][k]
      BY <1>1, <1>2, <2>3 DEF BudgetInv, BucketsTypeOK, SetBack
    <3>2. /\ given[st][k] \in Nat /\ seen[st][k] \in Nat /\ setBack[st][k] \in Nat
          /\ Restarted(s) \in Int
      BY <1>1, BucketsAssumption DEF BudgetInv, BucketsTypeOK, Restarted, Stores
    <3>3. /\ given[st][k] + b.level <= Restarted(s) + seen[st][k] + setBack[st][k]
          /\ b # None => b.at = seen[st][k]
      BY <2>2, <2>3 DEF Balanced, b
    <3>4. given'[s][q] + (level - paid) <= Restarted(s) + seen'[s][q] + setBack'[s][q]
      <4> DEFINE S == given[st][k]
                 N == seen[st][k]
                 B == setBack[st][k]
                 R == Restarted(s)
      <4>1. S \in Nat /\ N \in Nat /\ B \in Nat /\ R \in Int
        BY <3>2
      <4>2. S + b.level <= R + N + B /\ (b # None => b.at = N)
        BY <3>3
      <4>3. level <= b.level + (IF stamp > N THEN stamp - N ELSE 0)
        <5>1. b.level \in Nat /\ level \in Nat /\ stamp \in Nat
          BY <1>1, <1>3, BucketsAssumption
        <5>2. CASE b = None
          <6>1. level <= b.level
            BY <1>3, <5>2
          <6>2. QED BY <4>1, <5>1, <6>1
        <5>3. CASE b # None
          BY <1>3, <4>2, <5>3
        <5>4. QED BY <5>2, <5>3
      <4>4. /\ given'[s][q] = S + paid /\ seen'[s][q] = stamp
            /\ setBack'[s][q] = IF stamp < N THEN B + (N - stamp) ELSE B
        BY <3>1
      <4> HIDE DEF S, N, B, R
      <4>5. (S + paid) + (level - paid) <= R + stamp + (IF stamp < N THEN B + (N - stamp) ELSE B)
        <5>1. b.level \in Nat /\ level \in Nat /\ stamp \in Nat /\ paid \in Nat
          BY <1>1, <1>3, BucketsAssumption
        <5>2. CASE stamp < N
          BY <4>1, <4>2, <4>3, <5>1, <5>2
        <5>3. CASE ~(stamp < N)
          BY <4>1, <4>2, <4>3, <5>1, <5>3
        <5>4. QED BY <5>2, <5>3
      <4>6. QED BY <4>4, <4>5 DEF R
    <3>5. Balanced(s, q)'
      BY <2>1, <3>1, <3>4 DEF Balanced
    <3>6. QED BY <1>1, <1>4, <2>1, <3>1, <3>5
  <2>4. CASE ~(s = st /\ q = k)
    <3>1. /\ bucket'[s][q] = bucket[s][q] /\ given'[s][q] = given[s][q]
          /\ seen'[s][q] = seen[s][q] /\ setBack'[s][q] = setBack[s][q]
      BY <1>1, <1>2, <2>4 DEF BudgetInv, BucketsTypeOK, SetBack
    <3>2. seen[s][q] \in Nat
      BY DEF BudgetInv, BucketsTypeOK
    <3>3. QED BY <2>1, <2>2, <3>1, <3>2 DEF Balanced
  <2>5. QED BY <2>3, <2>4
<1>10. ASSUME NEW d \in Callers, call'[d].pc # "idle"
       PROVE  Passed(call[d].now)'
  <2>1. call[d].now \in Nat
    BY DEF BudgetInv, BucketsTypeOK, Call
  <2>2. call'[d].now = call[d].now /\ call[d].pc # "idle"
    <3>1. CASE d = c
      <4>1. call'[d] = Idle \/ call'[d] = [call[d] EXCEPT !.pc = "sweep"]
        BY <1>2, <3>1 DEF BudgetInv, BucketsTypeOK
      <4>2. call'[d] = [call[d] EXCEPT !.pc = "sweep"]
        BY <4>1, <1>10, IdleIsCall
      <4>3. call[d] \in Call
        BY DEF BudgetInv, BucketsTypeOK
      <4>4. QED BY <1>4, <3>1, <4>2, <4>3 DEF Call
    <3>2. CASE d # c
      BY <1>2, <1>10, <3>2 DEF BudgetInv, BucketsTypeOK
    <3>3. QED BY <3>1, <3>2
  <2>3. Passed(call[d].now)
    BY <2>2 DEF BudgetInv
  <2>4. QED BY <1>2, <2>1, <2>2, <2>3 DEF Passed, ClockOf
<1>11. QED BY <1>8, <1>9, <1>10 DEF BudgetInv

LEMMA SweepBalanced ==
  ASSUME BudgetInv, NEW c \in Callers, Sweep(c)
  PROVE  BudgetInv'
<1> DEFINE st == StoreOf(At[c])
           stamp == call[c].now
           gone == {k \in Keys : bucket[st][k] # None /\ Untouched(bucket[st][k], stamp)}
<1>1. /\ st \in Stores /\ stamp \in Nat /\ call[c] \in Call
      /\ call[c].pc # "idle" /\ Passed(stamp)
  BY StoreOfIsStore, BucketsAssumption DEF BudgetInv, BucketsTypeOK, Call, Sweep
<1>2. /\ bucket' = [bucket EXCEPT ![st] = [k \in Keys |-> IF k \in gone THEN None ELSE bucket[st][k]]]
      /\ seen' = [seen EXCEPT ![st] = [k \in Keys |-> IF k \in gone THEN stamp ELSE seen[st][k]]]
      /\ call' = [call EXCEPT ![c] = Idle]
      /\ UNCHANGED <<kind, clock, given, setBack, restarts, calls>>
  BY DEF Sweep
<1>3. ASSUME NEW k \in gone
      PROVE  /\ k \in Keys /\ bucket[st][k] # None
             /\ bucket[st][k].at < stamp - Retention
  BY DEF Untouched
<1> HIDE DEF st, stamp, gone
<1>4. None \in Bucket /\ None.level = Window /\ Window \in Nat /\ Retention \in Nat
      /\ Window <= Retention
  BY BucketsAssumption, RetentionAssumption DEF Bucket, None
<1>5. BucketsTypeOK'
  <2>1. bucket' \in [Stores -> [Keys -> Bucket]]
    BY <1>1, <1>2, <1>4 DEF BudgetInv, BucketsTypeOK
  <2>2. seen' \in [Stores -> [Keys -> Nat]]
    BY <1>1, <1>2 DEF BudgetInv, BucketsTypeOK
  <2>3. QED BY <1>2, <2>1, <2>2, IdleIsCall DEF BudgetInv, BucketsTypeOK
<1>6. ASSUME NEW s \in Stores, NEW q \in Keys
      PROVE  Balanced(s, q)' /\ Passed(seen[s][q])'
  <2>1. Restarted(s)' = Restarted(s) /\ \A t \in Nat : Passed(t)' = Passed(t)
    BY <1>2 DEF Restarted, Passed, ClockOf
  <2>2. Balanced(s, q) /\ Passed(seen[s][q])
    BY DEF BudgetInv
  <2>3. CASE s = st /\ q \in gone
    <3>1. /\ bucket'[s][q] = None /\ seen'[s][q] = stamp
          /\ given'[s][q] = given[s][q] /\ setBack'[s][q] = setBack[s][q]
      BY <1>1, <1>2, <2>3 DEF BudgetInv, BucketsTypeOK
    <3>2. /\ given[s][q] \in Nat /\ seen[s][q] \in Nat /\ setBack[s][q] \in Nat
          /\ Restarted(s) \in Int /\ bucket[s][q].level \in Nat
      BY BucketFacts, BucketsAssumption DEF BudgetInv, BucketsTypeOK, Restarted, Stores
    <3>3. bucket[s][q] # None /\ bucket[s][q].at < stamp - Retention
      BY <1>3, <2>3
    <3>4. bucket[s][q].at = seen[s][q]
      BY <2>2, <3>3 DEF Balanced
    <3>5. given[s][q] + bucket[s][q].level <= Restarted(s) + seen[s][q] + setBack[s][q]
      BY <2>2 DEF Balanced
    <3>6. given[s][q] + Window <= Restarted(s) + stamp + setBack[s][q]
      BY <1>1, <1>4, <3>2, <3>3, <3>4, <3>5
    <3>7. Balanced(s, q)'
      BY <1>4, <2>1, <3>1, <3>6 DEF Balanced
    <3>8. QED BY <1>1, <2>1, <3>1, <3>7
  <2>4. CASE ~(s = st /\ q \in gone)
    <3>1. /\ bucket'[s][q] = bucket[s][q] /\ given'[s][q] = given[s][q]
          /\ seen'[s][q] = seen[s][q] /\ setBack'[s][q] = setBack[s][q]
      BY <1>1, <1>2, <2>4 DEF BudgetInv, BucketsTypeOK
    <3>2. seen[s][q] \in Nat
      BY DEF BudgetInv, BucketsTypeOK
    <3>3. QED BY <2>1, <2>2, <3>1, <3>2 DEF Balanced
  <2>5. QED BY <2>3, <2>4
<1>7. ASSUME NEW d \in Callers, call'[d].pc # "idle"
      PROVE  Passed(call[d].now)'
  <2>1. call'[d] = call[d]
    BY <1>2, <1>7, IdleIsCall DEF BudgetInv, BucketsTypeOK
  <2>2. QED BY <1>2, <1>7, <2>1 DEF BudgetInv, Passed, ClockOf
<1>8. QED BY <1>5, <1>6, <1>7 DEF BudgetInv

LEMMA RestartBalanced ==
  ASSUME BudgetInv, NEW i \in Instances, Restart(i)
  PROVE  BudgetInv'
<1>1. /\ restarts' = [restarts EXCEPT ![i] = restarts[i] + 1]
      /\ call' = [c \in Callers |-> IF At[c] = i THEN Idle ELSE call[c]]
      /\ bucket' = [bucket EXCEPT ![i] = [k \in Keys |-> None]]
      /\ UNCHANGED <<kind, clock, given, seen, setBack, calls>>
      /\ i \in Stores /\ i # Table
  BY BucketsAssumption DEF Restart, bucketHistory, Stores
<1>2. None \in Bucket /\ None.level = Window /\ Window \in Nat
  BY BucketsAssumption DEF Bucket, None
<1>3. BucketsTypeOK'
  <2>1. bucket' \in [Stores -> [Keys -> Bucket]]
    BY <1>1, <1>2 DEF BudgetInv, BucketsTypeOK
  <2>2. restarts' \in [Instances -> Nat]
    BY <1>1 DEF BudgetInv, BucketsTypeOK
  <2>3. QED BY <1>1, <2>1, <2>2, IdleIsCall DEF BudgetInv, BucketsTypeOK
<1>4. ASSUME NEW s \in Stores, NEW q \in Keys
      PROVE  Balanced(s, q)' /\ Passed(seen[s][q])'
  <2>1. Balanced(s, q) /\ Passed(seen[s][q])
    BY DEF BudgetInv
  <2>2. /\ given[s][q] \in Nat /\ seen[s][q] \in Nat /\ setBack[s][q] \in Nat
        /\ bucket[s][q].level \in Nat
    BY BucketFacts, BucketsAssumption DEF BudgetInv, BucketsTypeOK
  <2>3. Passed(seen[s][q])'
    BY <1>1, <2>1 DEF Passed, ClockOf
  <2>4. CASE s = i
    <3>1. bucket'[s][q] = None
      BY <1>1, <2>4 DEF BudgetInv, BucketsTypeOK
    <3>2. /\ restarts[s] \in Nat /\ restarts'[s] = restarts[s] + 1
      BY <1>1, <2>4 DEF BudgetInv, BucketsTypeOK
    <3>3. Restarted(s)' = Restarted(s) + Window /\ Restarted(s) \in Nat
      BY <1>1, <1>2, <2>4, <3>2 DEF Restarted
    <3>4. given[s][q] + bucket[s][q].level <= Restarted(s) + seen[s][q] + setBack[s][q]
      BY <2>1 DEF Balanced
    <3>5. given[s][q] + Window <= (Restarted(s) + Window) + seen[s][q] + setBack[s][q]
      BY <1>2, <2>2, <3>3, <3>4
    <3>6. QED BY <1>1, <1>2, <2>3, <3>1, <3>3, <3>5 DEF Balanced
  <2>5. CASE s # i
    <3>1. bucket'[s] = bucket[s] /\ (s # Table => restarts'[s] = restarts[s])
      BY <1>1, <2>5 DEF BudgetInv, BucketsTypeOK, Stores
    <3>2. Restarted(s)' = Restarted(s)
      BY <3>1 DEF Restarted
    <3>3. QED BY <1>1, <2>1, <2>3, <3>1, <3>2 DEF Balanced
  <2>6. QED BY <2>4, <2>5
<1>5. ASSUME NEW d \in Callers, call'[d].pc # "idle"
      PROVE  Passed(call[d].now)'
  <2>1. call'[d] = call[d]
    BY <1>1, <1>5, IdleIsCall
  <2>2. QED BY <1>1, <1>5, <2>1 DEF BudgetInv, Passed, ClockOf
<1>6. QED BY <1>3, <1>4, <1>5 DEF BudgetInv

\* Steps that leave the buckets alone and do not turn a clock back.
LEMMA FrameBalanced ==
  ASSUME BudgetInv, BucketsTypeOK',
         UNCHANGED <<bucket, given, seen, setBack, restarts>>,
         clock <= clock',
         \A c \in Callers : call'[c].pc # "idle" =>
            call'[c] = call[c] \/ call'[c].now = ClockOf(At[c])'
  PROVE  BudgetInv'
<1>1. ASSUME NEW t \in Nat, Passed(t)
      PROVE  Passed(t)'
  <2>1. PICK i \in Instances : t <= ClockOf(i)
    BY <1>1 DEF Passed
  <2>2. Skew[i] \in Nat /\ clock \in Nat /\ clock' \in Nat
    BY BucketsAssumption DEF BudgetInv, BucketsTypeOK
  <2>3. t <= ClockOf(i)'
    BY <2>1, <2>2 DEF ClockOf
  <2>4. QED BY <2>3 DEF Passed
<1>2. ASSUME NEW st \in Stores, NEW k \in Keys
      PROVE  Balanced(st, k)' /\ Passed(seen[st][k])'
  <2>1. seen[st][k] \in Nat /\ Balanced(st, k) /\ Passed(seen[st][k])
    BY DEF BudgetInv, BucketsTypeOK
  <2>2. Passed(seen[st][k])'
    BY <1>1, <2>1
  <2>3. QED BY <2>1, <2>2 DEF Balanced, Restarted
<1>3. ASSUME NEW c \in Callers, call'[c].pc # "idle"
      PROVE  Passed(call[c].now)'
  <2>1. CASE call'[c] = call[c]
    <3>1. call[c].now \in Nat /\ Passed(call[c].now)
      BY <1>3, <2>1 DEF BudgetInv, BucketsTypeOK, Call
    <3>2. QED BY <1>1, <2>1, <3>1
  <2>2. CASE call'[c].now = ClockOf(At[c])'
    <3>1. At[c] \in Instances /\ ClockOf(At[c])' \in Nat
      BY BucketsAssumption DEF BucketsTypeOK, ClockOf
    <3>2. QED BY <2>2, <3>1 DEF Passed
  <2>3. QED BY <1>3, <2>1, <2>2
<1>4. QED BY <1>2, <1>3 DEF BudgetInv

LEMMA StepBalanced == BudgetInv /\ [BucketsNext]_bucketVars => BudgetInv'
<1> SUFFICES ASSUME BudgetInv, [BucketsNext]_bucketVars PROVE BudgetInv'
  OBVIOUS
<1> USE DEF bucketHistory
<1>0. BucketsTypeOK /\ clock \in Nat
  BY DEF BudgetInv, BucketsTypeOK
<1>1. ASSUME NEW c \in Callers, Check(c)
      PROVE  BudgetInv'
  <2>1. PICK k \in Keys, max \in Budgets :
          call' = [call EXCEPT ![c] = [pc |-> "take", key |-> k, max |-> max, now |-> ClockOf(At[c])]]
    BY <1>1 DEF Check
  <2>2. ClockOf(At[c]) \in Nat
    BY <1>0, BucketsAssumption DEF ClockOf
  <2>3. call' \in [Callers -> Call]
    BY <1>0, <2>1, <2>2 DEF BucketsTypeOK, Call
  <2>4. BucketsTypeOK'
    BY <1>0, <1>1, <2>3 DEF Check, BucketsTypeOK
  <2>5. ASSUME NEW d \in Callers
        PROVE  call'[d] = call[d] \/ call'[d].now = ClockOf(At[d])'
    BY <1>0, <1>1, <2>1 DEF Check, BucketsTypeOK, ClockOf
  <2>6. clock' = clock /\ UNCHANGED <<bucket, given, seen, setBack, restarts>>
    BY <1>1 DEF Check
  <2>7. QED BY <1>0, <2>4, <2>5, <2>6, FrameBalanced
<1>2. ASSUME NEW c \in Callers, RefuseUnbudgeted(c)
      PROVE  BudgetInv'
  <2>1. BucketsTypeOK'
    BY <1>0, <1>2, IdleIsCall DEF RefuseUnbudgeted, BucketsTypeOK
  <2>2. \A d \in Callers : call'[d].pc # "idle" => call'[d] = call[d]
    BY <1>0, <1>2, IdleIsCall DEF RefuseUnbudgeted, BucketsTypeOK
  <2>3. clock' = clock /\ UNCHANGED <<bucket, given, seen, setBack, restarts>>
    BY <1>2 DEF RefuseUnbudgeted
  <2>4. QED BY <1>0, <2>1, <2>2, <2>3, FrameBalanced
<1>3. CASE ClockTicks
  <2>1. BucketsTypeOK' /\ call' = call /\ clock' = clock + 1
        /\ UNCHANGED <<bucket, given, seen, setBack, restarts>>
    BY <1>0, <1>3 DEF ClockTicks, BucketsTypeOK
  <2>2. QED BY <1>0, <2>1, FrameBalanced
<1>4. CASE UNCHANGED bucketVars
  <2>1. BucketsTypeOK' /\ call' = call /\ clock' = clock
        /\ UNCHANGED <<bucket, given, seen, setBack, restarts>>
    BY <1>0, <1>4 DEF bucketVars, BucketsTypeOK
  <2>2. QED BY <1>0, <2>1, FrameBalanced
<1>5. QED BY <1>1, <1>2, <1>3, <1>4, TakeBalanced, SweepBalanced, RestartBalanced DEF BucketsNext

-----------------------------------------------------------------------------
(* The theorems.                                                           *)

\* Every reachable state is one of the state space: no bucket overflows nor is
\* overdrawn, whatever the clocks of the callers say.
THEOREM BucketsTyped == BucketsSpec => []BucketsTypeOK
<1>1. BucketsInit => BudgetInv
  BY InitBalanced
<1>2. BudgetInv /\ [BucketsNext]_bucketVars => BudgetInv'
  BY StepBalanced
<1>3. BudgetInv => BucketsTypeOK
  BY DEF BudgetInv
<1>4. QED BY <1>1, <1>2, <1>3, PTL DEF BucketsSpec

\* A bucket never gives more than its capacity, the refill of the time that has
\* passed, the restarts of a process that keeps it, and the time that stamps out
\* of order set it back: for any callers, budgets, clocks and sweeps.
THEOREM BudgetKept == BucketsSpec => []WithinBudget
<1>1. BucketsInit => BudgetInv
  BY InitBalanced
<1>2. BudgetInv /\ [BucketsNext]_bucketVars => BudgetInv'
  BY StepBalanced
<1>3. BudgetInv => WithinBudget
  <2> SUFFICES ASSUME BudgetInv, NEW st \in Stores, NEW k \in Keys
               PROVE  \E i \in Instances :
                        given[st][k] <= Restarted(st) + ClockOf(i) + setBack[st][k]
    BY DEF WithinBudget, Restarted
  <2>1. Balanced(st, k) /\ Passed(seen[st][k]) /\ BucketsTypeOK
    BY DEF BudgetInv
  <2>2. PICK i \in Instances : seen[st][k] <= ClockOf(i)
    BY <2>1 DEF Passed
  <2>3. /\ given[st][k] \in Nat /\ seen[st][k] \in Nat /\ setBack[st][k] \in Nat
        /\ ClockOf(i) \in Nat /\ bucket[st][k].level \in Nat
        /\ Restarted(st) \in Int
    BY <2>1, BucketFacts, BucketsAssumption DEF BucketsTypeOK, ClockOf, Restarted, Stores
  <2>4. given[st][k] + bucket[st][k].level <= Restarted(st) + seen[st][k] + setBack[st][k]
    BY <2>1 DEF Balanced
  <2>5. QED BY <2>2, <2>3, <2>4
<1>4. QED BY <1>1, <1>2, <1>3, PTL DEF BucketsSpec
==============================================================================
