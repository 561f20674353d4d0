----------------------------- MODULE Operations -----------------------------
(***************************************************************************)
(* The write operations of packages/maxstack-core/src/sprout/operations.ts *)
(* on one resource: create, update, delete, restore, a list action run     *)
(* over a selection and its undo, and the two steps of an import.          *)
(*                                                                         *)
(* A request is a list of single-row writes; each reads the row it is      *)
(* about, counts the rows that hold the value it moves to, and writes,     *)
(* awaiting the store every time and with no transaction around the three. *)
(* A row has an upsert key and one column whose values may be capped.      *)
(* Who may do what (authorize, tenancy, portals, validation) is a choice:  *)
(* any write may be refused.  Announcing the change is module Live.        *)
(***************************************************************************)
EXTENDS Naturals, FiniteSets, Sequences

CONSTANTS
  Ids,          \* primary keys; a hard-deleted one is not used again
  UpsertKeys,   \* values of the column an importer upserts on
  ColumnValues, \* values of the capped column
  Limit,        \* valueLimits: capped value -> rows that may hold it
  Files,        \* the files somebody may import: sequences of lines
  Selections,   \* the selections of an action, as sent: sequences of ids
  Tables,       \* what the table may hold to begin with
  Requests,     \* requests that may be in progress together
  MaxRequests   \* bound: requests that come

Capped == DOMAIN Limit
Line   == [key : UpsertKeys, to : ColumnValues]
Row    == [at : {"absent", "live", "deleted", "gone"}, key : UpsertKeys, value : ColumnValues]

ASSUME ConstantsAssumption ==
  /\ IsFiniteSet(Ids) /\ IsFiniteSet(Requests) /\ Requests # {}
  /\ UpsertKeys # {} /\ ColumnValues # {}
  /\ Capped \subseteq ColumnValues /\ Limit \in [Capped -> Nat]
  /\ Files \subseteq Seq(Line) /\ Selections \subseteq Seq(Ids)
  /\ Tables \subseteq [Ids -> Row]
  /\ \A table \in Tables, v \in Capped :
       Cardinality({id \in Ids : table[id].at = "live" /\ table[id].value = v}) <= Limit[v]
  /\ MaxRequests \in Nat

VARIABLES
  soft,     \* the resource declares softDelete; never changes
  rows,     \* the table: id -> row
  req,      \* the requests in progress
  run,      \* requester -> the result of its last action run
  foreign,  \* history: the rows written since that run began, but by it or its undo
  image,    \* history: the column as that run found it
  restored, \* history: capped value -> restores of a row that holds it
  overlapped, \* history: two requests were in progress together
  begun

runs == <<run, foreign, image>>
writesVars == <<soft, rows, req, runs, restored, overlapped, begun>>

-----------------------------------------------------------------------------
Live(id) == rows[id].at = "live"
Holding(v) == {id \in Ids : Live(id) /\ rows[id].value = v}
Matches(k) == {id \in Ids : Live(id) /\ rows[id].key = k}

\* One write of a request; a create has no id yet, and a skip is never made.
NewRow == "new"
Write == [op : {"create", "update", "delete", "restore", "skip"},
          id : Ids \cup {NewRow}, key : UpsertKeys, to : ColumnValues]

\* What a run reports of a row it wrote: the value it read before.
Outcome == [id : Ids, before : ColumnValues]

Kinds == {"single", "action", "undo", "import"}
Request == [kind : Kinds, todo : Seq(Write), pc : {"idle", "skip", "peek", "get", "count", "write"},
            before : ColumnValues, applied : Seq(Outcome)]

AnyKey   == CHOOSE k \in UpsertKeys : TRUE
AnyValue == CHOOSE v \in ColumnValues : TRUE
Idle == [kind |-> "single", todo |-> <<>>, pc |-> "idle", before |-> AnyValue, applied |-> <<>>]

W(op, id, k, v) == [op |-> op, id |-> id, key |-> k, to |-> v]
Skip == W("skip", NewRow, AnyKey, AnyValue)

\* Where a write begins: a run reads the row for its before-image first.
Entry(kind, todo) ==
  IF todo = <<>> THEN "idle"
  ELSE CASE Head(todo).op = "create" -> "count"
         [] Head(todo).op = "skip"   -> "skip"
         [] OTHER -> IF kind = "action" THEN "peek" ELSE "get"

-----------------------------------------------------------------------------
(* A request comes                                                         *)

Accept(q, kind, todo) ==
  /\ req[q].pc = "idle"
  /\ begun < MaxRequests
  /\ begun' = begun + 1
  /\ req' = [req EXCEPT ![q] = [Idle EXCEPT !.kind = kind, !.todo = todo, !.pc = Entry(kind, todo)]]
  /\ overlapped' = (overlapped \/ \E p \in Requests : req[p].pc # "idle")
  /\ UNCHANGED <<soft, rows, restored>>

\* opCreate, opUpdate, opDelete, opRestore; a resource without soft delete
\* refuses to restore.
Single(q) ==
  /\ \E id \in Ids, k \in UpsertKeys, v \in ColumnValues :
       \/ Accept(q, "single", <<W("create", NewRow, k, v)>>)
       \/ Accept(q, "single", <<W("update", id, AnyKey, v)>>)
       \/ Accept(q, "single", <<W("delete", id, AnyKey, AnyValue)>>)
       \/ soft /\ Accept(q, "single", <<W("restore", id, AnyKey, AnyValue)>>)
  /\ UNCHANGED runs

\* Mutant: the selection is taken as it was sent.
EveryName(ids, i) == TRUE

\* `[...new Set(input.ids)]`: an id counts where it is first named.
FirstNamed(ids, i) == ids[i] \notin {ids[j] : j \in 1..(i - 1)}

\* opRunAction: one opUpdate per row of the selection.
RunAction(q) ==
  /\ \E ids \in Selections, v \in ColumnValues :
       Accept(q, "action", [i \in DOMAIN ids |->
                              IF FirstNamed(ids, i) THEN W("update", ids[i], AnyKey, v) ELSE Skip])
  /\ run' = [run EXCEPT ![q] = <<>>]
  /\ foreign' = [foreign EXCEPT ![q] = {}]
  /\ image' = [image EXCEPT ![q] = [id \in Ids |-> rows[id].value]]

\* opUndoAction: every row the run wrote goes back through opUpdate.
UndoAction(q) ==
  /\ run[q] # <<>>
  /\ Accept(q, "undo", [i \in DOMAIN run[q] |->
                          W("update", run[q][i].id, AnyKey, run[q][i].before)])
  /\ UNCHANGED runs

\* Mutant: a key that matches several rows adds another one.
AmbiguousCreates(line) ==
  IF Cardinality(Matches(line.key)) # 1 THEN W("create", NewRow, line.key, line.to)
  ELSE W("update", CHOOSE id \in Matches(line.key) : TRUE, AnyKey, line.to)

\* What planImport makes of a line: a row of its key is updated, a key nobody
\* has is created, and one that several rows share is invalid, never attempted.
Planned(line) ==
  CASE Matches(line.key) = {} -> W("create", NewRow, line.key, line.to)
    [] Cardinality(Matches(line.key)) = 1 ->
         W("update", CHOOSE id \in Matches(line.key) : TRUE, AnyKey, line.to)
    [] OTHER -> Skip

\* planImport, and opApplyImport of its plan.
Import(q) ==
  /\ \E file \in Files : Accept(q, "import", [i \in DOMAIN file |-> Planned(file[i])])
  /\ UNCHANGED runs

-----------------------------------------------------------------------------
(* ... and takes its steps                                                 *)

\* On to the next write, or the request answers; a run's answer is what it did.
Advance(q, applied) ==
  LET r == req[q]
      rest == Tail(r.todo)
  IN  /\ req' = [req EXCEPT ![q] =
                   IF rest = <<>> THEN Idle
                   ELSE [r EXCEPT !.todo = rest, !.pc = Entry(r.kind, rest), !.applied = applied]]
      /\ run' = IF r.kind = "action" /\ rest = <<>> THEN [run EXCEPT ![q] = applied] ELSE run

\* opRunAction's opGet: the before-image.
Peek(q) ==
  /\ req[q].pc = "peek"
  /\ Live(Head(req[q].todo).id)
  /\ req' = [req EXCEPT ![q].pc = "get", ![q].before = rows[Head(req[q].todo).id].value]
  /\ UNCHANGED <<soft, rows, runs, restored, overlapped, begun>>

\* Mutant: only a create is a move into a capped value.
NothingMoves(w, existing) == FALSE

\* assertWithinLimits: an update that leaves the value where it is fills nothing.
MovesIntoCap(w, existing) == w.to \in Capped /\ existing # w.to

\* `store.get` and the checks on the row it found.
Get(q) ==
  /\ req[q].pc = "get"
  /\ LET w == Head(req[q].todo)
     IN  /\ rows[w.id].at = IF w.op = "restore" THEN "deleted" ELSE "live"
         /\ req' = [req EXCEPT ![q].pc =
                      IF w.op = "update" /\ MovesIntoCap(w, rows[w.id].value)
                      THEN "count" ELSE "write"]
  /\ UNCHANGED <<soft, rows, runs, restored, overlapped, begun>>

\* `store.count` of the live rows that hold the value already.
Count(q) ==
  /\ req[q].pc = "count"
  /\ LET v == Head(req[q].todo).to
     IN  v \in Capped => Cardinality(Holding(v)) < Limit[v]
  /\ req' = [req EXCEPT ![q].pc = "write"]
  /\ UNCHANGED <<soft, rows, runs, restored, overlapped, begun>>

\* A write is refused: no such row, not allowed, not valid, or the value is full.
\* A batch goes on with its next row, as it does from a write it skips.
Refuse(q) ==
  /\ req[q].pc \in {"skip", "peek", "get", "count"}
  /\ Advance(q, req[q].applied)
  /\ UNCHANGED <<soft, rows, foreign, image, restored, overlapped, begun>>

\* The row as the write leaves it: an update writes its columns whatever became
\* of the row meanwhile, and only a delete or a restore touches deletedAt.
AfterWrite(w, id) ==
  CASE w.op = "create"  -> [at |-> "live", key |-> w.key, value |-> w.to]
    [] w.op = "update"  -> [rows[id] EXCEPT !.value = w.to]
    [] w.op = "restore" -> [rows[id] EXCEPT !.at = "live"]
    [] w.op = "delete"  -> IF soft THEN [rows[id] EXCEPT !.at = "deleted"]
                           ELSE [at |-> "gone", key |-> AnyKey, value |-> AnyValue]

\* `store.create`, `store.update` or `store.delete`.  The before-image of a run
\* is kept for what it wrote; a row deleted meanwhile is not found.
Store(q) ==
  /\ req[q].pc = "write"
  /\ LET w == Head(req[q].todo)
         there == IF w.op = "create" THEN {id \in Ids : rows[id].at = "absent"}
                  ELSE {id \in {w.id} : rows[id].at # "gone"}
     IN  \/ /\ there = {}
            /\ Advance(q, req[q].applied)
            /\ UNCHANGED <<rows, foreign, restored>>
         \/ \E id \in there :
              /\ rows' = [rows EXCEPT ![id] = AfterWrite(w, id)]
              /\ Advance(q, Append(req[q].applied, [id |-> id, before |-> req[q].before]))
              /\ foreign' = [p \in Requests |->
                               IF p = q /\ req[q].kind \in {"action", "undo"} THEN foreign[p]
                               ELSE foreign[p] \cup {id}]
              /\ restored' = IF w.op = "restore" /\ rows[id].value \in Capped
                             THEN [restored EXCEPT ![rows[id].value] = @ + 1] ELSE restored
  /\ UNCHANGED <<soft, image, overlapped, begun>>

\* The process that serves a request dies: what it wrote stays.
Die(q) ==
  /\ req[q].pc # "idle"
  /\ req' = [req EXCEPT ![q] = Idle]
  /\ UNCHANGED <<soft, rows, runs, restored, overlapped, begun>>

WritesInit ==
  /\ soft \in BOOLEAN
  /\ rows \in Tables
  /\ req = [q \in Requests |-> Idle]
  /\ run = [q \in Requests |-> <<>>]
  /\ foreign = [q \in Requests |-> {}]
  /\ image = [q \in Requests |-> [id \in Ids |-> AnyValue]]
  /\ restored = [v \in Capped |-> 0]
  /\ overlapped = FALSE /\ begun = 0

WritesNext == \E q \in Requests :
  \/ Single(q) \/ RunAction(q) \/ UndoAction(q) \/ Import(q)
  \/ Peek(q) \/ Get(q) \/ Count(q) \/ Refuse(q) \/ Store(q) \/ Die(q)

WritesSpec == WritesInit /\ [][WritesNext]_writesVars

-----------------------------------------------------------------------------
(* Properties                                                              *)

\* The table and the requests.
WritesTypeOK ==
  /\ soft \in BOOLEAN
  /\ rows \in [Ids -> Row]
  /\ req \in [Requests -> Request]
  /\ run \in [Requests -> Seq(Outcome)]
  /\ foreign \in [Requests -> SUBSET Ids]
  /\ image \in [Requests -> [Ids -> ColumnValues]]
  /\ restored \in [Capped -> Nat]
  /\ overlapped \in BOOLEAN /\ begun \in 0..MaxRequests

\* A cap holds but for the race it accepts: a value is never held by more rows
\* than its limit and one for every other request in progress, save those a
\* restore brought back, which checks no limit (operations.ts:686-692, "the
\* column ends up one over").
OvershootBounded ==
  \A v \in Capped :
    Cardinality(Holding(v)) + 1 <= Limit[v] + Cardinality(Requests) + restored[v]

\* The undo of a run puts every row it writes back to what it held when the run
\* began, unless somebody else wrote the row in between
\* (operations.ts:2087-2145, "Put back what a run overwrote").
UndoPutsBack ==
  [][\A q \in Requests :
       req[q].kind = "undo" /\ req'[q] # req[q] /\ rows' # rows =>
         LET id == Head(req[q].todo).id
         IN  id \notin foreign[q] => rows'[id].value = image[q][id]]_writesVars

NoKeyTwice ==
  \A file \in Files : \A i, j \in DOMAIN file : i # j => file[i].key # file[j].key

\* An import adds no second live row of a key it upserts on, as long as its plan
\* is of the table it is applied to: one request at a time, no key twice in a file
\* (operations.ts:1656-1776).
ImportKeepsKeys ==
  [][\A q \in Requests :
       /\ req[q].kind = "import" /\ req'[q] # req[q] /\ rows' # rows
       /\ Head(req[q].todo).op = "create" /\ ~overlapped /\ NoKeyTwice
       => Matches(Head(req[q].todo).key) = {}]_writesVars
=============================================================================
