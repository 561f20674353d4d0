----------------------------- MODULE SpecReview -----------------------------
(***************************************************************************)
(* Review of the proposals of a spec: packages/spec/src/base/bulk-review.ts *)
(* and the provenance.review op of spec-ops.ts, the workbench and the CLI   *)
(* that drive them, and the directory of files a spec is saved to           *)
(* (packages/mcp/src/spec-store.ts).                                        *)
(*                                                                          *)
(* A reviewer (one request of the workbench, one run of maxstack review or  *)
(* of an op command) loads the spec, plans and applies its decision to that *)
(* copy, and saves the copy file by file, in an order that has row files    *)
(* before the op log and row files after it. What has been generated is     *)
(* known from the watermark of the ownership manifest, which a generation   *)
(* stamps with the length of the op log.                                    *)
(***************************************************************************)
EXTENDS Naturals, FiniteSets, SequencesExt

CONSTANTS
  Rows,        \* rows with provenance: entities, fields, pages, blocks...
  Nested,      \* row -> the rows under it
  NFiles,      \* files that hold rows, and the op log
  FileOf,      \* row -> the place of its file in the order of a save
  LogFile,     \* the place of the op log in that order
  HighRisk,    \* rows that classifyReviewRisk refuses to batch
  Manual,      \* hand-authored rows
  Selections,  \* the sets of rows a batch may select
  Batches,     \* batch ids
  Reviewers,   \* requests and commands that may be in progress together
  GenerateAnytime, \* a generation may run while a request is in progress
  MaxSaves,    \* bound: requests that come to save something
  MaxCrashes   \* bound: reviewers that die

ASSUME ConstantsAssumption ==
  /\ IsFiniteSet(Rows)
  /\ Nested \in [Rows -> SUBSET Rows]
  /\ NFiles \in Nat /\ LogFile \in 1..NFiles
  /\ FileOf \in [Rows -> (1..NFiles) \ {LogFile}]
  /\ Selections \subseteq SUBSET Rows
  /\ HighRisk \subseteq Rows /\ Manual \subseteq Rows
  /\ GenerateAnytime \in BOOLEAN
  /\ MaxSaves \in Nat /\ MaxCrashes \in Nat

VARIABLES
  rows,     \* the row files on disk: row -> isAccepted
  log,      \* the op log file on disk
  built,    \* generatedFromOpCount of the ownership manifest
  req,      \* reviewer -> its request
  torn,     \* history: rows that a save which died had parted from the log
  saves, crashes

vars == <<rows, log, built, req, torn, saves, crashes>>

-----------------------------------------------------------------------------
(* The op and what it does to a spec                                       *)

NoBatch == "none"
Actions == {"accept", "reject", "reset"}

\* isAccepted: true, false or null.
Flag == {"yes", "no", "null"}

\* provenance.review, as the op log keeps it: `via` is the write path of its
\* actor, `batch` the session.
Review == [row : Rows, action : Actions, cascade : BOOLEAN,
           via : {"bulk", "web", "op"}, batch : Batches \cup {NoBatch}]

State(flag, r) ==
  IF r \in Manual THEN "manual"
  ELSE CASE flag = "yes"  -> "accepted"
         [] flag = "no"   -> "rejected"
         [] flag = "null" -> "suggested"

Settled(at, r) == State(at[r], r) \in {"accepted", "rejected"}
Pending(at, r) == State(at[r], r) = "suggested"

\* The rows an action may move: a reset takes back what is settled, an accept
\* or a reject decides what is not.
Movable(at, r, action) == IF action = "reset" THEN Settled(at, r) ELSE Pending(at, r)

Transition(action) ==
  CASE action = "accept" -> "yes" [] action = "reject" -> "no" [] action = "reset" -> "null"

\* The rows an op moves; without a cascade an accept or a reject is not gated.
Moves(at, e) ==
  IF e.cascade THEN {r \in {e.row} \cup Nested[e.row] : Movable(at, r, e.action)}
  ELSE {r \in {e.row} : e.action = "reset" => Movable(at, r, e.action)}

Apply(at, e) == [r \in Rows |-> IF r \in Moves(at, e) THEN Transition(e.action) ELSE at[r]]

\* The spec after the first n of the ops.
After(at, ops) ==
  LET after[n \in 0..Len(ops)] == IF n = 0 THEN at ELSE Apply(after[n - 1], ops[n])
  IN  after

ApplyAll(at, ops) == After(at, ops)[Len(ops)]

-----------------------------------------------------------------------------
(* A request: load, decide on the copy, save the copy                      *)

Request == [pc   : {"idle", "loaded", "save"},
            rows : [Rows -> Flag],
            log  : Seq(Review),
            next : 1..NFiles]   \* the file the save writes next

Fresh == [r \in Rows |-> IF r \in Manual THEN "yes" ELSE "null"]
NoRequest == [pc |-> "idle", rows |-> Fresh, log |-> <<>>, next |-> 1]

Load(p) ==
  /\ req[p].pc = "idle"
  /\ req' = [req EXCEPT ![p] = [pc |-> "loaded", rows |-> rows, log |-> log, next |-> 1]]
  /\ UNCHANGED <<rows, log, built, torn, saves, crashes>>

\* Apply the ops to the copy and start to save it.
Decide(p, ops) ==
  /\ req[p].pc = "loaded"
  /\ ops # <<>>
  /\ saves < MaxSaves
  /\ saves' = saves + 1
  /\ req' = [req EXCEPT ![p] = [pc |-> "save", rows |-> ApplyAll(req[p].rows, ops),
                                log |-> req[p].log \o ops, next |-> 1]]
  /\ UNCHANGED <<rows, log, built, torn, crashes>>

\* planBulkReview: the selected rows that are pending and not high risk.
Included(at, chosen) == {r \in chosen : Pending(at, r) /\ r \notin HighRisk}

\* submitBulkReview and maxstack review --accept or --reject: one op per row,
\* stamped with a batch id never used before.
BulkReview(p, chosen, action, b) ==
  /\ \A i \in 1..Len(req[p].log) : req[p].log[i].batch # b
  /\ LET in == SetToSeq(Included(req[p].rows, chosen))
     IN  Decide(p, [i \in 1..Len(in) |->
                      [row |-> in[i], action |-> action, cascade |-> FALSE,
                       via |-> "bulk", batch |-> b]])

\* Mutant: a cascade is a decision about its target.
NothingRisky(at, r) == {}

\* cascadeRisks: what a cascade would settle that needs a decision of its own.
CascadeRisks(at, r) == {n \in Nested[r] : Pending(at, n) /\ n \in HighRisk}

\* submitReview: one row of the queue, with its subtree when it cascades.
WebReview(p, r, action, cascade) ==
  /\ cascade => CascadeRisks(req[p].rows, r) = {}
  /\ Decide(p, <<[row |-> r, action |-> action, cascade |-> cascade,
                  via |-> "web", batch |-> NoBatch]>>)

\* A provenance.review op from an agent or an op command; without a cascade its
\* accept and reject do what the workbench's do.
OpReview(p, r, action, cascade) ==
  /\ cascade \/ action = "reset"
  /\ Decide(p, <<[row |-> r, action |-> action, cascade |-> cascade,
                  via |-> "op", batch |-> NoBatch]>>)

EntriesOf(l, b) == {i \in 1..Len(l) : l[i].batch = b}

\* Mutant: the watermark is an index.
AfterLast(l, b, mark) == \E i \in EntriesOf(l, b) : \A j \in EntriesOf(l, b) : j <= i /\ mark > i

\* hasGeneratedSinceBatch: the last entry of the batch is in the prefix of the
\* op log the last generation consumed.
HasGenerated(l, b, mark) == \E i \in EntriesOf(l, b) : \A j \in EntriesOf(l, b) : j <= i /\ mark >= i

\* planBulkUndo: the decisions of the batch whose row is settled now.
Undoable(at, l, b) ==
  {i \in EntriesOf(l, b) : l[i].action # "reset" /\ Settled(at, l[i].row)}

\* submitBulkUndo and maxstack review --undo, in the order of the log.
BulkUndo(p, b) ==
  /\ ~HasGenerated(req[p].log, b, built)
  /\ LET l == req[p].log
         back == Undoable(req[p].rows, l, b)
     IN  \E undo \in [1..Cardinality(back) -> back] :
           /\ \A i, j \in DOMAIN undo : i < j => undo[i] < undo[j]
           /\ Decide(p, [i \in DOMAIN undo |->
                          [row |-> l[undo[i]].row, action |-> "reset", cascade |-> FALSE,
                           via |-> "bulk", batch |-> b]])

\* A request that is refused or comes to nothing leaves nothing.
Refuse(p) ==
  /\ req[p].pc = "loaded"
  /\ req' = [req EXCEPT ![p] = NoRequest]
  /\ UNCHANGED <<rows, log, built, torn, saves, crashes>>

\* Mutant: the op log is not saved with the rows.
RowFilesOnly(p) ==
  /\ req[p].pc = "save"
  /\ rows' = [r \in Rows |-> IF FileOf[r] = req[p].next THEN req[p].rows[r] ELSE rows[r]]
  /\ req' = IF req[p].next = NFiles THEN [req EXCEPT ![p] = NoRequest]
            ELSE [req EXCEPT ![p].next = @ + 1]
  /\ UNCHANGED <<log, built, torn, saves, crashes>>

\* writeSpecDir: every file is replaced whole, in the order of SPEC_DIR_FILES.
SaveFile(p) ==
  /\ req[p].pc = "save"
  /\ rows' = [r \in Rows |-> IF FileOf[r] = req[p].next THEN req[p].rows[r] ELSE rows[r]]
  /\ log' = IF req[p].next = LogFile THEN req[p].log ELSE log
  /\ req' = IF req[p].next = NFiles THEN [req EXCEPT ![p] = NoRequest]
            ELSE [req EXCEPT ![p].next = @ + 1]
  /\ UNCHANGED <<built, torn, saves, crashes>>

\* The save has written the row and not yet the op log, or the other way round.
Parted(p, r) == (FileOf[r] < req[p].next) # (LogFile < req[p].next)

\* The process dies in a save, which stays where it was; before the first file
\* it is a request that came to nothing.
Crash(p) ==
  /\ crashes < MaxCrashes
  /\ req[p].pc = "save" /\ req[p].next > 1
  /\ crashes' = crashes + 1
  /\ torn' = torn \cup {r \in Rows : Parted(p, r) /\ rows[r] # ApplyAll(Fresh, log)[r]}
  /\ req' = [req EXCEPT ![p] = NoRequest]
  /\ UNCHANGED <<rows, log, built, saves>>

\* maxstack gen, in another process: the watermark covers the log it loaded.
Generate ==
  /\ GenerateAnytime \/ \A p \in Reviewers : req[p].pc = "idle"
  /\ built' = IF Len(log) > built THEN Len(log) ELSE built
  /\ UNCHANGED <<rows, log, req, torn, saves, crashes>>

Init ==
  /\ rows = Fresh
  /\ log = <<>>
  /\ built = 0
  /\ req = [p \in Reviewers |-> NoRequest]
  /\ torn = {}
  /\ saves = 0 /\ crashes = 0

Next ==
  \/ \E p \in Reviewers :
       \/ Load(p) \/ Refuse(p) \/ SaveFile(p) \/ Crash(p)
       \/ \E r \in Rows : \E c \in {FALSE, Nested[r] # {}} :
            \/ \E a \in {"accept", "reject"} : WebReview(p, r, a, c)
            \/ \E a \in Actions : OpReview(p, r, a, c)
       \/ \E b \in Batches :
            \/ BulkUndo(p, b)
            \/ \E chosen \in Selections, a \in {"accept", "reject"} : BulkReview(p, chosen, a, b)
  \/ Generate

Spec == Init /\ [][Next]_vars

-----------------------------------------------------------------------------
(* Properties                                                              *)

\* The state space: what is on disk and what a request holds.
TypeOK ==
  /\ rows \in [Rows -> Flag]
  /\ log \in Seq(Review)
  /\ built \in Nat /\ built <= Len(log)
  /\ req \in [Reviewers -> Request]
  /\ torn \subseteq Rows
  /\ saves \in 0..MaxSaves /\ crashes \in 0..MaxCrashes

Before(i) == ApplyAll(Fresh, SubSeq(log, 1, i - 1))
MovedBy(i) == Moves(Before(i), log[i])

\* The trail is the whole story: a row between two requests is exactly what
\* replaying the op log makes of it, except for a row that a save which died had
\* written without the log, or not yet written when it had replaced the log.
\* Every write path goes through applyOp, which moves the row and logs the
\* entry in one return value (spec-ops.ts:9486-9535).
TrailExplainsRows ==
  (\A p \in Reviewers : req[p].pc # "save") =>
     \A r \in Rows \ torn : rows[r] = ApplyAll(Fresh, log)[r]

\* A high-risk row is decided by name, never by a batch nor by somebody's
\* cascade in the workbench; only an op sent as such may sweep it along
\* (bulk-review.ts:743, workbench.server.ts:240-253).
HighRiskDecidedAlone ==
  \A i \in 1..Len(log) : \A r \in (MovedBy(i) \cap HighRisk) \ torn :
     log[i].action # "reset" /\ log[i].via # "op" =>
        log[i].row = r /\ log[i].batch = NoBatch

\* What an undo takes back has not been generated from: no step logs the reset
\* of a batch whose decisions a stamped generation has consumed
\* (bulk-review.ts:942-952).
UndoOnlyUngenerated ==
  [][\A i \in (Len(log) + 1)..Len(log') :
       log'[i].batch # NoBatch /\ log'[i].action = "reset" =>
         \A j \in EntriesOf(log, log'[i].batch) : built < j]_vars
=============================================================================
