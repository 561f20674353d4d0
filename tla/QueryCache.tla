----------------------------- MODULE QueryCache -----------------------------
(* The data hooks of packages/ui (data/hooks.ts) over their query cache        *)
(* (data/query-client.ts): one record, cached in a list and on its own, and    *)
(* the updates and deletes that patch the cache before the server has          *)
(* answered. A fetch and a mutation are each three steps: sent, served,        *)
(* answered; JavaScript runs to the next await, so a step is one action.       *)
(*                                                                             *)
(* The record is the set of the updates it has; a partial row, which an update *)
(* leaves where nothing was loaded, is not told from a row without the others. *)
(* Creates, pages, filters and other browsers are left out, and so is a delete *)
(* whose onSuccess throws: the list is invalidated once more, if at all.       *)
EXTENDS Naturals, FiniteSets

CONSTANTS
    Mutations,   \* calls of update() and remove()
    Limits       \* bounds of a behaviour: the calls and the kinds of call made, the mounts
                 \* and refetches by hand of each key, the requests that fail

ASSUME MutationsAssumption ==
    /\ Mutations \cap {"gone", "undefined", "waiting", "failed"} = {}
    /\ Limits \subseteq [calls : Nat, kinds : SUBSET {"update", "pessimistic", "optimistic", "undoable"},
                        mounts : Nat, failures : Nat]

VARIABLES
    limit,
    server,      \* the row, or Deleted
    entry,       \* QueryClient.entries
    latest,      \* per key: how many fetches were begun
    flights,     \* fetches whose answer will be written to an entry
    call,        \* the mutations
    mounts, failures,
    shown,       \* history, per key: the last fetch whose answer was written
    crossed      \* history: something else was written to the record meanwhile, or what
                 \* the server did to it was not what the browser was told

cache     == <<entry, latest, flights>>
history   == <<shown, crossed>>
cacheVars == <<limit, server, cache, call, mounts, failures, history>>

Keys == {"list", "one"}
Rows == SUBSET Mutations

\* What is not a row, as sets too so that it compares with one.
Deleted    == {"gone"}
None    == {"undefined"}
Waiting == {"waiting"}
Failed  == {"failed"}

NoEntry == [there |-> FALSE, watched |-> FALSE, status |-> "idle", data |-> None, promise |-> 0]
NoCall  == [pc |-> "idle", kind |-> "update", prev |-> None, reply |-> Waiting]

CacheInit ==
    /\ limit \in Limits
    /\ server = {}
    /\ entry = [k \in Keys |-> NoEntry] /\ latest = [k \in Keys |-> 0] /\ flights = {}
    /\ call = [m \in Mutations |-> NoCall]
    /\ mounts = [k \in Keys |-> 0] /\ failures = 0
    /\ shown = [k \in Keys |-> 0] /\ crossed = FALSE

Pending  == {m \in Mutations : call[m].pc \in {"sent", "served"}}
FlightsOf(k) == {f \in flights : f.key = k}

-----------------------------------------------------------------------------
(* The cache. *)

\* setQueryData, which leaves a key without an entry alone; an answer is data as well.
Written(e, d) == IF e.there THEN [e EXCEPT !.data = d, !.status = "success"] ELSE e

Fetching(e, n) ==
    [e EXCEPT !.promise = n, !.status = IF e.data = None THEN "loading" ELSE @]

\* Mutant: an invalidation joins the fetch there is.
JoinsTheFetch(e) == e.promise = 0
Forced(e) == TRUE

\* invalidate: what is on screen is fetched anew, what is not is dropped, and with it
\* the answers on their way to it.
Invalidate(es, ks) ==
    LET live  == {k \in ks : es[k].watched /\ Forced(es[k])}
        gone  == {k \in ks : ~es[k].watched}
    IN  /\ entry' = [k \in Keys |-> IF k \in live THEN Fetching(es[k], latest[k] + 1)
                                   ELSE IF k \in gone THEN NoEntry ELSE es[k]]
        /\ latest' = [k \in Keys |-> IF k \in live THEN latest[k] + 1 ELSE latest[k]]
        /\ flights' = {f \in flights : f.key \notin gone}
                      \cup {[key |-> k, n |-> latest[k] + 1, got |-> Waiting] : k \in live}

\* A component mounts: it subscribes, and its effect fetches unless a fetch is under way.
Mount(k) ==
    /\ mounts[k] < limit.mounts /\ ~entry[k].watched
    /\ mounts' = [mounts EXCEPT ![k] = @ + 1]
    /\ LET e == [entry[k] EXCEPT !.there = TRUE, !.watched = TRUE]
       IN  IF e.promise = 0
           THEN Invalidate([entry EXCEPT ![k] = e], {k})
           ELSE entry' = [entry EXCEPT ![k] = e] /\ UNCHANGED <<latest, flights>>
    /\ crossed' = (crossed \/ (k = "one" /\ Pending # {}))
    /\ UNCHANGED <<limit, server, call, failures, shown>>

Refetch(k) ==
    /\ mounts[k] < limit.mounts /\ entry[k].watched
    /\ mounts' = [mounts EXCEPT ![k] = @ + 1]
    /\ Invalidate(entry, {k})
    /\ crossed' = (crossed \/ (k = "one" /\ Pending # {}))
    /\ UNCHANGED <<limit, server, call, failures, shown>>

\* The last subscriber leaves: an entry with a fetch under way stays, and is kept after it.
Unmount(k) ==
    /\ entry[k].watched
    /\ entry' = [entry EXCEPT ![k] = IF @.promise = 0 THEN NoEntry ELSE [@ EXCEPT !.watched = FALSE]]
    /\ flights' = {f \in flights : f.key # k \/ entry[k].promise # 0}
    /\ UNCHANGED <<limit, server, latest, call, mounts, failures, history>>

\* The server answers a fetch; getOne of a row that is gone is an error.
Serve(f) ==
    /\ f.got = Waiting
    /\ \E lost \in BOOLEAN :
           /\ lost => failures < limit.failures
           /\ failures' = failures + IF lost THEN 1 ELSE 0
           /\ flights' = (flights \ {f}) \cup
                  {[f EXCEPT !.got = IF lost \/ (f.key = "one" /\ server = Deleted) THEN Failed ELSE server]}
           /\ crossed' = (crossed \/ (lost /\ f.key = "one"))
    /\ UNCHANGED <<limit, server, entry, latest, call, mounts, shown>>

PromiseAfter(e, n) == IF e.promise = n THEN 0 ELSE e.promise

\* The answer lands. That of a fetch that was superseded is written all the same.
LandFetch(f) ==
    /\ f.got # Waiting
    /\ flights' = flights \ {f}
    /\ entry' = [entry EXCEPT ![f.key] =
           [IF f.got = Failed THEN [@ EXCEPT !.status = "error"] ELSE Written(@, f.got)
            EXCEPT !.promise = PromiseAfter(entry[f.key], f.n)]]
    /\ shown' = [shown EXCEPT ![f.key] = f.n]
    /\ UNCHANGED <<limit, server, latest, call, mounts, failures, crossed>>

-----------------------------------------------------------------------------
(* The mutations. *)

Patched(m, d)  == IF d \in {None, Deleted} THEN d ELSE d \cup {m}
Removed(d)     == IF d = None THEN None ELSE Deleted

\* Mutant: the snapshot is taken after the patch.
AfterThePatch(m) == IF entry["one"].data = None THEN None ELSE entry["one"].data \cup {m}
Snapshot(m) == entry["one"].data

\* useUpdate: snapshot, patch the list and the record, send. useDelete: drop the row from
\* the list, unless it is pessimistic, and send, unless it can be undone.
Begin(m, kind) ==
    /\ call[m].pc = "idle" /\ Cardinality({c \in Mutations : call[c].pc # "idle"}) < limit.calls
    /\ call' = [call EXCEPT ![m] = [pc    |-> IF kind = "undoable" THEN "held" ELSE "sent",
                                    kind  |-> kind,
                                    prev  |-> IF kind = "update" THEN Snapshot(m) ELSE None,
                                    reply |-> Waiting]]
    /\ entry' = CASE kind = "update" ->
                       [k \in Keys |-> IF k = "list" THEN [entry[k] EXCEPT !.data = Patched(m, @)]
                                       ELSE Written(entry[k], IF entry[k].data = None THEN {m}
                                                              ELSE entry[k].data \cup {m})]
                  [] kind = "pessimistic" -> entry
                  [] OTHER -> [entry EXCEPT !["list"].data = Removed(@)]
    /\ crossed' = (crossed \/ Pending # {} \/ FlightsOf("one") # {}
                          \/ (kind = "update" /\ entry["one"].status = "error"))
    /\ UNCHANGED <<limit, server, latest, flights, mounts, failures, shown>>

\* The toast of an undoable delete: undone, or timed out and committed. Nothing takes the
\* toast away with the timer, so an undo may come late: it then stops nothing and has the
\* list fetched. What is left without its toast is as good as an optimistic delete.
Undo(m) ==
    /\ call[m].kind = "undoable" /\ call[m].pc # "idle"
    /\ call' = [call EXCEPT ![m].pc = IF call[m].pc = "held" THEN "done" ELSE call[m].pc,
                           ![m].kind = "optimistic"]
    /\ Invalidate(entry, {"list"})
    /\ UNCHANGED <<limit, server, mounts, failures, history>>

CommitDelete(m) ==
    /\ call[m].pc = "held"
    /\ call' = [call EXCEPT ![m].pc = "sent"]
    /\ crossed' = (crossed \/ Pending # {} \/ FlightsOf("one") # {})
    /\ UNCHANGED <<limit, server, cache, mounts, failures, shown>>

\* The server applies a mutation, or it fails: before it was applied, or after.
Apply(m) ==
    /\ call[m].pc = "sent"
    /\ LET after == IF call[m].kind = "update" THEN server \cup {m} ELSE Deleted
       IN  \/ /\ server # Deleted
              /\ server' = after
              /\ call' = [call EXCEPT ![m].pc = "served", ![m].reply = after]
              /\ UNCHANGED <<failures, crossed>>
           \/ /\ server = Deleted
              /\ call' = [call EXCEPT ![m].pc = "served", ![m].reply = Failed]
              /\ UNCHANGED <<limit, server, failures, crossed>>
           \/ /\ failures < limit.failures /\ server # Deleted
              /\ failures' = failures + 1
              /\ server' \in {server, after}
              /\ crossed' = (crossed \/ server' # server)
              /\ call' = [call EXCEPT ![m].pc = "served", ![m].reply = Failed]
    /\ UNCHANGED <<limit, cache, mounts, shown>>

\* An update that succeeded is the record; one that failed is rolled back, if there was
\* a record before. Either way the lists are fetched again.
SettleUpdate(m) ==
    /\ call[m].pc = "served" /\ call[m].kind = "update"
    /\ call' = [call EXCEPT ![m].pc = "done"]
    /\ LET now == IF call[m].reply # Failed THEN call[m].reply ELSE call[m].prev
       IN  Invalidate([entry EXCEPT !["one"] = IF now = None THEN @ ELSE Written(@, now)], {"list"})
    /\ UNCHANGED <<limit, server, mounts, failures, history>>

\* The same try holds the caller's onSuccess: when that throws, an update that succeeded goes
\* on to be rolled back. (Another step may come in between here, though not in the code.)
CallbackThrows(m) ==
    /\ call[m].pc = "served" /\ call[m].kind = "update" /\ call[m].reply # Failed
    /\ failures < limit.failures
    /\ failures' = failures + 1
    /\ crossed' = TRUE
    /\ call' = [call EXCEPT ![m].reply = Failed]
    /\ Invalidate([entry EXCEPT !["one"] = Written(@, call[m].reply)], {"list"})
    /\ UNCHANGED <<limit, server, mounts, shown>>

\* What is fetched again after a delete: everything of the resource when it succeeded.
Refreshed(m) ==
    IF call[m].reply # Failed THEN Keys ELSE IF call[m].kind = "pessimistic" THEN {} ELSE {"list"}

SettleDelete(m) ==
    /\ call[m].pc = "served" /\ call[m].kind # "update"
    /\ call' = [call EXCEPT ![m].pc = "done"]
    /\ Invalidate(entry, Refreshed(m))
    /\ UNCHANGED <<limit, server, mounts, failures, history>>

-----------------------------------------------------------------------------
CacheNext ==
    \/ \E k \in Keys : Mount(k) \/ Refetch(k) \/ Unmount(k)
    \/ \E f \in flights : Serve(f) \/ LandFetch(f)
    \/ \E m \in Mutations :
           \/ \E kind \in limit.kinds : Begin(m, kind)
           \/ Undo(m) \/ CommitDelete(m) \/ Apply(m) \/ SettleUpdate(m) \/ CallbackThrows(m)
           \/ SettleDelete(m)

CacheSpec == CacheInit /\ [][CacheNext]_cacheVars

-----------------------------------------------------------------------------
(* Properties. *)

Values == Rows \cup {Deleted, None}

\* Every variable has its type, and an entry has a promise exactly while the last fetch
\* begun for it is under way: that is what makes a second mount join it.
CacheTypeOK ==
    /\ limit \in Limits
    /\ server \in Rows \cup {Deleted}
    /\ entry \in [Keys -> [there : BOOLEAN, watched : BOOLEAN, data : Values, promise : Nat,
                           status : {"idle", "loading", "success", "error"}]]
    /\ latest \in [Keys -> Nat] /\ shown \in [Keys -> Nat]
    /\ flights \subseteq [key : Keys, n : Nat, got : Rows \cup {Deleted, Waiting, Failed}]
    /\ \A f \in flights : f.n \in 1..latest[f.key]
    /\ \A k \in Keys : entry[k].promise =
           IF \E f \in FlightsOf(k) : f.n = latest[k] THEN latest[k] ELSE 0
    /\ call \in [Mutations -> [pc : {"idle", "held", "sent", "served", "done"}, prev : Values,
                               kind : {"update", "pessimistic", "optimistic", "undoable"},
                               reply : Rows \cup {Deleted, Waiting, Failed}]]
    /\ mounts \in [Keys -> 0..limit.mounts] /\ failures \in 0..limit.failures /\ crossed \in BOOLEAN

Settled(k) ==
    /\ flights = {} /\ \A m \in Mutations : call[m].pc \in {"idle", "done"}
    /\ entry[k].watched /\ shown[k] = latest[k]

Truth(k) == IF k = "one" /\ server = Deleted THEN entry[k].status = "error"
            ELSE entry[k].status = "success" /\ entry[k].data = server

\* hooks.ts, removeFromLists: "the server is the source of truth, and this also reconciles
\* any concurrent change". Whatever patches, rollbacks and undos crossed, a list on screen
\* is what the server has once nothing is under way, unless the answer that landed last
\* was not that of the fetch begun last, or it failed, or a pessimistic delete failed for
\* the browser though the record is gone: after that nothing is fetched.
ListConverges ==
    /\ Settled("list") /\ entry["list"].status # "error"
    /\ ~\E m \in Mutations : call[m].kind = "pessimistic" /\ call[m].reply = Failed /\ server = Deleted
    => Truth("list")

\* The record on its own is not fetched again after an update, so it takes more: nothing
\* else was under way on it between an update and its answer, and no answer was lost, nor
\* undone by the callback it was given to.
RecordConverges ==
    Settled("one") /\ ~crossed => Truth("one")
=============================================================================
