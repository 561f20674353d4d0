----------------------------- MODULE MCJobQueue -----------------------------
(* Instances of JobQueue for TLC, of which a behaviour has one, whichever    *)
(* store its queue was made with.  The memory store loses no write and ends  *)
(* with its process (MaxFaults = 0).  The drizzle store is shared by three   *)
(* processes, two workers with a tick each and the one that serves callers   *)
(* and /jobs.                                                                *)
EXTENDS JobQueue, TLC

CONSTANTS e1, e2, t1, t2, o1, o2, p1, p2, p3, work, plumbing

VARIABLE store

OneProcess == [a \in Enqueuers \cup Ticks \cup Operators |-> p1]

TwoWorkers ==
  [a \in Enqueuers \cup Ticks \cup Operators |->
     IF a = t1 THEN p1 ELSE IF a = t2 THEN p2 ELSE p3]

Drizzle ==
  INSTANCE JobQueue WITH
    AtomicClaim <- FALSE, MaxJobs <- 1, Keys <- {}, Types <- {work, plumbing}, MaxFaults <- 1,
    Procs <- {p1, p2, p3}, ProcOf <- TwoWorkers

\* To keep the instances small, one operator is at work over the memory store, and one
\* caller of enqueue(), who has no key, over the other.
InitStore == Init /\ store \in {"memory", "drizzle"}

NextStore ==
  /\ \/ store = "memory" /\ Next /\ op'[o2] = NoRetry
     \/ store = "drizzle" /\ Drizzle!Next /\ \E e \in Enqueuers : req'[e] = NoRequest
  /\ UNCHANGED store

SpecStore == InitStore /\ [][NextStore]_<<vars, store>>

\* The calls of enqueue() and of tick() are interchangeable: each worker has one tick.
CallSymmetry == Permutations(Enqueuers) \cup Permutations(Ticks)
=============================================================================
