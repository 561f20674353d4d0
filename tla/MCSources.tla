------------------------------ MODULE MCSources ------------------------------
(* Constants for model-checking Sources.                                    *)
EXTENDS Sources, TLC

CONSTANTS k1, k2, e1, t1, t2, p1, r1, r2

OneProcess == [a \in Enqueuers \cup Ticks \cup Operators |-> p1]

B(records, changes, syncs, edits, deletes, attempts, losses, ticks) ==
  [feed |-> records, changes |-> changes, syncs |-> syncs, edits |-> edits,
   deletes |-> deletes, maxAttempts |-> attempts, faults |-> losses, ticks |-> ticks]

\* Two syncs of a collection that changes; one that is retried meanwhile; one of two
\* records; one that loses a process or a write; two writes of the enriched row whose
\* runs may overlap; two whose runs are retried; one, its row deleted; each with a loss.
Small == {B(<<r1>>, 1, {k1, k2}, 0, 0, 1, 0, Ticks), B(<<r1>>, 1, {k1}, 0, 0, 2, 0, Ticks),
          B(<<r1, r2>>, 0, {k1}, 0, 0, 2, 0, Ticks), B(<<r1>>, 0, {k1}, 0, 0, 2, 1, Ticks),
          B(<<>>, 0, {}, 2, 0, 1, 1, Ticks), B(<<>>, 0, {}, 2, 0, 2, 1, {t1}),
          B(<<>>, 0, {}, 1, 1, 2, 1, Ticks)}
=============================================================================
