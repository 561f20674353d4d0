----------------------------- MODULE MCWebhooks -----------------------------
(* Constants for model-checking Webhooks. *)
EXTENDS Webhooks, TLC

CONSTANTS a, b, c, r1, r2

\* The secret is regenerated while deliveries go on, or twice, or deliveries are late, or
\* signed by a clock that is ahead.
Small == {[calls |-> 1, rounds |-> 2, time |-> 0, lead |-> 0, faults |-> 1],
          [calls |-> 2, rounds |-> 1, time |-> 0, lead |-> 0, faults |-> 1],
          [calls |-> 0, rounds |-> 2, time |-> 3, lead |-> 0, faults |-> 1],
          [calls |-> 0, rounds |-> 1, time |-> 4, lead |-> 1, faults |-> 1],
          [calls |-> 0, rounds |-> 1, time |-> 2, lead |-> 3, faults |-> 1]}

Alike == Permutations(Ids) \cup Permutations(Requests)
=============================================================================
