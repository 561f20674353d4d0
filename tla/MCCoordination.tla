--------------------------- MODULE MCCoordination ---------------------------
(* Constants for model-checking Coordination.                              *)
EXTENDS Coordination

CONSTANTS a, b, table, k1, k2, c1, c2

\* The clock of b is one unit ahead.
Ahead   == [i \in Instances |-> IF i = b THEN 1 ELSE 0]
Serving == [c \in Callers |-> IF c = c1 THEN a ELSE b]
=============================================================================
