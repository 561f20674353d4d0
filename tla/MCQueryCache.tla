---------------------------- MODULE MCQueryCache ----------------------------
(* Constants for model-checking QueryCache.                                  *)
EXTENDS QueryCache, TLC

CONSTANTS m1, m2

B(n, ks, m, f) == [calls |-> n, kinds |-> ks, mounts |-> m, failures |-> f]

\* Two calls that overlap, one with components that come and go, and a delete that fails or
\* is undone, in time or late.
Small == {B(2, {"update", "optimistic"}, 1, 1), B(2, {"update", "undoable"}, 1, 0),
          B(1, {"update", "pessimistic"}, 2, 1), B(1, {"undoable"}, 1, 1)}

Calls == Permutations(Mutations)
=============================================================================
