------------------------------- MODULE MCLive -------------------------------
(* Constants for model-checking Live. *)
EXTENDS Live

CONSTANTS ann, bob, w1, w2, f1, f2

B(cs, s, p, f, l, r) ==
    [clients |-> cs, seats |-> s, plans |-> p, faults |-> f, reloads |-> l, revoked |-> r]

\* One client whose channel is replaced, or that meets a fault; two that share a channel or
\* find it full; one that loads its page again and loses its access.
Small == {B({ann}, 1, 2, 1, 0, 0), B({ann, bob}, 1, 1, 0, 0, 0),
          B({ann, bob}, 2, 1, 1, 0, 0), B({ann}, 1, 1, 1, 1, 1)}
=============================================================================
