---------------------------- MODULE MCOperations ----------------------------
(* Constants for model-checking Operations: a board of three cards, one of *)
(* whose two columns takes one card, and an action aimed at two of them.   *)
EXTENDS Operations, TLC

CONSTANTS c1, c2, c3, k1, k2, open, doing, q1, q2

OneInDoing == [v \in {doing} |-> 1]
\* Two cards in the open column, of two keys or of one, the third yet to be made.
OpenBoard  == {[id \in Ids |-> [at |-> IF id = c3 THEN "absent" ELSE "live",
                                key |-> IF id = c2 THEN k ELSE k1, value |-> open]] : k \in UpsertKeys}
OneFile    == {<<[key |-> k1, to |-> doing], [key |-> k2, to |-> open]>>}
SentTwice  == {<<c1, c2, c1>>}

Alike == Permutations(Requests)
=============================================================================
