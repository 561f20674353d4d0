---------------------------- MODULE MCSpecReview ----------------------------
(* Constants for model-checking SpecReview: an entity with a field that    *)
(* needs individual review, a page, saved in another file, with a block     *)
(* written by hand, the op log, and a flag in a file saved after it.        *)
EXTENDS SpecReview, TLC

CONSTANTS entity, secret, page, hand, flag, b1, b2

AllRows == {entity, secret, page, hand, flag}
Subtree == [r \in AllRows |-> IF r = entity THEN {secret}
                            ELSE IF r = page THEN {hand} ELSE {}]
Layer   == [r \in AllRows |-> IF r \in {entity, secret} THEN 1
                            ELSE IF r = flag THEN 4 ELSE 2]
Picked  == {{entity}, {entity, flag}, AllRows}

BatchSymmetry == Permutations(Batches)
=============================================================================
