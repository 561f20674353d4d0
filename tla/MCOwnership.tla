---------------------------- MODULE MCOwnership ----------------------------
(* Constants for model-checking Ownership.                                 *)
EXTENDS Ownership, TLC

CONSTANTS c1, c2

\* Commands of one kind are interchangeable.
CommandSymmetry == Permutations(Commands)
=============================================================================
