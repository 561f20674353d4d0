------------------------------ MODULE MCMembers ------------------------------
(* Constants for model-checking Members.                                   *)
EXTENDS Members, TLC

CONSTANTS ann, bob, cy, m1, m2, m3, m4, i1, q1, q2

\* Ann owns the organization; bob does too, or is an admin.
AnnAndBob == {[id \in Ids |-> [at   |-> IF id \in {m1, m2} THEN "member" ELSE "absent",
                               user |-> IF id = m1 THEN ann ELSE IF id = m2 THEN bob ELSE cy,
                               role |-> IF id = m1 THEN "owner"
                                        ELSE IF id = m2 THEN role ELSE "member"]]
              : role \in {"owner", "admin"}}

Alike == Permutations(Requests) \cup Permutations(Ids \ {m1, m2})
=============================================================================
