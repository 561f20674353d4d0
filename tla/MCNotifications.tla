--------------------------- MODULE MCNotifications ---------------------------
(* Constants for model-checking Notifications. *)
EXTENDS Notifications, TLC

CONSTANTS e1, e2, today, w1, w2, s1, s2

B(t, c, e, f) == [time |-> t, changes |-> c, events |-> e, faults |-> f]
Small == {B(2, 1, 1, 1), B(0, 1, 2, 1), B(0, 0, 3, 1)}

Alike == Permutations(Keys)
OnTwoServers == w1 :> s1 @@ w2 :> s2
=============================================================================
