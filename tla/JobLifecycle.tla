---------------------------- MODULE JobLifecycle ----------------------------
(***************************************************************************)
(* What the job table promises about each row, without ticks, claims or    *)
(* processes: the lifecycle packages/features/src/jobs/schema.ts describes *)
(* in its header.  status moves pending -> running -> succeeded | failed;  *)
(* a failed attempt with budget left goes back to pending; the budget is   *)
(* only ever extended by an operator, and then to exactly one attempt more *)
(* than were used.  An operator may reopen any row that nobody runs.       *)
(* Nothing is promised of a row once a write has clobbered it, but that it *)
(* stays and that no other row is touched.                                 *)
(***************************************************************************)
EXTENDS Naturals

CONSTANTS Ids, Budgets

VARIABLES status, used, budget, clobbered

columns == <<status, used, budget>>
lifecycleVars == <<columns, clobbered>>

Init ==
  /\ status = [i \in Ids |-> "absent"]
  /\ used   = [i \in Ids |-> 0]
  /\ budget = [i \in Ids |-> 0]
  /\ clobbered = {}

Move(i, from, to) == status[i] \in from /\ status' = [status EXCEPT ![i] = to]
Use(i) == used' = [used EXCEPT ![i] = @ + 1]

Submit(i) ==
  /\ Move(i, {"absent"}, "pending")
  /\ \E b \in Budgets : budget' = [budget EXCEPT ![i] = b]
  /\ UNCHANGED used

Start(i) ==
  /\ used[i] < budget[i]
  /\ Move(i, {"pending"}, "running")
  /\ UNCHANGED <<used, budget>>

Succeed(i) == Move(i, {"running"}, "succeeded") /\ Use(i) /\ UNCHANGED budget

Reschedule(i) ==
  /\ used[i] + 1 < budget[i]
  /\ Move(i, {"running"}, "pending") /\ Use(i) /\ UNCHANGED budget

\* A run that fails for good uses an attempt; a row nobody can run does not.
GiveUp(i) ==
  /\ Move(i, {"running"}, "failed")
  /\ Use(i) \/ UNCHANGED used
  /\ UNCHANGED budget

Grant(i) ==
  /\ Move(i, {"pending", "succeeded", "failed"}, "pending")
  /\ budget' = [budget EXCEPT ![i] = used[i] + 1]
  /\ UNCHANGED used

\* A write of a row that is no longer what its writer read, and any after it.
Clobber(i) ==
  /\ status[i] # "absent" /\ status'[i] # "absent"
  /\ \A j \in Ids \ {i} :
       status'[j] = status[j] /\ used'[j] = used[j] /\ budget'[j] = budget[j]
  /\ clobbered' = clobbered \cup {i}

Next ==
  \E i \in Ids :
    \/ /\ \/ Submit(i) \/ Start(i) \/ Succeed(i) \/ Reschedule(i) \/ GiveUp(i) \/ Grant(i)
       /\ UNCHANGED clobbered
    \/ Clobber(i)

Spec == Init /\ [][Next]_lifecycleVars
=============================================================================
