---------------------------- MODULE MCScheduler ----------------------------
(* Constants for model-checking Scheduler, and the scenarios of its run.   *)
EXTENDS Scheduler

CONSTANTS s1, s2, t1, t2, p1

TwoSchedules == <<s1, s2>>
OneProcess   == [t \in Ticks |-> p1]

\* s1 falls due at every instant after the first; s2 at odd ones.
Calendars == [s \in Schedules |->
                IF s = s1 THEN 1..MaxTime ELSE {o \in 1..MaxTime : o % 2 = 1}]

\* Either the ticks of the process overlap, for one schedule and without crashes and
\* rejected enqueues, or they do not, and everything may go wrong, in a shorter time.
VARIABLE overlap

ScenarioInit == Init /\ overlap \in BOOLEAN /\ paused = IF overlap THEN {s2} ELSE {}

ScenarioNext ==
  /\ Next
  /\ IF overlap THEN crashes' = 0 /\ rejects' = 0 /\ s2 \in paused'
                ELSE tick'[t2] = NoTick
  /\ UNCHANGED overlap

ScenarioSpec ==
  /\ ScenarioInit /\ [][ScenarioNext]_<<vars, overlap>>
  /\ WF_vars(TickStep(t1)) /\ WF_vars(overlap /\ TickStep(t2))
=============================================================================
