----------------------------- MODULE MCScheduler -----------------------------
(* Instances of Scheduler for TLC.                                           *)
EXTENDS Scheduler

P(kind, arg) == [kind |-> kind, arg |-> arg]

\* A macro whose policy was edited from Parallel to Queue between its triggers, so
\* that two queued runs can overlap, and one that restarts.
MixedMacro  == [r \in Runs |-> IF r <= 4 THEN "edited" ELSE "restarted"]
MixedPolicy ==
  << P("Parallel", 0), P("Parallel", 0), P("Queue", 2), P("Queue", 2),
     P("RestartIfRunning", 0), P("RestartIfRunning", 0), P("RestartIfRunning", 0) >>

\* The two policies that look at the clock.
TimedMacro  == [r \in Runs |-> IF r <= 3 THEN "debounced" ELSE "throttled"]
TimedPolicy == [r \in Runs |-> IF r <= 3 THEN P("Debounce", 1) ELSE P("Throttle", 2)]

=============================================================================
