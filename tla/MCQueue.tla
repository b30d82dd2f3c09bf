----------------------------- MODULE MCQueue ---------------------------------
(* The Queue policy for TLC: the runs of QueueMacro, which all queue, the     *)
(* last of them with a smaller max, and those of another macro, whose policy *)
(* was edited between a Queue without room and DropIfRunning.                *)
EXTENDS QueueRefinement

OnBoth == [r \in Runs |-> IF r <= 4 THEN QueueMacro ELSE "edited"]

BothPolicies ==
  [r \in Runs |-> [kind |-> IF r = 6 THEN "DropIfRunning" ELSE "Queue",
                   arg  |-> CASE r <= 3 -> 2 [] r = 4 -> 1 [] OTHER -> 0]]

=============================================================================
