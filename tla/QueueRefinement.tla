--------------------------- MODULE QueueRefinement ---------------------------
(***************************************************************************)
(* A macro whose policy is Queue, as scheduler.rs runs it, implements      *)
(* SerialQueue: the item being served is the run that has the slot, and    *)
(* the waiting room is MacroState.queue.                                   *)
(***************************************************************************)
EXTENDS Scheduler

CONSTANT QueueMacro   (* a macro whose triggers all have the Queue policy *)

ASSUME QueueMacroAssumption ==
  /\ QueueMacro \in Macros
  /\ \A r \in Runs : MacroOf[r] = QueueMacro => PolicyOf[r].kind = "Queue"

QueueRuns == {r \in Runs : MacroOf[r] = QueueMacro}

Served ==
  INSTANCE SerialQueue WITH
    Items    <- QueueRuns,
    Room     <- [r \in QueueRuns |-> PolicyOf[r].arg],
    serving  <- Holders(QueueMacro),
    waiting  <- queue[QueueMacro],
    finished <- {r \in QueueRuns : pc[r] = "done"},
    refused  <- {r \in QueueRuns : pc[r] = "dropped"}

(* A macro with the Queue policy serves its triggers one at a time, in the *)
(* order in which their tasks reached the scheduler, refuses one only when *)
(* the room is full, and never stops serving.                              *)
ImplementsSerialQueue == Served!Spec

=============================================================================
