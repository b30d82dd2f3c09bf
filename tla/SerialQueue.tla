----------------------------- MODULE SerialQueue -----------------------------
(***************************************************************************)
(* What a macro with the Queue policy promises, without tasks, locks or    *)
(* counters: one item at a time, the others wait in order of arrival, and  *)
(* an item is refused only when the waiting room is full.                  *)
(***************************************************************************)
EXTENDS Naturals, Sequences

CONSTANTS
  Items,
  Room     (* Room[i]: how many may wait when item i arrives *)

VARIABLES
  serving,   (* the item being worked on, a set with at most one element *)
  waiting,
  finished,
  refused

svars == <<serving, waiting, finished, refused>>

Arrived == serving \union {waiting[k] : k \in DOMAIN waiting} \union finished \union refused

Init ==
  /\ serving = {}
  /\ waiting = <<>>
  /\ finished = {}
  /\ refused = {}

Arrive(i) ==
  /\ i \notin Arrived
  /\ UNCHANGED finished
  /\ \/ /\ serving = {}
        /\ serving' = {i}
        /\ UNCHANGED <<waiting, refused>>
     \/ /\ serving # {}
        /\ Len(waiting) < Room[i]
        /\ waiting' = Append(waiting, i)
        /\ UNCHANGED <<serving, refused>>
     \/ /\ serving # {}
        /\ Len(waiting) >= Room[i]
        /\ refused' = refused \union {i}
        /\ UNCHANGED <<serving, waiting>>

\* The item at work leaves and the first one waiting takes its place.
Finish ==
  /\ serving # {}
  /\ finished' = finished \union serving
  /\ serving' = IF waiting = <<>> THEN {} ELSE {Head(waiting)}
  /\ waiting' = IF waiting = <<>> THEN <<>> ELSE Tail(waiting)
  /\ UNCHANGED refused

Next == Finish \/ \E i \in Items : Arrive(i)

Spec == Init /\ [][Next]_svars /\ WF_svars(Finish)

=============================================================================
