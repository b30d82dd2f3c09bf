--------------------------- MODULE SchedulerProofs ---------------------------
(***************************************************************************)
(* Safety of the scheduler for any runs, macros, policies, panics and      *)
(* clock bound.  The argument: TypeOK; the queue holds exactly the waiting *)
(* runs; hence a step changes the set of runs that have a slot by one run  *)
(* at most (or swaps one for the head of the queue), and `running` follows *)
(* its cardinality; serial execution, the overlap after an edit and who    *)
(* strands queued work are consequences of that count.  Last, a macro with *)
(* the Queue policy serves its runs as SerialQueue does.                   *)
(***************************************************************************)
EXTENDS QueueRefinement, FiniteSetTheorems, FunctionTheorems, SequenceTheorems, TLAPS

-----------------------------------------------------------------------------
(* Type correctness.                                                       *)

LEMMA InitTypeOK == Init => TypeOK
BY SchedulerAssumption DEF Init, TypeOK, Location

LEMMA TypeStep == TypeOK /\ [Next]_vars => TypeOK'
<1> SUFFICES ASSUME TypeOK, [Next]_vars PROVE TypeOK'
  OBVIOUS
<1> USE SchedulerAssumption DEF TypeOK, Location, Move, Applies, TakeSlot, Refuse,
        perMacro, tokens, Policy
<1>1. ASSUME NEW r \in Runs, Schedule(r) PROVE TypeOK'
  BY <1>1 DEF Schedule
<1>2. ASSUME NEW r \in Runs, ApplyParallel(r) PROVE TypeOK'
  BY <1>2 DEF ApplyParallel
<1>3. ASSUME NEW r \in Runs, ApplyDropIfRunning(r) PROVE TypeOK'
  <2>1. CASE TakeSlot(r, "executing")
    BY <1>3, <2>1 DEF ApplyDropIfRunning
  <2>2. CASE Refuse(r)
    BY <1>3, <2>2 DEF ApplyDropIfRunning
  <2> QED
    BY <1>3, <2>1, <2>2 DEF ApplyDropIfRunning
<1>4. ASSUME NEW r \in Runs, ApplyQueue(r) PROVE TypeOK'
  <2>1. CASE TakeSlot(r, "executing") /\ UNCHANGED queue
    BY <1>4, <2>1 DEF ApplyQueue
  <2>2. CASE /\ queue' = [queue EXCEPT ![MacroOf[r]] = Append(@, r)]
             /\ pc' = [pc EXCEPT ![r] = "queued"]
             /\ UNCHANGED <<running, startedAt>>
    BY <1>4, <2>2 DEF ApplyQueue
  <2>3. CASE Refuse(r) /\ UNCHANGED queue
    BY <1>4, <2>3 DEF ApplyQueue
  <2> QED
    BY <1>4, <2>1, <2>2, <2>3 DEF ApplyQueue
<1>5. ASSUME NEW r \in Runs, ApplyRestart(r) PROVE TypeOK'
  BY <1>5 DEF ApplyRestart
<1>6. ASSUME NEW r \in Runs, ApplyDebounce(r) PROVE TypeOK'
  BY <1>6 DEF ApplyDebounce
<1>7. ASSUME NEW r \in Runs, ApplyThrottle(r) PROVE TypeOK'
  <2>1. CASE TakeSlot(r, "executing") /\ lastFire' = [lastFire EXCEPT ![MacroOf[r]] = {now}]
    BY <1>7, <2>1 DEF ApplyThrottle
  <2>2. CASE Refuse(r) /\ UNCHANGED lastFire
    BY <1>7, <2>2 DEF ApplyThrottle
  <2> QED
    BY <1>7, <2>1, <2>2 DEF ApplyThrottle
<1>8. ASSUME NEW r \in Runs, CancelPrevious(r) PROVE TypeOK'
  BY <1>8 DEF CancelPrevious
<1>9. ASSUME NEW r \in Runs, StartFresh(r) PROVE TypeOK'
  BY <1>9 DEF StartFresh
<1>10. ASSUME NEW r \in Runs, DebounceWake(r) PROVE TypeOK'
  BY <1>10 DEF DebounceWake
<1>11. ASSUME NEW r \in Runs, DebounceFire(r) PROVE TypeOK'
  BY <1>11 DEF DebounceFire
<1>12. ASSUME NEW r \in Runs, WorkflowEnds(r) PROVE TypeOK'
  BY <1>12 DEF WorkflowEnds
<1>13. ASSUME NEW r \in Runs, SettleLast(r) PROVE TypeOK'
  <2>1. SlotsLeft(MacroOf[r]) \in Nat /\ TokensLeft(MacroOf[r]) \subseteq Runs
    BY DEF SlotsLeft, TokensLeft
  <2> QED
    BY <1>13, <2>1 DEF SettleLast
<1>18. ASSUME NEW r \in Runs, SettleNext(r) PROVE TypeOK'
  <2>1. SlotsRetaken(MacroOf[r]) \in Nat /\ TokensLeft(MacroOf[r]) \subseteq Runs
    BY DEF SlotsLeft, SlotsRetaken, TokensLeft
  <2>2. NextInLine(MacroOf[r]) \in Runs /\ Tail(queue[MacroOf[r]]) \in Seq(Runs)
    BY <1>18, HeadTailProperties DEF NextInLine, SettleNext
  <2>3. /\ pc' = [pc EXCEPT ![r] = "done", ![NextInLine(MacroOf[r])] = "executing"]
        /\ startedAt' = [startedAt EXCEPT ![NextInLine(MacroOf[r])] = {now}]
    BY <1>18 DEF SettleNext
  <2>6. pc' \in [Runs -> Location]
    BY <2>2, <2>3
  <2>7. startedAt' \in [Runs -> SUBSET Nat]
    BY <2>2, <2>3
  <2>4. running' \in [Macros -> Nat] /\ activeCancels' \in [Macros -> SUBSET Runs]
    BY <1>18, <2>1 DEF SettleNext
  <2>5. queue' \in [Macros -> Seq(Runs)]
    BY <1>18, <2>2 DEF SettleNext
  <2> QED
    BY <1>18, <2>4, <2>5, <2>6, <2>7 DEF SettleNext
<1>14. ASSUME NEW r \in Runs, WorkflowTimesOut(r) PROVE TypeOK'
  BY <1>14 DEF WorkflowTimesOut
<1>15. ASSUME NEW r \in Runs, WorkflowPanics(r) PROVE TypeOK'
  BY <1>15 DEF WorkflowPanics
<1>16. CASE Tick
  BY <1>16 DEF Tick
<1>17. CASE UNCHANGED vars
  BY <1>17 DEF vars
<1> QED
  BY <1>1, <1>2, <1>3, <1>4, <1>5, <1>6, <1>7, <1>8, <1>9, <1>10, <1>11, <1>12,
     <1>13, <1>14, <1>15, <1>16, <1>17, <1>18 DEF Next, TaskStep, ApplyPolicy, Quiescent

(* Every variable keeps its type, whatever the policies and the order of   *)
(* the tasks: in particular `running` never goes below zero.               *)
THEOREM TypeCorrect == Spec => []TypeOK
BY InitTypeOK, TypeStep, PTL DEF Spec

-----------------------------------------------------------------------------
(* The queue holds exactly the waiting runs.                               *)

\* The steps that do not queue or dequeue anything.
LEMMA QueueUntouched ==
  ASSUME QueueIsTheWaitingRuns, UNCHANGED queue,
         \A r \in Runs : pc'[r] = "queued" <=> pc[r] = "queued",
         TypeOK
  PROVE  QueueIsTheWaitingRuns'
<1> SUFFICES ASSUME NEW m \in Macros
             PROVE  /\ \A i \in 1..Len(queue[m]) : MacroOf[queue[m][i]] = m /\ pc'[queue[m][i]] = "queued"
                    /\ \A r \in Runs : (MacroOf[r] = m /\ pc'[r] = "queued") =>
                         \E i \in 1..Len(queue[m]) : queue[m][i] = r
                    /\ \A i, j \in 1..Len(queue[m]) : queue[m][i] = queue[m][j] => i = j
  BY DEF QueueIsTheWaitingRuns
<1>1. \A i \in 1..Len(queue[m]) : queue[m][i] \in Runs
  BY ElementOfSeq DEF TypeOK
<1> QED
  BY <1>1 DEF QueueIsTheWaitingRuns

\* A run goes to the back of the queue of its macro.
LEMMA Enqueued ==
  ASSUME TypeOK, QueueIsTheWaitingRuns, NEW r \in Runs, pc[r] = "spawned",
         queue' = [queue EXCEPT ![MacroOf[r]] = Append(@, r)],
         pc' = [pc EXCEPT ![r] = "queued"]
  PROVE  QueueIsTheWaitingRuns'
<1> SUFFICES ASSUME NEW m \in Macros
             PROVE  /\ \A i \in 1..Len(queue'[m]) : MacroOf[queue'[m][i]] = m /\ pc'[queue'[m][i]] = "queued"
                    /\ \A s \in Runs : (MacroOf[s] = m /\ pc'[s] = "queued") =>
                         \E i \in 1..Len(queue'[m]) : queue'[m][i] = s
                    /\ \A i, j \in 1..Len(queue'[m]) : queue'[m][i] = queue'[m][j] => i = j
  BY DEF QueueIsTheWaitingRuns
<1>0. queue[m] \in Seq(Runs) /\ MacroOf[r] \in Macros
  BY SchedulerAssumption DEF TypeOK
<1>1. \A i \in 1..Len(queue[m]) : queue[m][i] \in Runs /\ queue[m][i] # r
  BY <1>0, ElementOfSeq DEF QueueIsTheWaitingRuns
<1>2. CASE m # MacroOf[r]
  <2>1. queue'[m] = queue[m]
    BY <1>2 DEF TypeOK
  <2>2. \A s \in Runs : s # r => pc'[s] = pc[s]
    BY DEF TypeOK
  <2> QED
    BY <1>1, <1>2, <2>1, <2>2 DEF QueueIsTheWaitingRuns
<1>3. CASE m = MacroOf[r]
  <2>1. queue'[m] = Append(queue[m], r)
    BY <1>3, <1>0 DEF TypeOK
  <2>2. /\ Len(queue'[m]) = Len(queue[m]) + 1
        /\ \A i \in 1..Len(queue[m]) : queue'[m][i] = queue[m][i]
        /\ queue'[m][Len(queue[m]) + 1] = r
        /\ Len(queue[m]) \in Nat
    BY <2>1, <1>0
  <2>3. pc'[r] = "queued" /\ \A s \in Runs : s # r => pc'[s] = pc[s]
    BY DEF TypeOK
  <2>4. \A i \in 1..Len(queue'[m]) : i \in 1..Len(queue[m]) \/ i = Len(queue[m]) + 1
    BY <2>2
  <2>5. \A i \in 1..Len(queue'[m]) : MacroOf[queue'[m][i]] = m /\ pc'[queue'[m][i]] = "queued"
    BY <1>1, <1>3, <2>2, <2>3, <2>4 DEF QueueIsTheWaitingRuns
  <2>6. ASSUME NEW s \in Runs, MacroOf[s] = m, pc'[s] = "queued"
        PROVE  \E i \in 1..Len(queue'[m]) : queue'[m][i] = s
    <3>1. CASE s = r
      BY <3>1, <2>2
    <3>2. CASE s # r
      BY <3>2, <2>2, <2>3, <2>6 DEF QueueIsTheWaitingRuns
    <3> QED
      BY <3>1, <3>2
  <2>7. \A i, j \in 1..Len(queue'[m]) : queue'[m][i] = queue'[m][j] => i = j
    BY <1>1, <2>2, <2>4 DEF QueueIsTheWaitingRuns
  <2> QED
    BY <2>5, <2>6, <2>7
<1> QED
  BY <1>2, <1>3

\* The head of the queue is taken by the task that settles.
LEMMA Dequeued ==
  ASSUME TypeOK, QueueIsTheWaitingRuns, NEW r \in Runs, SettleNext(r)
  PROVE  QueueIsTheWaitingRuns'
<1> DEFINE n == MacroOf[r]
           q == queue[n][1]
<1> SUFFICES ASSUME NEW m \in Macros
             PROVE  /\ \A i \in 1..Len(queue'[m]) : MacroOf[queue'[m][i]] = m /\ pc'[queue'[m][i]] = "queued"
                    /\ \A s \in Runs : (MacroOf[s] = m /\ pc'[s] = "queued") =>
                         \E i \in 1..Len(queue'[m]) : queue'[m][i] = s
                    /\ \A i, j \in 1..Len(queue'[m]) : queue'[m][i] = queue'[m][j] => i = j
  BY DEF QueueIsTheWaitingRuns
<1>0. /\ n \in Macros /\ queue[m] \in Seq(Runs) /\ queue[n] \in Seq(Runs) /\ queue[n] # <<>>
      /\ queue' = [queue EXCEPT ![n] = Tail(queue[n])]
      /\ pc' = [pc EXCEPT ![r] = "done", ![q] = "executing"]
      /\ pc[r] = "ended"
  <2>1. n \in Macros /\ queue[m] \in Seq(Runs) /\ queue[n] \in Seq(Runs)
    BY SchedulerAssumption DEF TypeOK
  <2>2. queue[n] # <<>> /\ pc[r] = "ended"
    BY DEF SettleNext
  <2>3. NextInLine(n) = q
    BY <2>1, <2>2 DEF NextInLine
  <2>4. pc' = [pc EXCEPT ![r] = "done", ![NextInLine(n)] = "executing"]
    BY DEF SettleNext
  <2>5. queue' = [queue EXCEPT ![n] = Tail(queue[n])]
    BY DEF SettleNext
  <2> QED
    BY <2>1, <2>2, <2>3, <2>4, <2>5
<1>1. 1 \in 1..Len(queue[n]) /\ q \in Runs /\ pc[q] = "queued" /\ MacroOf[q] = n
  BY <1>0, LenProperties, EmptySeq, ElementOfSeq DEF QueueIsTheWaitingRuns
<1>2. /\ \A s \in Runs : s # r /\ s # q => pc'[s] = pc[s]
      /\ pc'[r] = "done" /\ pc'[q] = "executing"
  BY <1>0, <1>1 DEF TypeOK
<1>3. \A i \in 1..Len(queue[m]) : queue[m][i] \in Runs
  BY <1>0, ElementOfSeq
<1>4. CASE m # n
  <2>1. queue'[m] = queue[m]
    BY <1>4, <1>0 DEF TypeOK
  <2>2. \A i \in 1..Len(queue[m]) : queue[m][i] # q /\ queue[m][i] # r
    BY <1>0, <1>1, <1>4 DEF QueueIsTheWaitingRuns
  <2>3. \A i \in 1..Len(queue[m]) : MacroOf[queue[m][i]] = m /\ pc'[queue[m][i]] = "queued"
    BY <1>2, <1>3, <2>2 DEF QueueIsTheWaitingRuns
  <2>4. \A s \in Runs : (MacroOf[s] = m /\ pc'[s] = "queued") =>
          \E i \in 1..Len(queue[m]) : queue[m][i] = s
    BY <1>2, <1>4 DEF QueueIsTheWaitingRuns
  <2>5. \A i, j \in 1..Len(queue[m]) : queue[m][i] = queue[m][j] => i = j
    BY DEF QueueIsTheWaitingRuns
  <2> QED
    BY <2>1, <2>3, <2>4, <2>5
<1>5. CASE m = n
  <2>1. queue'[m] = Tail(queue[m])
    BY <1>5, <1>0 DEF TypeOK
  <2>2. /\ Len(queue[m]) \in Nat
        /\ Len(queue'[m]) = Len(queue[m]) - 1
        /\ \A i \in 1..Len(queue'[m]) : queue'[m][i] = queue[m][i + 1]
    BY <2>1, <1>0, <1>5
  <2>3. \A i \in 1..Len(queue'[m]) : i + 1 \in 1..Len(queue[m]) /\ i + 1 # 1
    BY <2>2
  <2>4. \A i \in 2..Len(queue[m]) : i - 1 \in 1..Len(queue'[m]) /\ queue[m][i] = queue'[m][i - 1]
    BY <2>2
  <2>5. \A i \in 1..Len(queue'[m]) : queue'[m][i] # q /\ queue'[m][i] # r
    BY <1>0, <1>1, <1>3, <1>5, <2>2, <2>3 DEF QueueIsTheWaitingRuns
  <2>6. \A i \in 1..Len(queue'[m]) : MacroOf[queue'[m][i]] = m /\ pc'[queue'[m][i]] = "queued"
    BY <1>2, <1>3, <2>2, <2>3, <2>5 DEF QueueIsTheWaitingRuns
  <2>7. ASSUME NEW s \in Runs, MacroOf[s] = m, pc'[s] = "queued"
        PROVE  \E i \in 1..Len(queue'[m]) : queue'[m][i] = s
    <3>1. s # r /\ s # q /\ pc[s] = "queued"
      BY <1>2, <2>7
    <3>2. PICK i \in 1..Len(queue[m]) : queue[m][i] = s
      BY <3>1, <2>7 DEF QueueIsTheWaitingRuns
    <3>3. i \in 2..Len(queue[m])
      BY <3>1, <3>2, <1>5, <2>2
    <3> QED
      BY <3>2, <3>3, <2>4
  <2>8. \A i, j \in 1..Len(queue'[m]) : queue'[m][i] = queue'[m][j] => i = j
    <3> SUFFICES ASSUME NEW i \in 1..Len(queue'[m]), NEW j \in 1..Len(queue'[m]),
                        queue'[m][i] = queue'[m][j]
                 PROVE  i = j
      OBVIOUS
    <3>1. i + 1 = j + 1
      BY <2>2, <2>3 DEF QueueIsTheWaitingRuns
    <3> QED
      BY <3>1
  <2> QED
    BY <2>6, <2>7, <2>8
<1> QED
  BY <1>4, <1>5

\* The run a settling task takes from its queue.
LEMMA NextIsWaiting ==
  ASSUME TypeOK, QueueIsTheWaitingRuns, NEW r \in Runs, SettleNext(r)
  PROVE  \E q \in Runs : /\ q = NextInLine(MacroOf[r])
                         /\ MacroOf[q] = MacroOf[r]
                         /\ pc[q] = "queued"
<1>1. /\ MacroOf[r] \in Macros
      /\ queue[MacroOf[r]] \in Seq(Runs) /\ queue[MacroOf[r]] # <<>>
  BY SchedulerAssumption DEF TypeOK, SettleNext
<1>2. NextInLine(MacroOf[r]) = queue[MacroOf[r]][1] /\ 1 \in 1..Len(queue[MacroOf[r]])
  BY <1>1, EmptySeq DEF NextInLine
<1> QED
  BY <1>1, <1>2, ElementOfSeq DEF QueueIsTheWaitingRuns

LEMMA QueueStep == TypeOK /\ QueueIsTheWaitingRuns /\ [Next]_vars => QueueIsTheWaitingRuns'
<1> SUFFICES ASSUME TypeOK, QueueIsTheWaitingRuns, [Next]_vars
             PROVE  QueueIsTheWaitingRuns'
  OBVIOUS
<1> DEFINE Untouched == /\ UNCHANGED queue
                        /\ \A s \in Runs : pc'[s] = "queued" <=> pc[s] = "queued"
<1>0. Untouched => QueueIsTheWaitingRuns'
  BY QueueUntouched
<1>1. ASSUME NEW r \in Runs, ApplyQueue(r) PROVE QueueIsTheWaitingRuns'
  <2>1. CASE (TakeSlot(r, "executing") \/ Refuse(r)) /\ UNCHANGED queue
    <3>1. Untouched
      BY <1>1, <2>1 DEF ApplyQueue, Applies, TakeSlot, Refuse, TypeOK
    <3> QED
      BY <3>1, <1>0
  <2>2. CASE /\ queue' = [queue EXCEPT ![MacroOf[r]] = Append(@, r)]
             /\ pc' = [pc EXCEPT ![r] = "queued"]
    BY <1>1, <2>2, Enqueued DEF ApplyQueue, Applies
  <2> QED
    BY <1>1, <2>1, <2>2 DEF ApplyQueue
<1>2. ASSUME NEW r \in Runs, SettleNext(r) PROVE QueueIsTheWaitingRuns'
  BY <1>2, Dequeued
<1>3. ASSUME NEW r \in Runs, SettleLast(r) PROVE Untouched
  BY <1>3 DEF SettleLast, Move, TypeOK
<1>4. ASSUME NEW r \in Runs,
             \/ ApplyParallel(r) \/ ApplyDropIfRunning(r) \/ ApplyRestart(r)
             \/ ApplyThrottle(r)
      PROVE  Untouched
  BY <1>4 DEF ApplyParallel, ApplyDropIfRunning, ApplyRestart, ApplyThrottle, Applies,
              TakeSlot, Refuse, TypeOK
<1>5. ASSUME NEW r \in Runs,
             \/ Schedule(r) \/ ApplyDebounce(r) \/ StartFresh(r) \/ WorkflowEnds(r)
             \/ WorkflowPanics(r)
      PROVE  Untouched
  BY <1>5 DEF Schedule, ApplyDebounce, StartFresh, WorkflowEnds, WorkflowPanics, Move, TypeOK
<1>6. ASSUME NEW r \in Runs,
             DebounceWake(r) \/ DebounceFire(r) \/ CancelPrevious(r) \/ WorkflowTimesOut(r)
      PROVE  Untouched
  BY <1>6 DEF DebounceWake, DebounceFire, CancelPrevious, WorkflowTimesOut, TakeSlot, Move, TypeOK
<1>7. CASE Tick \/ UNCHANGED vars
  BY <1>7, <1>0 DEF Tick, vars
<1> QED
  BY <1>0, <1>1, <1>2, <1>3, <1>4, <1>5, <1>6, <1>7
     DEF Next, TaskStep, ApplyPolicy, Quiescent

(* The queue of a macro is exactly its waiting runs, each once: nothing is *)
(* lost from it, duplicated in it, or left in it once executed.            *)
THEOREM QueueCorrect == Spec => []QueueIsTheWaitingRuns
<1>1. Init => QueueIsTheWaitingRuns
  BY SchedulerAssumption DEF Init, QueueIsTheWaitingRuns
<1> QED
  BY <1>1, QueueStep, TypeCorrect, PTL DEF Spec

-----------------------------------------------------------------------------
(* `running` counts the runs that have a slot.                             *)

Counted == \A m \in Macros : /\ IsFiniteSet(Holders(m))
                             /\ running[m] = Cardinality(Holders(m))

LEMMA SlotsUntouched ==
  ASSUME Counted, UNCHANGED running, \A r \in Runs : HasSlot(r)' <=> HasSlot(r)
  PROVE  Counted'
<1>1. \A m \in Macros : Holders(m)' = Holders(m)
  BY DEF Holders
<1> QED
  BY <1>1 DEF Counted

LEMMA SlotTaken ==
  ASSUME TypeOK, Counted, NEW r \in Runs, ~HasSlot(r),
         NEW to \in {"executing", "cancelling"}, TakeSlot(r, to)
  PROVE  Counted'
<1> SUFFICES ASSUME NEW m \in Macros
             PROVE  IsFiniteSet(Holders(m)') /\ running'[m] = Cardinality(Holders(m)')
  BY DEF Counted
<1>1. HasSlot(r)' /\ \A s \in Runs : s # r => (HasSlot(s)' <=> HasSlot(s))
  BY DEF TakeSlot, HasSlot, TypeOK
<1>2. CASE m = MacroOf[r]
  <2>1. Holders(m)' = Holders(m) \union {r} /\ r \notin Holders(m)
    BY <1>1, <1>2 DEF Holders
  <2>2. running'[m] = running[m] + 1
    BY <1>2 DEF TakeSlot, TypeOK
  <2> QED
    BY <2>1, <2>2, FS_AddElement DEF Counted
<1>3. CASE m # MacroOf[r]
  <2>1. Holders(m)' = Holders(m) /\ running'[m] = running[m]
    BY <1>1, <1>3 DEF Holders, TakeSlot, TypeOK
  <2> QED
    BY <2>1 DEF Counted
<1> QED
  BY <1>2, <1>3

LEMMA SlotReleased ==
  ASSUME TypeOK, Counted, NEW r \in Runs, SettleLast(r)
  PROVE  Counted'
<1> SUFFICES ASSUME NEW m \in Macros
             PROVE  IsFiniteSet(Holders(m)') /\ running'[m] = Cardinality(Holders(m)')
  BY DEF Counted
<1>1. HasSlot(r) /\ ~HasSlot(r)' /\ \A s \in Runs : s # r => (HasSlot(s)' <=> HasSlot(s))
  BY DEF SettleLast, Move, HasSlot, TypeOK
<1>2. CASE m = MacroOf[r]
  <2>1. Holders(m)' = Holders(m) \ {r} /\ r \in Holders(m)
    BY <1>1, <1>2 DEF Holders
  <2>2. running[m] > 0
    BY <2>1, FS_EmptySet, FS_CardinalityType DEF Counted
  <2>3. running'[m] = running[m] - 1
    BY <1>2, <2>2 DEF SettleLast, SlotsLeft, TypeOK
  <2> QED
    BY <2>1, <2>3, FS_RemoveElement DEF Counted
<1>3. CASE m # MacroOf[r]
  <2>1. Holders(m)' = Holders(m) /\ running'[m] = running[m]
    BY <1>1, <1>3 DEF Holders, SettleLast, TypeOK
  <2> QED
    BY <2>1 DEF Counted
<1> QED
  BY <1>2, <1>3

LEMMA SlotPassedOn ==
  ASSUME TypeOK, QueueIsTheWaitingRuns, Counted, NEW r \in Runs, SettleNext(r)
  PROVE  Counted'
<1> DEFINE n == MacroOf[r]
<1> SUFFICES ASSUME NEW m \in Macros
             PROVE  IsFiniteSet(Holders(m)') /\ running'[m] = Cardinality(Holders(m)')
  BY DEF Counted
<1>1. PICK q \in Runs : /\ q = NextInLine(n) /\ MacroOf[q] = n /\ pc[q] = "queued"
                        /\ pc[r] = "ended" /\ n \in Macros
  BY NextIsWaiting, SchedulerAssumption DEF SettleNext
<1>2. pc' = [pc EXCEPT ![r] = "done", ![q] = "executing"]
  BY <1>1 DEF SettleNext
<1>3. /\ HasSlot(r) /\ ~HasSlot(r)' /\ ~HasSlot(q) /\ HasSlot(q)'
      /\ \A s \in Runs : s # r /\ s # q => (HasSlot(s)' <=> HasSlot(s))
  BY <1>1, <1>2 DEF HasSlot, TypeOK
<1>4. CASE m = n
  <2>1. /\ r \in Holders(m) /\ q \notin Holders(m)
        /\ Holders(m)' = (Holders(m) \ {r}) \union {q}
    BY <1>1, <1>3, <1>4 DEF Holders
  <2>2. running[m] > 0
    BY <2>1, FS_EmptySet, FS_CardinalityType DEF Counted
  <2>3. running'[m] = running[m]
    BY <1>4, <2>2 DEF SettleNext, SlotsRetaken, SlotsLeft, TypeOK
  <2>4. IsFiniteSet(Holders(m) \ {r}) /\ Cardinality(Holders(m) \ {r}) = Cardinality(Holders(m)) - 1
    BY <2>1, FS_RemoveElement DEF Counted
  <2>5. q \notin Holders(m) \ {r}
    BY <2>1
  <2>6. /\ IsFiniteSet((Holders(m) \ {r}) \union {q})
        /\ Cardinality((Holders(m) \ {r}) \union {q}) = Cardinality(Holders(m) \ {r}) + 1
    BY <2>4, <2>5, FS_AddElement
  <2>7. Cardinality(Holders(m)) \in Nat
    BY FS_CardinalityType DEF Counted
  <2> QED
    BY <2>1, <2>3, <2>4, <2>6, <2>7 DEF Counted
<1>5. CASE m # n
  <2>1. Holders(m)' = Holders(m)
    BY <1>1, <1>3, <1>5 DEF Holders
  <2>2. running'[m] = running[m]
    BY <1>5 DEF SettleNext, TypeOK
  <2> QED
    BY <2>1, <2>2 DEF Counted
<1> QED
  BY <1>4, <1>5

LEMMA CountStep ==
  TypeOK /\ QueueIsTheWaitingRuns /\ Counted /\ [Next]_vars => Counted'
<1> SUFFICES ASSUME TypeOK, QueueIsTheWaitingRuns, Counted, [Next]_vars
             PROVE  Counted'
  OBVIOUS
<1> DEFINE Untouched == /\ UNCHANGED running
                        /\ \A s \in Runs : HasSlot(s)' <=> HasSlot(s)
<1>0. Untouched => Counted'
  BY SlotsUntouched
<1>1. ASSUME NEW r \in Runs, ApplyParallel(r) \/ DebounceFire(r) \/ ApplyRestart(r)
      PROVE  Counted'
  <2>1. ~HasSlot(r)
    BY <1>1 DEF ApplyParallel, DebounceFire, ApplyRestart, Applies, HasSlot
  <2>2. TakeSlot(r, "executing") \/ TakeSlot(r, "cancelling")
    BY <1>1 DEF ApplyParallel, DebounceFire, ApplyRestart
  <2> QED
    BY <2>1, <2>2, SlotTaken
<1>2. ASSUME NEW r \in Runs, ApplyDropIfRunning(r) \/ ApplyQueue(r) \/ ApplyThrottle(r)
      PROVE  Counted'
  <2>1. CASE TakeSlot(r, "executing")
    <3>1. ~HasSlot(r)
      BY <1>2 DEF ApplyDropIfRunning, ApplyQueue, ApplyThrottle, Applies, HasSlot
    <3> QED
      BY <2>1, <3>1, SlotTaken
  <2>2. CASE Refuse(r)
    <3>1. pc[r] = "spawned"
      BY <1>2 DEF ApplyDropIfRunning, ApplyQueue, ApplyThrottle, Applies
    <3>2. Untouched
      BY <2>2, <3>1 DEF HasSlot, Refuse, TypeOK
    <3> QED
      BY <3>2, <1>0
  <2>3. CASE pc' = [pc EXCEPT ![r] = "queued"] /\ UNCHANGED running
    <3>1. pc[r] = "spawned"
      BY <1>2 DEF ApplyDropIfRunning, ApplyQueue, ApplyThrottle, Applies
    <3>2. Untouched
      BY <2>3, <3>1 DEF HasSlot, TypeOK
    <3> QED
      BY <3>2, <1>0
  <2> QED
    BY <1>2, <2>1, <2>2, <2>3 DEF ApplyDropIfRunning, ApplyQueue, ApplyThrottle
<1>3. ASSUME NEW r \in Runs, SettleLast(r) PROVE Counted'
  BY <1>3, SlotReleased
<1>4. ASSUME NEW r \in Runs, SettleNext(r) PROVE Counted'
  BY <1>4, SlotPassedOn
<1>5. ASSUME NEW r \in Runs,
             \/ Schedule(r) \/ ApplyDebounce(r) \/ StartFresh(r) \/ WorkflowEnds(r)
             \/ WorkflowPanics(r) \/ DebounceWake(r)
      PROVE  Untouched
  BY <1>5 DEF Schedule, ApplyDebounce, StartFresh, WorkflowEnds, WorkflowPanics,
              DebounceWake, Move, Applies, HasSlot, TypeOK
<1>6. ASSUME NEW r \in Runs, CancelPrevious(r) \/ WorkflowTimesOut(r)
      PROVE  Untouched
  BY <1>6 DEF CancelPrevious, WorkflowTimesOut, HasSlot
<1>7. CASE Tick \/ UNCHANGED vars
  BY <1>7, <1>0 DEF Tick, vars, HasSlot
<1> QED
  BY <1>0, <1>1, <1>2, <1>3, <1>4, <1>5, <1>6, <1>7
     DEF Next, TaskStep, ApplyPolicy, Quiescent

LEMMA CountInvariant == Spec => []Counted
<1>1. Init => Counted
  <2> SUFFICES ASSUME Init PROVE Counted
    OBVIOUS
  <2>1. \A m \in Macros : Holders(m) = {} /\ running[m] = 0
    BY DEF Init, Holders, HasSlot
  <2> QED
    BY <2>1, FS_EmptySet DEF Counted
<1> QED
  BY <1>1, CountStep, TypeCorrect, QueueCorrect, PTL DEF Spec

(* `running` is the number of runs that have a slot, for every mix of      *)
(* policies and however many workflows panic.                              *)
THEOREM SlotsCorrect == Spec => []SlotAccounting
<1>1. Counted => SlotAccounting
  BY DEF Counted, SlotAccounting
<1> QED
  BY <1>1, CountInvariant, PTL

-----------------------------------------------------------------------------
(* Where a run can be says which policy it has.                            *)

StageOf(r) ==
  /\ pc[r] = "queued" => PolicyOf[r].kind = "Queue"
  /\ pc[r] \in {"sleeping", "woken"} => PolicyOf[r].kind = "Debounce"
  /\ toCancel[r] # {} => pc[r] = "cancelling"

PolicyStage == \A r \in Runs : StageOf(r)

LEMMA StageStep ==
  TypeOK /\ QueueIsTheWaitingRuns /\ PolicyStage /\ [Next]_vars => PolicyStage'
<1> SUFFICES ASSUME TypeOK, QueueIsTheWaitingRuns, PolicyStage, [Next]_vars, NEW s \in Runs
             PROVE  StageOf(s)'
  BY DEF PolicyStage
<1>0. StageOf(s)
  BY DEF PolicyStage
<1>1. ASSUME NEW r \in Runs, ApplyParallel(r) \/ ApplyDropIfRunning(r) \/ ApplyThrottle(r)
      PROVE  StageOf(s)'
  BY <1>0, <1>1 DEF ApplyParallel, ApplyDropIfRunning, ApplyThrottle, Applies, TakeSlot,
                    Refuse, StageOf, TypeOK, tokens
<1>2. ASSUME NEW r \in Runs, ApplyQueue(r) PROVE StageOf(s)'
  BY <1>0, <1>2 DEF ApplyQueue, Applies, TakeSlot, Refuse, StageOf, TypeOK, tokens
<1>3. ASSUME NEW r \in Runs, ApplyRestart(r) \/ ApplyDebounce(r) PROVE StageOf(s)'
  BY <1>0, <1>3 DEF ApplyRestart, ApplyDebounce, Applies, TakeSlot, Move, StageOf, TypeOK
<1>4. ASSUME NEW r \in Runs,
             \/ Schedule(r) \/ StartFresh(r) \/ DebounceWake(r) \/ DebounceFire(r)
             \/ WorkflowEnds(r) \/ WorkflowPanics(r) \/ SettleLast(r)
      PROVE  StageOf(s)'
  BY <1>0, <1>4 DEF Schedule, StartFresh, DebounceWake, DebounceFire, WorkflowEnds,
                    WorkflowPanics, SettleLast, Move, TakeSlot, StageOf, TypeOK, tokens
<1>5. ASSUME NEW r \in Runs, CancelPrevious(r) \/ WorkflowTimesOut(r) PROVE StageOf(s)'
  BY <1>0, <1>5 DEF CancelPrevious, WorkflowTimesOut, StageOf, TypeOK
<1>6. ASSUME NEW r \in Runs, SettleNext(r) PROVE StageOf(s)'
  <2>1. /\ pc' = [pc EXCEPT ![r] = "done", ![NextInLine(MacroOf[r])] = "executing"]
        /\ pc[r] = "ended"
        /\ UNCHANGED toCancel
    BY <1>6 DEF SettleNext, tokens
  <2>4. pc[NextInLine(MacroOf[r])] = "queued"
    BY <1>6, NextIsWaiting
  <2>5. pc'[s] \in {pc[s], "done", "executing"} /\ (pc[s] = "cancelling" => pc'[s] = pc[s])
    BY <2>1, <2>4 DEF TypeOK
  <2> QED
    BY <1>0, <2>1, <2>5 DEF StageOf
<1>7. CASE Tick \/ UNCHANGED vars
  BY <1>0, <1>7 DEF Tick, vars, tokens, StageOf
<1> QED
  BY <1>1, <1>2, <1>3, <1>4, <1>5, <1>6, <1>7 DEF Next, TaskStep, ApplyPolicy, Quiescent

LEMMA StageInvariant == Spec => []PolicyStage
<1>1. Init => PolicyStage
  BY DEF Init, PolicyStage, StageOf
<1> QED
  BY <1>1, StageStep, TypeCorrect, QueueCorrect, PTL DEF Spec

-----------------------------------------------------------------------------
(* Overlap is handed on, not added to.                                     *)

LEMMA OverlapStep ==
  ASSUME TypeOK, PolicyStage, Counted, Counted', Next, NEW m \in Macros,
         Cardinality(Holders(m))' > Cardinality(Holders(m)), Holders(m) # {}
  PROVE  LetInUnseen(m)
<1>1. /\ running[m] \in Nat /\ running[m] > 0
      /\ running'[m] > running[m]
  <2>1. Cardinality(Holders(m))' = running'[m]
    BY DEF Counted
  <2>2. Cardinality(Holders(m)) = running[m] /\ running[m] # 0
    BY FS_EmptySet DEF Counted
  <2> QED
    BY <2>1, <2>2 DEF TypeOK
<1>2. ASSUME NEW r \in Runs,
             \/ ApplyParallel(r) \/ ApplyRestart(r) \/ ApplyThrottle(r) \/ DebounceFire(r)
      PROVE  LetInUnseen(m)
  <2>1. PolicyOf[r].kind \notin {"Queue", "DropIfRunning"} /\ ~HasSlot(r)
    BY <1>2 DEF ApplyParallel, ApplyRestart, ApplyThrottle, DebounceFire, Applies, HasSlot,
                PolicyStage, StageOf
  <2>2. CASE TakeSlot(r, "executing") \/ TakeSlot(r, "cancelling")
    <3>1. HasSlot(r)'
      BY <2>2 DEF TakeSlot, HasSlot, TypeOK
    <3>2. MacroOf[r] = m
      BY <1>1, <2>2 DEF TakeSlot, TypeOK
    <3> QED
      BY <2>1, <3>1, <3>2 DEF LetInUnseen
  <2>3. CASE Refuse(r)
    BY <1>1, <2>3 DEF Refuse
  <2> QED
    BY <1>2, <2>2, <2>3 DEF ApplyParallel, ApplyRestart, ApplyThrottle, DebounceFire
<1>3. ASSUME NEW r \in Runs, ApplyQueue(r) \/ ApplyDropIfRunning(r)
      PROVE  FALSE
  <2>1. CASE running[MacroOf[r]] = 0 /\ TakeSlot(r, "executing")
    BY <1>1, <2>1, SchedulerAssumption DEF TakeSlot, TypeOK
  <2>2. CASE UNCHANGED running
    BY <1>1, <2>2
  <2> QED
    BY <1>3, <2>1, <2>2 DEF ApplyQueue, ApplyDropIfRunning, Refuse
<1>4. ASSUME NEW r \in Runs, SettleLast(r) \/ SettleNext(r) PROVE FALSE
  <2>1. CASE running' = [running EXCEPT ![MacroOf[r]] = SlotsLeft(MacroOf[r])]
    BY <1>1, <2>1 DEF SlotsLeft, TypeOK
  <2>2. CASE running' = [running EXCEPT ![MacroOf[r]] = SlotsRetaken(MacroOf[r])]
    BY <1>1, <2>2 DEF SlotsLeft, SlotsRetaken, TypeOK
  <2> QED
    BY <1>4, <2>1, <2>2 DEF SettleLast, SettleNext
<1>5. ASSUME NEW r \in Runs,
             \/ Schedule(r) \/ ApplyDebounce(r) \/ CancelPrevious(r) \/ StartFresh(r)
             \/ DebounceWake(r) \/ WorkflowEnds(r) \/ WorkflowTimesOut(r) \/ WorkflowPanics(r)
      PROVE  FALSE
  BY <1>1, <1>5 DEF Schedule, ApplyDebounce, CancelPrevious, StartFresh, DebounceWake,
                    WorkflowEnds, WorkflowTimesOut, WorkflowPanics
<1>6. CASE Tick \/ UNCHANGED vars
  BY <1>1, <1>6 DEF Tick, vars
<1> QED
  BY <1>2, <1>3, <1>4, <1>5, <1>6 DEF Next, TaskStep, ApplyPolicy, Quiescent

(* Queue and DropIfRunning never add to an overlap that an edited policy   *)
(* left behind: from one run with a slot to more, only a run whose policy  *)
(* does not look at `running` leads, whatever is queued, settles or panics.*)
THEOREM OverlapIsOnlyHandedOn == Spec => OverlapOnlyHandedOn
<1> DEFINE Kept == \A m \in Macros :
                     Cardinality(Holders(m))' > Cardinality(Holders(m)) =>
                       Holders(m) = {} \/ LetInUnseen(m)
<1>1. TypeOK /\ PolicyStage /\ Counted /\ Counted' /\ [Next]_vars => [Kept]_vars
  BY OverlapStep
<1> QED
  BY <1>1, TypeCorrect, CountInvariant, StageInvariant, PTL DEF Spec, OverlapOnlyHandedOn

-----------------------------------------------------------------------------
(* Serial execution.                                                       *)

Serial(m) == OnlyPolicies(m, {"Queue", "DropIfRunning"})

\* The counter alone is inductive: a slot is taken only from 0, or passed on.
OneSlot == \A m \in Macros : Serial(m) => running[m] <= 1

LEMMA OneSlotStep == TypeOK /\ PolicyStage /\ OneSlot /\ [Next]_vars => OneSlot'
<1> SUFFICES ASSUME TypeOK, PolicyStage, OneSlot, [Next]_vars, NEW m \in Macros, Serial(m)
             PROVE  running'[m] <= 1
  BY DEF OneSlot, Serial, OnlyPolicies
<1>0. running[m] \in Nat /\ running[m] <= 1
  BY DEF OneSlot, TypeOK
<1>1. ASSUME NEW r \in Runs, ApplyQueue(r) \/ ApplyDropIfRunning(r)
      PROVE  running'[m] <= 1
  <2>1. CASE running[MacroOf[r]] = 0 /\ TakeSlot(r, "executing")
    BY <1>0, <2>1, SchedulerAssumption DEF TakeSlot, TypeOK
  <2>2. CASE UNCHANGED running
    BY <1>0, <2>2
  <2> QED
    BY <1>1, <2>1, <2>2 DEF ApplyQueue, ApplyDropIfRunning, Refuse
<1>2. ASSUME NEW r \in Runs,
             \/ ApplyParallel(r) \/ ApplyRestart(r) \/ ApplyThrottle(r) \/ DebounceFire(r)
      PROVE  running'[m] <= 1
  <2>1. MacroOf[r] # m
    BY <1>2 DEF ApplyParallel, ApplyRestart, ApplyThrottle, DebounceFire, Applies, PolicyStage,
                StageOf, Serial, OnlyPolicies
  <2> QED
    BY <1>0, <1>2, <2>1
       DEF ApplyParallel, ApplyRestart, ApplyThrottle, DebounceFire, TakeSlot, Refuse, TypeOK
<1>3. ASSUME NEW r \in Runs, SettleLast(r) \/ SettleNext(r) PROVE running'[m] <= 1
  <2>1. CASE running' = [running EXCEPT ![MacroOf[r]] = SlotsLeft(MacroOf[r])]
    BY <1>0, <2>1 DEF SlotsLeft, TypeOK
  <2>2. CASE running' = [running EXCEPT ![MacroOf[r]] = SlotsRetaken(MacroOf[r])]
    BY <1>0, <2>2 DEF SlotsLeft, SlotsRetaken, TypeOK
  <2> QED
    BY <1>3, <2>1, <2>2 DEF SettleLast, SettleNext
<1>4. ASSUME NEW r \in Runs,
             \/ Schedule(r) \/ ApplyDebounce(r) \/ CancelPrevious(r) \/ StartFresh(r)
             \/ DebounceWake(r) \/ WorkflowEnds(r) \/ WorkflowTimesOut(r) \/ WorkflowPanics(r)
      PROVE  running'[m] <= 1
  BY <1>0, <1>4 DEF Schedule, ApplyDebounce, CancelPrevious, StartFresh, DebounceWake,
                    WorkflowEnds, WorkflowTimesOut, WorkflowPanics
<1>5. CASE Tick \/ UNCHANGED vars
  BY <1>0, <1>5 DEF Tick, vars
<1> QED
  BY <1>1, <1>2, <1>3, <1>4, <1>5 DEF Next, TaskStep, ApplyPolicy, Quiescent

\* A finite set of at most one element.
LEMMA AtMostOne ==
  ASSUME NEW S, IsFiniteSet(S), Cardinality(S) <= 1, NEW x \in S, NEW y \in S
  PROVE  x = y
<1>1. Cardinality(S) \in Nat /\ Cardinality(S) # 0
  BY FS_CardinalityType, FS_EmptySet
<1>2. Cardinality(S) = 1
  BY <1>1
<1> QED
  BY <1>2, FS_Singleton

(* A macro that only ever had the Queue and DropIfRunning policies never   *)
(* has two runs between taking a slot and giving it back, even when        *)
(* triggers race, queued work is handed over, or a workflow panics.        *)
THEOREM SerialCorrect == Spec => []SerialExecution
<1>1. Init => OneSlot
  BY DEF Init, OneSlot
<1>2. Counted /\ OneSlot => SerialExecution
  BY AtMostOne DEF Counted, OneSlot, SerialExecution, Serial
<1> QED
  BY <1>1, <1>2, OneSlotStep, CountInvariant, StageInvariant, TypeCorrect, PTL DEF Spec

-----------------------------------------------------------------------------
(* Nothing waits behind nobody, and no more than max wait.                 *)

QueueGuarded == \A m \in Macros : queue[m] # <<>> => running[m] > 0

LEMMA GuardStep == TypeOK /\ QueueGuarded /\ [Next]_vars => QueueGuarded'
<1> SUFFICES ASSUME TypeOK, QueueGuarded, [Next]_vars, NEW m \in Macros, queue'[m] # <<>>
             PROVE  running'[m] > 0
  BY DEF QueueGuarded
<1>0. running[m] \in Nat /\ (queue[m] # <<>> => running[m] > 0)
  BY DEF QueueGuarded, TypeOK
<1>1. ASSUME NEW r \in Runs, TakeSlot(r, "executing") \/ TakeSlot(r, "cancelling"), UNCHANGED queue
      PROVE  running'[m] > 0
  BY <1>0, <1>1 DEF TakeSlot, TypeOK
<1>2. CASE UNCHANGED <<queue, running>>
  BY <1>0, <1>2
<1>3. ASSUME NEW r \in Runs, ApplyQueue(r) PROVE running'[m] > 0
  <2>1. CASE /\ running[MacroOf[r]] > 0
             /\ queue' = [queue EXCEPT ![MacroOf[r]] = Append(@, r)]
             /\ UNCHANGED running
    BY <1>0, <2>1 DEF TypeOK
  <2> QED
    BY <1>1, <1>2, <1>3, <2>1 DEF ApplyQueue, Refuse
<1>4. ASSUME NEW r \in Runs, SettleLast(r) PROVE running'[m] > 0
  BY <1>0, <1>4 DEF SettleLast, TypeOK
<1>5. ASSUME NEW r \in Runs, SettleNext(r) PROVE running'[m] > 0
  BY <1>0, <1>5 DEF SettleNext, SlotsRetaken, SlotsLeft, TypeOK
<1>6. ASSUME NEW r \in Runs,
             \/ ApplyParallel(r) \/ ApplyDropIfRunning(r) \/ ApplyRestart(r)
             \/ ApplyThrottle(r) \/ DebounceFire(r)
      PROVE  running'[m] > 0
  BY <1>1, <1>2, <1>6
     DEF ApplyParallel, ApplyDropIfRunning, ApplyRestart, ApplyThrottle, DebounceFire, Refuse
<1>7. ASSUME NEW r \in Runs,
             \/ Schedule(r) \/ ApplyDebounce(r) \/ CancelPrevious(r) \/ StartFresh(r)
             \/ DebounceWake(r) \/ WorkflowEnds(r) \/ WorkflowTimesOut(r) \/ WorkflowPanics(r)
      PROVE  running'[m] > 0
  BY <1>2, <1>7 DEF Schedule, ApplyDebounce, CancelPrevious, StartFresh, DebounceWake,
                    WorkflowEnds, WorkflowTimesOut, WorkflowPanics
<1>8. CASE Tick \/ UNCHANGED vars
  BY <1>2, <1>8 DEF Tick, vars
<1> QED
  BY <1>3, <1>4, <1>5, <1>6, <1>7, <1>8 DEF Next, TaskStep, ApplyPolicy, Quiescent

(* Queued work has a run before it that has a slot and will settle, which  *)
(* is the only thing that pops the queue; or else a run of its macro       *)
(* panicked and kept its slot, and only then can work be stranded.         *)
THEOREM NothingStranded == Spec => []StrandedOnlyByPanic
<1>1. Init => QueueGuarded
  BY DEF Init, QueueGuarded
<1>2. Counted /\ QueueGuarded => StrandedOnlyByPanic
  <2> SUFFICES ASSUME Counted, QueueGuarded, NEW m \in Macros, queue[m] # <<>>
               PROVE  Holders(m) # {}
    BY DEF StrandedOnlyByPanic, Panicked
  <2> QED
    BY FS_EmptySet DEF Counted, QueueGuarded
<1> QED
  BY <1>1, <1>2, GuardStep, CountInvariant, TypeCorrect, PTL DEF Spec

LEMMA MaxStep == TypeOK /\ QueueWithinMax /\ [Next]_vars => QueueWithinMax'
<1> SUFFICES ASSUME TypeOK, QueueWithinMax, [Next]_vars, NEW m \in Macros, queue'[m] # <<>>
             PROVE  \E r \in Runs : /\ MacroOf[r] = m
                                    /\ PolicyOf[r].kind = "Queue"
                                    /\ Len(queue'[m]) <= PolicyOf[r].arg
  BY DEF QueueWithinMax
<1> DEFINE Goal == \E r \in Runs : /\ MacroOf[r] = m
                                   /\ PolicyOf[r].kind = "Queue"
                                   /\ Len(queue'[m]) <= PolicyOf[r].arg
<1>0. CASE queue'[m] = queue[m]
  BY <1>0 DEF QueueWithinMax
<1>1. ASSUME NEW r \in Runs, ApplyQueue(r), queue' # queue PROVE Goal
  <2>1. /\ queue' = [queue EXCEPT ![MacroOf[r]] = Append(@, r)]
        /\ QueueHasRoom(r)
        /\ PolicyOf[r].kind = "Queue"
    BY <1>1 DEF ApplyQueue, Applies
  <2>2. CASE m = MacroOf[r]
    <3>1. queue[m] \in Seq(Runs) /\ queue'[m] = Append(queue[m], r)
      BY <2>1, <2>2 DEF TypeOK
    <3>2. Len(queue'[m]) = Len(queue[m]) + 1 /\ Len(queue[m]) \in Nat
      BY <3>1
    <3>3. PolicyOf[r].arg \in Nat
      BY SchedulerAssumption DEF Policy
    <3>4. Len(queue'[m]) <= PolicyOf[r].arg
      BY <2>1, <2>2, <3>2, <3>3 DEF QueueHasRoom
    <3> QED
      BY <2>1, <2>2, <3>4
  <2>3. CASE m # MacroOf[r]
    BY <1>0, <2>1, <2>3 DEF TypeOK
  <2> QED
    BY <2>2, <2>3
<1>2. ASSUME NEW r \in Runs, SettleNext(r) PROVE Goal
  <2>1. queue' = [queue EXCEPT ![MacroOf[r]] = Tail(@)] /\ queue[MacroOf[r]] # <<>>
    BY <1>2 DEF SettleNext
  <2>2. CASE m = MacroOf[r]
    <3>1. queue[m] \in Seq(Runs) /\ queue[m] # <<>> /\ queue'[m] = Tail(queue[m])
      BY <2>1, <2>2 DEF TypeOK
    <3>2. Len(queue'[m]) = Len(queue[m]) - 1 /\ Len(queue[m]) \in Nat
      BY <3>1
    <3>3. PICK s \in Runs : /\ MacroOf[s] = m
                            /\ PolicyOf[s].kind = "Queue"
                            /\ Len(queue[m]) <= PolicyOf[s].arg
      BY <3>1 DEF QueueWithinMax
    <3>4. PolicyOf[s].arg \in Nat
      BY SchedulerAssumption DEF Policy
    <3>5. Len(queue'[m]) <= PolicyOf[s].arg
      BY <3>2, <3>3, <3>4
    <3> QED
      BY <3>3, <3>5
  <2>3. CASE m # MacroOf[r]
    BY <1>0, <2>1, <2>3 DEF TypeOK
  <2> QED
    BY <2>2, <2>3
<1>3. ASSUME NEW r \in Runs, SettleLast(r) PROVE Goal
  BY <1>0, <1>3 DEF SettleLast
<1>4. ASSUME NEW r \in Runs,
             \/ Schedule(r) \/ ApplyDebounce(r) \/ CancelPrevious(r) \/ StartFresh(r)
             \/ DebounceWake(r) \/ WorkflowEnds(r) \/ WorkflowTimesOut(r) \/ WorkflowPanics(r)
             \/ ApplyParallel(r) \/ ApplyDropIfRunning(r) \/ ApplyRestart(r)
             \/ ApplyThrottle(r) \/ DebounceFire(r)
      PROVE  Goal
  BY <1>0, <1>4 DEF Schedule, ApplyDebounce, CancelPrevious, StartFresh, DebounceWake,
                    WorkflowEnds, WorkflowTimesOut, WorkflowPanics, ApplyParallel,
                    ApplyDropIfRunning, ApplyRestart, ApplyThrottle, DebounceFire
<1>5. CASE Tick \/ UNCHANGED vars
  BY <1>0, <1>5 DEF Tick, vars
<1> QED
  BY <1>0, <1>1, <1>2, <1>3, <1>4, <1>5 DEF Next, TaskStep, ApplyPolicy, Quiescent

(* The queue of a macro never outgrows the largest max its Queue policies  *)
(* gave it.                                                                *)
THEOREM QueueBounded == Spec => []QueueWithinMax
<1>1. Init => QueueWithinMax
  BY DEF Init, QueueWithinMax
<1> QED
  BY <1>1, MaxStep, TypeCorrect, PTL DEF Spec

-----------------------------------------------------------------------------
(* RestartIfRunning.                                                       *)

RestartOnly(m) == OnlyPolicies(m, {"RestartIfRunning"})

\* What nobody is cancelling is in active_cancels, which has one token.
Tracked ==
  \A m \in Macros : RestartOnly(m) =>
    /\ Unsuperseded(m) \subseteq activeCancels[m]
    /\ \A r, s \in activeCancels[m] : r = s

LEMMA TrackedStep ==
  TypeOK /\ QueueIsTheWaitingRuns /\ PolicyStage /\ Tracked /\ [Next]_vars => Tracked'
<1> SUFFICES ASSUME TypeOK, QueueIsTheWaitingRuns, PolicyStage, Tracked, [Next]_vars,
                    NEW m \in Macros, RestartOnly(m)
             PROVE  /\ Unsuperseded(m)' \subseteq activeCancels'[m]
                    /\ \A r, s \in activeCancels'[m] : r = s
  BY DEF Tracked, RestartOnly, OnlyPolicies
<1> DEFINE Goal == /\ Unsuperseded(m)' \subseteq activeCancels'[m]
                   /\ \A r, s \in activeCancels'[m] : r = s
<1>0. /\ Unsuperseded(m) \subseteq activeCancels[m]
      /\ \A r, s \in activeCancels[m] : r = s
  BY DEF Tracked
<1>1. ASSUME NEW r \in Runs, ApplyRestart(r) PROVE Goal
  <2>1. /\ activeCancels' = [activeCancels EXCEPT ![MacroOf[r]] = {r}]
        /\ toCancel' = [toCancel EXCEPT ![r] = activeCancels[MacroOf[r]]]
        /\ pc' = [pc EXCEPT ![r] = "cancelling"]
        /\ UNCHANGED cancelled
        /\ pc[r] = "spawned"
    BY <1>1 DEF ApplyRestart, TakeSlot, Applies
  <2>2. toCancel[r] = {}
    BY <2>1 DEF PolicyStage, StageOf
  <2>3. \A s \in Runs : s # r => (HasSlot(s)' <=> HasSlot(s))
    BY <2>1 DEF HasSlot, TypeOK
  <2>4. \A u \in Runs : (u # r /\ u \in Unsuperseded(m)') => u \in Unsuperseded(m)
    <3> SUFFICES ASSUME NEW u \in Runs, u # r, u \in Unsuperseded(m)',
                        NEW s \in Runs
                 PROVE  u \in Holders(m) /\ u \notin cancelled /\ u \notin toCancel[s]
      BY DEF Unsuperseded
    <3>1. u \in Holders(m) /\ u \notin cancelled
      BY <2>1, <2>3 DEF Unsuperseded, Holders
    <3>2. u \notin toCancel'[s]
      BY DEF Unsuperseded
    <3> QED
      BY <2>1, <2>2, <3>1, <3>2 DEF TypeOK
  <2>5. CASE m = MacroOf[r]
    <3>1. activeCancels'[m] = {r} /\ toCancel'[r] = activeCancels[m]
      BY <2>1, <2>5 DEF TypeOK
    <3>2. ASSUME NEW u \in Unsuperseded(m)', u # r PROVE FALSE
      <4>1. u \in Runs /\ u \notin toCancel'[r]
        BY DEF Unsuperseded, Holders
      <4>2. u \in Unsuperseded(m)
        BY <2>4, <3>2, <4>1
      <4> QED
        BY <1>0, <3>1, <4>1, <4>2
    <3> QED
      BY <3>1, <3>2
  <2>6. CASE m # MacroOf[r]
    <3>1. activeCancels'[m] = activeCancels[m]
      BY <2>1, <2>6 DEF TypeOK
    <3>2. r \notin Unsuperseded(m)'
      BY <2>6 DEF Unsuperseded, Holders
    <3>3. Unsuperseded(m)' \subseteq Unsuperseded(m)
      BY <2>4, <3>2 DEF Unsuperseded, Holders
    <3> QED
      BY <1>0, <3>1, <3>3
  <2> QED
    BY <2>5, <2>6
<1>2. ASSUME NEW r \in Runs, CancelPrevious(r) PROVE Goal
  <2>1. PICK t \in toCancel[r] : /\ cancelled' = cancelled \union {t}
                                 /\ toCancel' = [toCancel EXCEPT ![r] = @ \ {t}]
    BY <1>2 DEF CancelPrevious
  <2>2. UNCHANGED <<pc, activeCancels>>
    BY <1>2 DEF CancelPrevious, perMacro
  <2>3. Holders(m)' = Holders(m)
    BY <2>2 DEF Holders, HasSlot
  <2>4. \A u \in Runs, s \in Runs : (u \notin cancelled' /\ u \notin toCancel'[s]) => u \notin toCancel[s]
    BY <2>1 DEF TypeOK
  <2>5. Unsuperseded(m)' \subseteq Unsuperseded(m)
    BY <2>1, <2>3, <2>4 DEF Unsuperseded, Holders
  <2> QED
    BY <1>0, <2>2, <2>5
<1>3. ASSUME NEW r \in Runs, WorkflowTimesOut(r) PROVE Goal
  <2>1. UNCHANGED <<pc, activeCancels, toCancel>> /\ cancelled \subseteq cancelled'
    BY <1>3 DEF WorkflowTimesOut, perMacro
  <2>2. Unsuperseded(m)' \subseteq Unsuperseded(m)
    BY <2>1 DEF Unsuperseded, Holders, HasSlot
  <2> QED
    BY <1>0, <2>1, <2>2
\* The other steps leave the tokens of runs alone, and give a slot only to runs
\* of macros that have another policy.
<1>4. ASSUME UNCHANGED <<cancelled, toCancel>>,
             \A u \in Runs : (MacroOf[u] = m /\ HasSlot(u)') => HasSlot(u),
             \/ activeCancels'[m] = activeCancels[m]
             \/ activeCancels'[m] = activeCancels[m] \ cancelled
      PROVE  Goal
  <2>1. Unsuperseded(m)' \subseteq Unsuperseded(m)
    BY <1>4 DEF Unsuperseded, Holders
  <2>2. \A u \in Unsuperseded(m)' : u \notin cancelled
    BY <1>4 DEF Unsuperseded
  <2> QED
    BY <1>0, <1>4, <2>1, <2>2
<1>5. ASSUME NEW r \in Runs,
             \/ ApplyParallel(r) \/ ApplyDropIfRunning(r) \/ ApplyQueue(r)
             \/ ApplyThrottle(r) \/ DebounceFire(r)
      PROVE  Goal
  <2>1. MacroOf[r] # m
    BY <1>5 DEF ApplyParallel, ApplyDropIfRunning, ApplyQueue, ApplyThrottle, DebounceFire,
                Applies, PolicyStage, StageOf, RestartOnly, OnlyPolicies
  <2>2. \A u \in Runs : u # r => pc'[u] = pc[u]
    BY <1>5 DEF ApplyParallel, ApplyDropIfRunning, ApplyQueue, ApplyThrottle, DebounceFire,
                TakeSlot, Refuse, TypeOK
  <2>3. UNCHANGED <<activeCancels, cancelled, toCancel>>
    BY <1>5 DEF ApplyParallel, ApplyDropIfRunning, ApplyQueue, ApplyThrottle, DebounceFire,
                perMacro, tokens
  <2> QED
    BY <1>4, <2>1, <2>2, <2>3 DEF HasSlot
<1>6. ASSUME NEW r \in Runs,
             \/ Schedule(r) \/ ApplyDebounce(r) \/ StartFresh(r) \/ DebounceWake(r)
             \/ WorkflowEnds(r) \/ WorkflowPanics(r)
      PROVE  Goal
  <2>1. \A u \in Runs : HasSlot(u)' => HasSlot(u)
    BY <1>6 DEF Schedule, ApplyDebounce, StartFresh, DebounceWake, WorkflowEnds,
                WorkflowPanics, Move, HasSlot, TypeOK
  <2>2. UNCHANGED <<activeCancels, cancelled, toCancel>>
    BY <1>6 DEF Schedule, ApplyDebounce, StartFresh, DebounceWake, WorkflowEnds,
                WorkflowPanics, perMacro, tokens
  <2> QED
    BY <1>4, <2>1, <2>2
<1>7. ASSUME NEW r \in Runs, SettleLast(r) PROVE Goal
  <2>1. \A u \in Runs : HasSlot(u)' => HasSlot(u)
    BY <1>7 DEF SettleLast, Move, HasSlot, TypeOK
  <2>2. /\ activeCancels' = [activeCancels EXCEPT ![MacroOf[r]] = activeCancels[MacroOf[r]] \ cancelled]
        /\ UNCHANGED <<cancelled, toCancel>>
    BY <1>7 DEF SettleLast, TokensLeft, tokens
  <2> QED
    BY <1>4, <2>1, <2>2 DEF TypeOK
<1>8. ASSUME NEW r \in Runs, SettleNext(r) PROVE Goal
  <2>1. PICK q \in Runs : q = NextInLine(MacroOf[r]) /\ MacroOf[q] = MacroOf[r] /\ pc[q] = "queued"
    BY <1>8, NextIsWaiting
  <2>2. MacroOf[q] # m
    BY <2>1 DEF PolicyStage, StageOf, RestartOnly, OnlyPolicies
  <2>3. pc' = [pc EXCEPT ![r] = "done", ![q] = "executing"]
    BY <1>8, <2>1 DEF SettleNext
  <2>4. \A u \in Runs : (MacroOf[u] = m /\ HasSlot(u)') => HasSlot(u)
    <3>1. \A u \in Runs : u # r /\ u # q => pc'[u] = pc[u]
      BY <2>3 DEF TypeOK
    <3> QED
      BY <2>1, <2>2, <3>1 DEF HasSlot
  <2>5. /\ activeCancels' = [activeCancels EXCEPT ![MacroOf[r]] = activeCancels[MacroOf[r]] \ cancelled]
        /\ UNCHANGED <<cancelled, toCancel>>
    BY <1>8 DEF SettleNext, TokensLeft, tokens
  <2> QED
    BY <1>4, <2>4, <2>5 DEF TypeOK
<1>9. CASE Tick \/ UNCHANGED vars
  <2>1. UNCHANGED <<pc, activeCancels, cancelled, toCancel>>
    BY <1>9 DEF Tick, vars, perMacro, tokens
  <2> QED
    BY <1>4, <2>1 DEF HasSlot
<1> QED
  BY <1>1, <1>2, <1>3, <1>5, <1>6, <1>7, <1>8, <1>9 DEF Next, TaskStep, ApplyPolicy, Quiescent

(* A macro with the RestartIfRunning policy: of the runs that have a slot  *)
(* at most one is not cancelled and not about to be.                       *)
THEOREM RestartCorrect == Spec => []RestartKeepsOne
<1>1. Init => Tracked
  BY DEF Init, Tracked, Unsuperseded, Holders, HasSlot
<1>2. TypeOK /\ Tracked => RestartKeepsOne
  BY DEF Tracked, RestartKeepsOne, RestartOnly
<1> QED
  BY <1>1, <1>2, TrackedStep, StageInvariant, TypeCorrect, QueueCorrect, PTL DEF Spec

-----------------------------------------------------------------------------
(* Throttle.                                                               *)

\* last_fire is the newest start of a throttled run, and there is one as soon as
\* one run has started.
FireIsNewest(m) ==
  /\ \A r \in Throttled(m) : startedAt[r] # {} => lastFire[m] # {}
  /\ \A r \in Throttled(m) : \A t \in startedAt[r], l \in lastFire[m] : t <= l

FireIsAStart(m) ==
  \A l \in lastFire[m] : l <= now /\ \E r \in Throttled(m) : l \in startedAt[r]

\* A throttled run has not started before its task reaches the lock.
NotBefore(m) == \A r \in Throttled(m) : pc[r] \in {"idle", "spawned"} => startedAt[r] = {}

Spaced(m) ==
  \A r, s \in Throttled(m) : r # s =>
    \A t \in startedAt[r], u \in startedAt[s] :
      t + PolicyOf[s].arg <= u \/ u + PolicyOf[r].arg <= t

ThrottleInv ==
  \A m \in Macros : FireIsNewest(m) /\ FireIsAStart(m) /\ NotBefore(m) /\ Spaced(m)

\* Only the throttle touches last_fire and the start of a throttled run.
LEMMA ThrottleKept ==
  ASSUME TypeOK, ThrottleInv, UNCHANGED lastFire, now' \in Nat, now <= now',
         \A r \in Runs : PolicyOf[r].kind = "Throttle" =>
           /\ startedAt'[r] = startedAt[r]
           /\ pc'[r] \in {"idle", "spawned"} => pc[r] \in {"idle", "spawned"}
  PROVE  ThrottleInv'
<1> SUFFICES ASSUME NEW m \in Macros
             PROVE  FireIsNewest(m)' /\ FireIsAStart(m)' /\ NotBefore(m)' /\ Spaced(m)'
  BY DEF ThrottleInv
<1>0. \A r \in Throttled(m) : /\ startedAt'[r] = startedAt[r]
                              /\ pc'[r] \in {"idle", "spawned"} => pc[r] \in {"idle", "spawned"}
  BY DEF Throttled
<1>1. FireIsNewest(m)' /\ NotBefore(m)'
  BY <1>0 DEF ThrottleInv, FireIsNewest, NotBefore, Throttled
<1>2. FireIsAStart(m)'
  <2> SUFFICES ASSUME NEW l \in lastFire[m]
               PROVE  l <= now' /\ \E r \in Throttled(m) : l \in startedAt'[r]
    BY DEF FireIsAStart, Throttled
  <2>1. l \in Nat /\ now \in Nat /\ l <= now
    BY SchedulerAssumption DEF TypeOK, ThrottleInv, FireIsAStart
  <2> QED
    BY <1>0, <2>1 DEF ThrottleInv, FireIsAStart
<1>3. Spaced(m)'
  BY <1>0 DEF ThrottleInv, Spaced, Throttled
<1> QED
  BY <1>1, <1>2, <1>3

LEMMA ThrottlePassed ==
  ASSUME TypeOK, ThrottleInv, NEW r \in Runs, Applies(r, "Throttle"), WindowOpen(r),
         lastFire' = [lastFire EXCEPT ![MacroOf[r]] = {now}],
         TakeSlot(r, "executing"), UNCHANGED now
  PROVE  ThrottleInv'
<1> SUFFICES ASSUME NEW m \in Macros
             PROVE  FireIsNewest(m)' /\ FireIsAStart(m)' /\ NotBefore(m)' /\ Spaced(m)'
  BY DEF ThrottleInv
<1> USE DEF Throttled
<1>0. /\ pc' = [pc EXCEPT ![r] = "executing"]
      /\ startedAt' = [startedAt EXCEPT ![r] = {now}]
      /\ PolicyOf[r].kind = "Throttle" /\ pc[r] = "spawned"
      /\ now \in Nat /\ MacroOf[r] \in Macros
  <2>1. now \in Nat /\ MacroOf[r] \in Macros
    BY SchedulerAssumption DEF TypeOK
  <2> QED
    BY <2>1 DEF Applies, TakeSlot
<1>1. \A s \in Runs : s # r => startedAt'[s] = startedAt[s] /\ pc'[s] = pc[s]
  BY <1>0 DEF TypeOK
<1>2. startedAt'[r] = {now} /\ pc'[r] = "executing"
  BY <1>0 DEF TypeOK
<1>3. FireIsNewest(m) /\ FireIsAStart(m) /\ NotBefore(m) /\ Spaced(m)
  BY DEF ThrottleInv
<1>4. CASE m # MacroOf[r]
  <2>1. lastFire'[m] = lastFire[m]
    BY <1>4 DEF TypeOK
  <2>2. \A s \in Throttled(m) : s # r
    BY <1>4
  <2> QED
    BY <1>1, <1>3, <2>1, <2>2 DEF FireIsNewest, FireIsAStart, NotBefore, Spaced
<1>5. CASE m = MacroOf[r]
  <2>1. lastFire'[m] = {now}
    BY <1>5, <1>0 DEF TypeOK
  <2>2. r \in Throttled(m)
    BY <1>0, <1>5
  <2>3. \A s \in Throttled(m) : \A t \in startedAt[s] : t + PolicyOf[r].arg <= now
    <3> SUFFICES ASSUME NEW s \in Throttled(m), NEW t \in startedAt[s]
                 PROVE  t + PolicyOf[r].arg <= now
      OBVIOUS
    <3>1. PICK l \in lastFire[m] : t <= l
      BY <1>3 DEF FireIsNewest
    <3>2. now >= l + PolicyOf[r].arg
      BY <1>5, <3>1 DEF WindowOpen
    <3>3. t \in Nat /\ l \in Nat /\ PolicyOf[r].arg \in Nat
      BY <1>5, SchedulerAssumption DEF TypeOK, Policy
    <3> QED
      BY <1>0, <3>1, <3>2, <3>3
  <2>4. \A s \in Throttled(m) : \A t \in startedAt[s] : t <= now
    <3> SUFFICES ASSUME NEW s \in Throttled(m), NEW t \in startedAt[s] PROVE t <= now
      OBVIOUS
    <3>1. t + PolicyOf[r].arg <= now /\ t \in Nat /\ PolicyOf[r].arg \in Nat
      BY <2>3, SchedulerAssumption DEF TypeOK, Policy
    <3> QED
      BY <1>0, <3>1
  <2>5. FireIsNewest(m)'
    BY <1>0, <1>1, <1>2, <2>1, <2>4 DEF FireIsNewest
  <2>6. FireIsAStart(m)'
    BY <1>0, <1>2, <2>1, <2>2 DEF FireIsAStart
  <2>7. NotBefore(m)'
    BY <1>1, <1>2, <1>3 DEF NotBefore
  <2>8. Spaced(m)'
    <3> SUFFICES ASSUME NEW x \in Throttled(m), NEW y \in Throttled(m), x # y,
                        NEW t \in startedAt'[x], NEW u \in startedAt'[y]
                 PROVE  t + PolicyOf[y].arg <= u \/ u + PolicyOf[x].arg <= t
      BY DEF Spaced
    <3>1. CASE x = r
      BY <1>1, <1>2, <2>3, <3>1
    <3>2. CASE y = r
      BY <1>1, <1>2, <2>3, <3>2
    <3>3. CASE x # r /\ y # r
      BY <1>1, <1>3, <3>3 DEF Spaced
    <3> QED
      BY <3>1, <3>2, <3>3
  <2> QED
    BY <2>5, <2>6, <2>7, <2>8
<1> QED
  BY <1>4, <1>5

LEMMA ThrottleStep ==
  TypeOK /\ QueueIsTheWaitingRuns /\ PolicyStage /\ ThrottleInv /\ [Next]_vars => ThrottleInv'
<1> SUFFICES ASSUME TypeOK, QueueIsTheWaitingRuns, PolicyStage, ThrottleInv, [Next]_vars
             PROVE  ThrottleInv'
  OBVIOUS
<1> DEFINE Kept == \A s \in Runs : PolicyOf[s].kind = "Throttle" =>
                     /\ startedAt'[s] = startedAt[s]
                     /\ pc'[s] \in {"idle", "spawned"} => pc[s] \in {"idle", "spawned"}
<1>0. now \in Nat
  BY SchedulerAssumption DEF TypeOK
<1>1. Kept /\ UNCHANGED <<lastFire, now>> => ThrottleInv'
  BY <1>0, ThrottleKept
<1> HIDE DEF Kept
<1>2. ASSUME NEW r \in Runs, ApplyThrottle(r) PROVE ThrottleInv'
  <2>1. CASE /\ WindowOpen(r)
             /\ lastFire' = [lastFire EXCEPT ![MacroOf[r]] = {now}]
             /\ TakeSlot(r, "executing")
    BY <1>2, <2>1, ThrottlePassed DEF ApplyThrottle
  <2>2. CASE Refuse(r) /\ UNCHANGED lastFire
    <3>1. Kept
      BY <2>2 DEF Kept, Refuse, TypeOK
    <3> QED
      BY <1>1, <1>2, <2>2, <3>1 DEF ApplyThrottle
  <2> QED
    BY <1>2, <2>1, <2>2 DEF ApplyThrottle
<1>3. ASSUME NEW r \in Runs,
             \/ ApplyParallel(r) \/ ApplyDropIfRunning(r) \/ ApplyQueue(r)
             \/ ApplyRestart(r) \/ DebounceFire(r)
      PROVE  ThrottleInv'
  <2>1. PolicyOf[r].kind # "Throttle"
    BY <1>3 DEF ApplyParallel, ApplyDropIfRunning, ApplyQueue, ApplyRestart, DebounceFire,
                Applies, PolicyStage, StageOf
  <2>2. \A s \in Runs : s # r => startedAt'[s] = startedAt[s] /\ pc'[s] = pc[s]
    BY <1>3 DEF ApplyParallel, ApplyDropIfRunning, ApplyQueue, ApplyRestart, DebounceFire,
                TakeSlot, Refuse, TypeOK
  <2>3. UNCHANGED <<lastFire, now>>
    BY <1>3 DEF ApplyParallel, ApplyDropIfRunning, ApplyQueue, ApplyRestart, DebounceFire, perMacro
  <2> QED
    BY <1>1, <2>1, <2>2, <2>3 DEF Kept
<1>4. ASSUME NEW r \in Runs,
             \/ Schedule(r) \/ ApplyDebounce(r) \/ StartFresh(r) \/ DebounceWake(r)
             \/ WorkflowEnds(r) \/ WorkflowPanics(r) \/ SettleLast(r)
      PROVE  ThrottleInv'
  <2>1. \A s \in Runs : pc'[s] \in {"idle", "spawned"} => pc[s] \in {"idle", "spawned"}
    BY <1>4 DEF Schedule, ApplyDebounce, StartFresh, DebounceWake, WorkflowEnds,
                WorkflowPanics, SettleLast, Move, TypeOK
  <2>2. UNCHANGED <<startedAt, lastFire, now>>
    BY <1>4 DEF Schedule, ApplyDebounce, StartFresh, DebounceWake, WorkflowEnds,
                WorkflowPanics, SettleLast, perMacro
  <2> QED
    BY <1>1, <2>1, <2>2 DEF Kept
<1>5. ASSUME NEW r \in Runs, CancelPrevious(r) \/ WorkflowTimesOut(r) PROVE ThrottleInv'
  BY <1>1, <1>5 DEF Kept, CancelPrevious, WorkflowTimesOut, perMacro
<1>6. ASSUME NEW r \in Runs, SettleNext(r) PROVE ThrottleInv'
  <2>1. PICK q \in Runs : q = NextInLine(MacroOf[r]) /\ pc[q] = "queued"
    BY <1>6, NextIsWaiting
  <2>2. PolicyOf[q].kind # "Throttle"
    BY <2>1 DEF PolicyStage, StageOf
  <2>3. /\ pc' = [pc EXCEPT ![r] = "done", ![q] = "executing"]
        /\ startedAt' = [startedAt EXCEPT ![q] = {now}]
    BY <1>6, <2>1 DEF SettleNext
  <2>4. \A s \in Runs : s # q => startedAt'[s] = startedAt[s]
    BY <2>3 DEF TypeOK
  <2>5. \A s \in Runs : pc'[s] \in {"idle", "spawned"} => pc[s] \in {"idle", "spawned"}
    BY <2>3 DEF TypeOK
  <2>6. UNCHANGED <<lastFire, now>>
    BY <1>6 DEF SettleNext
  <2> QED
    BY <1>1, <2>2, <2>4, <2>5, <2>6 DEF Kept
<1>7. CASE Tick
  <2>1. UNCHANGED <<pc, startedAt, lastFire>> /\ now' = now + 1
    BY <1>7 DEF Tick, perMacro
  <2> QED
    BY <1>0, <2>1, ThrottleKept
<1>8. CASE UNCHANGED vars
  BY <1>1, <1>8 DEF Kept, vars, perMacro
<1> QED
  BY <1>2, <1>3, <1>4, <1>5, <1>6, <1>7, <1>8 DEF Next, TaskStep, ApplyPolicy, Quiescent

LEMMA ThrottleInvariant == Spec => []ThrottleInv
<1>1. Init => ThrottleInv
  BY DEF Init, ThrottleInv, FireIsNewest, FireIsAStart, NotBefore, Spaced, Throttled
<1> QED
  BY <1>1, ThrottleStep, StageInvariant, TypeCorrect, QueueCorrect, PTL DEF Spec

(* Two runs that both passed the throttle of a macro are at least the      *)
(* window of the later one apart, whatever else the macro runs meanwhile.  *)
THEOREM ThrottleCorrect == Spec => []ThrottleSpacing
<1>1. ThrottleInv => ThrottleSpacing
  BY DEF ThrottleInv, Spaced, ThrottleSpacing
<1> QED
  BY <1>1, ThrottleInvariant, PTL

\* What waits is counted by the queue.
LEMMA WaitingCounted ==
  ASSUME TypeOK, QueueIsTheWaitingRuns, NEW m \in Macros
  PROVE  Cardinality(Waiting(m)) = Len(queue[m])
<1> DEFINE q == queue[m]
<1>1. q \in Seq(Runs) /\ Len(q) \in Nat
  BY DEF TypeOK
<1>2. \A i \in 1..Len(q) : q[i] \in Waiting(m)
  BY <1>1, ElementOfSeq DEF QueueIsTheWaitingRuns, Waiting
<1>3. \A r \in Waiting(m) : \E i \in 1..Len(q) : q[i] = r
  BY DEF QueueIsTheWaitingRuns, Waiting
<1>4. \A i, j \in 1..Len(q) : q[i] = q[j] => i = j
  BY DEF QueueIsTheWaitingRuns
<1>5. [i \in 1..Len(q) |-> q[i]] \in Bijection(1..Len(q), Waiting(m))
  BY <1>2, <1>3, <1>4, Fun_IsBij
<1>6. ExistsBijection(1..Len(q), Waiting(m))
  BY <1>5 DEF ExistsBijection
<1> QED
  BY <1>1, <1>6, FS_CountingElements

(* No trigger is refused without cause: when a task drops its work, a run  *)
(* of the macro has a slot and, under Queue, max runs wait for it, or a    *)
(* run started inside the throttle window.                                 *)
THEOREM RefusalCorrect == Spec => RefusedOnlyWhenBusy
<1>1. TypeOK /\ QueueIsTheWaitingRuns /\ Counted /\ ThrottleInv /\ [Next]_vars =>
        [\A r \in Runs : RefusalJustified(r)]_vars
  <2> SUFFICES ASSUME TypeOK, QueueIsTheWaitingRuns, Counted, ThrottleInv, Next, NEW r \in Runs,
                      pc[r] = "spawned", pc'[r] = "dropped"
               PROVE  RefusalJustified(r)
    BY DEF RefusalJustified
  <2>1. \/ ApplyDropIfRunning(r) \/ ApplyQueue(r) \/ ApplyThrottle(r)
    <3>1. ASSUME NEW s \in Runs,
                 \/ Schedule(s) \/ ApplyDebounce(s) \/ StartFresh(s) \/ WorkflowEnds(s)
                 \/ WorkflowPanics(s) \/ SettleLast(s) \/ DebounceWake(s)
          PROVE  FALSE
      BY <3>1 DEF Schedule, ApplyDebounce, StartFresh, WorkflowEnds, WorkflowPanics,
                  SettleLast, DebounceWake, Move, TypeOK
    <3>2. ASSUME NEW s \in Runs, ApplyParallel(s) \/ ApplyRestart(s) \/ DebounceFire(s)
          PROVE  FALSE
      BY <3>2 DEF ApplyParallel, ApplyRestart, DebounceFire, TakeSlot, TypeOK
    <3>3. ASSUME NEW s \in Runs, CancelPrevious(s) \/ WorkflowTimesOut(s) PROVE FALSE
      BY <3>3 DEF CancelPrevious, WorkflowTimesOut
    <3>4. ASSUME NEW s \in Runs, SettleNext(s) PROVE FALSE
      <4>1. pc' = [pc EXCEPT ![s] = "done", ![NextInLine(MacroOf[s])] = "executing"]
        BY <3>4 DEF SettleNext
      <4> QED
        BY <4>1 DEF TypeOK
    <3>5. ASSUME Tick \/ Quiescent PROVE FALSE
      BY <3>5 DEF Tick, Quiescent, vars
    <3>6. ASSUME NEW s \in Runs, ApplyDropIfRunning(s) \/ ApplyQueue(s) \/ ApplyThrottle(s)
          PROVE  s = r
      <4>1. \A u \in Runs : u # s => pc'[u] = pc[u]
        BY <3>6 DEF ApplyDropIfRunning, ApplyQueue, ApplyThrottle, TakeSlot, Refuse, TypeOK
      <4> QED
        BY <4>1
    <3> QED
      BY <3>1, <3>2, <3>3, <3>4, <3>5, <3>6 DEF Next, TaskStep, ApplyPolicy
  <2>2. MacroOf[r] \in Macros /\ PolicyOf[r].arg \in Nat
    BY SchedulerAssumption DEF Policy
  <2>3. CASE ApplyDropIfRunning(r)
    <3>1. running[MacroOf[r]] > 0 /\ PolicyOf[r].kind = "DropIfRunning"
      BY <2>3 DEF ApplyDropIfRunning, Applies, TakeSlot, TypeOK
    <3> QED
      BY <2>2, <3>1, FS_EmptySet DEF Counted, RefusalJustified
  <2>5. CASE ApplyQueue(r)
    <3>1. running[MacroOf[r]] > 0 /\ PolicyOf[r].kind = "Queue" /\ ~QueueHasRoom(r)
      BY <2>5 DEF ApplyQueue, Applies, TakeSlot, TypeOK
    <3>2. Holders(MacroOf[r]) # {}
      BY <2>2, <3>1, FS_EmptySet DEF Counted
    <3>3. Cardinality(Waiting(MacroOf[r])) = Len(queue[MacroOf[r]]) /\ Len(queue[MacroOf[r]]) \in Nat
      BY <2>2, WaitingCounted DEF TypeOK
    <3>4. Cardinality(Waiting(MacroOf[r])) >= PolicyOf[r].arg
      BY <2>2, <3>1, <3>3 DEF QueueHasRoom
    <3> QED
      BY <3>1, <3>2, <3>4 DEF RefusalJustified
  <2>4. CASE ApplyThrottle(r)
    <3>1. PolicyOf[r].kind = "Throttle" /\ ~WindowOpen(r)
      BY <2>4 DEF ApplyThrottle, Applies, TakeSlot, TypeOK
    <3>2. PICK l \in lastFire[MacroOf[r]] : ~(now >= l + PolicyOf[r].arg)
      BY <3>1 DEF WindowOpen
    <3>3. l \in Nat /\ now \in Nat
      BY <2>2, SchedulerAssumption DEF TypeOK
    <3>4. now - l < PolicyOf[r].arg
      BY <2>2, <3>2, <3>3
    <3>5. \E s \in Throttled(MacroOf[r]) : l \in startedAt[s]
      BY <2>2 DEF ThrottleInv, FireIsAStart
    <3> QED
      BY <3>1, <3>4, <3>5 DEF RefusalJustified
  <2> QED
    BY <2>1, <2>3, <2>4, <2>5
<1> QED
  BY <1>1, TypeCorrect, QueueCorrect, CountInvariant, ThrottleInvariant, PTL
     DEF Spec, RefusedOnlyWhenBusy

-----------------------------------------------------------------------------
(* No burst of a debounced macro is lost.  The argument: a timer that is   *)
(* set back is set back by a newer one that ends no earlier, and an armed  *)
(* timer that ends starts its run at once, at a time not before its end.   *)

Delayed == {"sleeping", "woken", "superseded"}
NotYet  == {"idle", "spawned"}

\* What tokens, timers and starts look like.
TimersInOrder ==
  /\ \A r \in Runs : pc[r] \in Delayed => PolicyOf[r].kind = "Debounce"
  /\ \A r \in Runs : pc[r] \in {"sleeping", "woken"} => wakeAt[r] <= now + PolicyOf[r].arg
  /\ \A r \in Runs : pc[r] = "woken" => wakeAt[r] <= now
  /\ \A m \in Macros : \A t \in debounceCancel[m] : MacroOf[t] = m /\ pc[t] \notin NotYet
  /\ \A t \in disarmed : pc[t] \notin NotYet
  /\ \A r \in Runs : \A t \in startedAt[r] : t <= now

LEMMA Numbers ==
  ASSUME TypeOK, NEW r \in Runs
  PROVE  /\ wakeAt[r] \in Nat /\ now \in Nat /\ startedAt[r] \subseteq Nat
         /\ PolicyOf[r].arg \in Nat /\ MacroOf[r] \in Macros
BY SchedulerAssumption DEF TypeOK, Policy

-----------------------------------------------------------------------------
\* A step that arms and disarms nothing.
LEMMA TimersKept ==
  ASSUME TypeOK, TimersInOrder, now' \in Nat, now <= now', UNCHANGED wakeAt,
         \A m \in Macros : debounceCancel'[m] \subseteq debounceCancel[m],
         UNCHANGED disarmed,
         \A s \in Runs :
           /\ pc'[s] = pc[s] \/ pc'[s] \notin Delayed
              \/ (pc[s] = "sleeping" /\ wakeAt[s] <= now /\ pc'[s] \in {"woken", "superseded"})
           /\ pc'[s] \in NotYet => pc[s] \in NotYet
           /\ startedAt'[s] = startedAt[s] \/ startedAt'[s] = {now'}
  PROVE  TimersInOrder'
<1>0. debounceCancel \in [Macros -> SUBSET Runs] /\ disarmed \subseteq Runs
  BY DEF TypeOK
<1>1. \A r \in Runs : pc'[r] \in Delayed => pc[r] \in Delayed
  BY DEF Delayed
<1>2. \A r \in Runs : pc'[r] \in {"sleeping", "woken"} => wakeAt'[r] <= now' + PolicyOf[r].arg
  <2> SUFFICES ASSUME NEW r \in Runs, pc'[r] \in {"sleeping", "woken"}
               PROVE  wakeAt[r] <= now' + PolicyOf[r].arg
    OBVIOUS
  <2>1. pc[r] \in {"sleeping", "woken"}
    BY DEF Delayed
  <2> QED
    BY <2>1, Numbers DEF TimersInOrder
<1>3. \A r \in Runs : pc'[r] = "woken" => wakeAt'[r] <= now'
  <2> SUFFICES ASSUME NEW r \in Runs, pc'[r] = "woken" PROVE wakeAt[r] <= now'
    OBVIOUS
  <2>1. wakeAt[r] <= now
    BY DEF TimersInOrder, Delayed
  <2> QED
    BY <2>1, Numbers
<1>4. \A m \in Macros : \A t \in debounceCancel'[m] : MacroOf[t] = m /\ pc'[t] \notin NotYet
  BY <1>0 DEF TimersInOrder
<1>5. \A t \in disarmed' : pc'[t] \notin NotYet
  BY <1>0 DEF TimersInOrder
<1>6. \A r \in Runs : \A t \in startedAt'[r] : t <= now'
  <2> SUFFICES ASSUME NEW r \in Runs, NEW t \in startedAt'[r] PROVE t <= now'
    OBVIOUS
  <2>1. CASE startedAt'[r] = startedAt[r]
    <3>1. t <= now /\ t \in Nat /\ now \in Nat
      BY <2>1, Numbers DEF TimersInOrder
    <3> QED
      BY <3>1
  <2>2. CASE startedAt'[r] = {now'}
    BY <2>2
  <2> QED
    BY <2>1, <2>2
<1> QED
  BY <1>1, <1>2, <1>3, <1>4, <1>5, <1>6 DEF TimersInOrder

\* The same step keeps every burst covered, if an armed timer stays armed or starts
\* its run.
LEMMA CoverKept ==
  ASSUME TypeOK, TimersInOrder, BurstCovered, now' \in Nat, now <= now', UNCHANGED wakeAt,
         \A s \in Runs :
           /\ pc'[s] \in Delayed => pc[s] \in Delayed
           /\ Armed(s) => Armed(s)' \/ (startedAt'[s] = {now'} /\ wakeAt[s] <= now')
           /\ startedAt'[s] = startedAt[s] \/ startedAt'[s] = {now'}
  PROVE  BurstCovered'
<1> SUFFICES ASSUME NEW m \in Macros, NEW r \in Debounced(m), pc'[r] \in Delayed,
                    \A s \in Debounced(m) : PolicyOf[s].arg = PolicyOf[r].arg
             PROVE  \E s \in Debounced(m) :
                      \/ Armed(s)' /\ wakeAt[s] >= wakeAt[r]
                      \/ \E t \in startedAt'[s] : t >= wakeAt[r]
  BY DEF BurstCovered, Debounced, Delayed
<1>1. r \in Runs /\ pc[r] \in Delayed
  BY DEF Debounced
<1>2. PICK s \in Debounced(m) :
        (Armed(s) /\ wakeAt[s] >= wakeAt[r]) \/ \E t \in startedAt[s] : t >= wakeAt[r]
  BY <1>1 DEF BurstCovered, Delayed
<1>3. s \in Runs /\ wakeAt[s] \in Nat /\ wakeAt[r] \in Nat /\ now \in Nat
  BY <1>1, Numbers DEF Debounced
<1>4. CASE Armed(s) /\ wakeAt[s] >= wakeAt[r]
  <2>1. CASE Armed(s)'
    BY <1>4, <2>1
  <2>2. CASE startedAt'[s] = {now'} /\ wakeAt[s] <= now'
    <3>1. now' >= wakeAt[r]
      BY <1>3, <1>4, <2>2
    <3> QED
      BY <2>2, <3>1
  <2> QED
    BY <1>3, <1>4, <2>1, <2>2
<1>5. ASSUME NEW t \in startedAt[s], t >= wakeAt[r]
      PROVE  \E u \in startedAt'[s] : u >= wakeAt[r]
  <2>1. CASE startedAt'[s] = startedAt[s]
    BY <1>5, <2>1
  <2>2. CASE startedAt'[s] = {now'}
    <3>1. t <= now /\ t \in Nat
      BY <1>3, Numbers DEF TimersInOrder
    <3>2. now' >= wakeAt[r]
      BY <1>3, <1>5, <3>1
    <3> QED
      BY <2>2, <3>2
  <2> QED
    BY <1>3, <2>1, <2>2
<1> QED
  BY <1>2, <1>4, <1>5

-----------------------------------------------------------------------------
\* A step in which no task enters or leaves its delay.
LEMMA OutsideTheDelay ==
  ASSUME TypeOK, TimersInOrder, BurstCovered, now' \in Nat, now <= now', UNCHANGED wakeAt,
         \A m \in Macros : debounceCancel'[m] = debounceCancel[m],
         UNCHANGED disarmed,
         \A s \in Runs :
           /\ pc'[s] = pc[s] \/ (pc[s] \notin Delayed /\ pc'[s] \notin Delayed)
           /\ pc'[s] \in NotYet => pc[s] \in NotYet
           /\ startedAt'[s] = startedAt[s] \/ startedAt'[s] = {now'}
  PROVE  TimersInOrder' /\ BurstCovered'
<1>0. /\ \A m \in Macros : debounceCancel'[m] \subseteq debounceCancel[m]
      /\ \A s \in Runs : pc'[s] = pc[s] \/ pc'[s] \notin Delayed
  OBVIOUS
<1>1. TimersInOrder'
  BY <1>0, TimersKept
<1>2. \A s \in Runs : Armed(s) => Armed(s)'
  BY DEF Armed, Delayed
<1>3. BurstCovered'
  BY <1>2, CoverKept DEF Armed, Delayed
<1> QED
  BY <1>1, <1>3

\* A task arms the timer of its macro and sets back the one before.
LEMMA ArmedAnew ==
  ASSUME TypeOK, TimersInOrder, BurstCovered, NEW r \in Runs, ApplyDebounce(r)
  PROVE  TimersInOrder' /\ BurstCovered'
<1> DEFINE n == MacroOf[r]
<1>0. /\ pc[r] = "spawned" /\ PolicyOf[r].kind = "Debounce" /\ n \in Macros
      /\ now \in Nat /\ PolicyOf[r].arg \in Nat
  BY Numbers DEF ApplyDebounce, Applies
<1>1. /\ pc'[r] = "sleeping" /\ wakeAt'[r] = now + PolicyOf[r].arg
      /\ \A s \in Runs : s # r => pc'[s] = pc[s] /\ wakeAt'[s] = wakeAt[s]
  BY DEF ApplyDebounce, Move, TypeOK
<1>2. /\ debounceCancel'[n] = {r}
      /\ \A m \in Macros : m # n => debounceCancel'[m] = debounceCancel[m]
  BY <1>0 DEF ApplyDebounce, TypeOK
<1>3. disarmed' = disarmed \union debounceCancel[n] /\ now' = now /\ startedAt' = startedAt
  BY DEF ApplyDebounce
<1>4. \A t \in debounceCancel[n] : t \in Runs /\ MacroOf[t] = n /\ pc[t] \notin NotYet
  BY <1>0 DEF TimersInOrder, TypeOK
<1>5. r \notin disarmed'
  BY <1>0, <1>3, <1>4 DEF TimersInOrder, NotYet
<1>6. TimersInOrder'
  <2>1. \A s \in Runs : pc'[s] \in Delayed => PolicyOf[s].kind = "Debounce"
    BY <1>0, <1>1 DEF TimersInOrder
  <2>2. \A s \in Runs : pc'[s] \in {"sleeping", "woken"} => wakeAt'[s] <= now' + PolicyOf[s].arg
    <3> SUFFICES ASSUME NEW s \in Runs, pc'[s] \in {"sleeping", "woken"}
                 PROVE  wakeAt'[s] <= now' + PolicyOf[s].arg
      OBVIOUS
    <3>1. CASE s = r
      BY <1>0, <1>1, <1>3, <3>1
    <3>2. CASE s # r
      BY <1>1, <1>3, <3>2 DEF TimersInOrder
    <3> QED
      BY <3>1, <3>2
  <2>3. \A s \in Runs : pc'[s] = "woken" => wakeAt'[s] <= now'
    BY <1>1, <1>3 DEF TimersInOrder
  <2>4. \A m \in Macros : \A t \in debounceCancel'[m] : MacroOf[t] = m /\ pc'[t] \notin NotYet
    <3> SUFFICES ASSUME NEW m \in Macros, NEW t \in debounceCancel'[m]
                 PROVE  MacroOf[t] = m /\ pc'[t] \notin NotYet
      OBVIOUS
    <3>1. CASE m = n
      BY <1>1, <1>2, <3>1 DEF NotYet
    <3>2. CASE m # n
      <4>1. t \in Runs /\ MacroOf[t] = m /\ pc[t] \notin NotYet
        BY <1>2, <3>2 DEF TimersInOrder, TypeOK
      <4> QED
        BY <1>1, <4>1 DEF NotYet
    <3> QED
      BY <3>1, <3>2
  <2>5. \A t \in disarmed' : pc'[t] \notin NotYet
    <3> SUFFICES ASSUME NEW t \in disarmed' PROVE pc'[t] \notin NotYet
      OBVIOUS
    <3>1. t \in Runs /\ pc[t] \notin NotYet
      BY <1>3, <1>4 DEF TimersInOrder, TypeOK
    <3> QED
      BY <1>1, <3>1 DEF NotYet
  <2>6. \A s \in Runs : \A t \in startedAt'[s] : t <= now'
    BY <1>3 DEF TimersInOrder
  <2> QED
    BY <2>1, <2>2, <2>3, <2>4, <2>5, <2>6 DEF TimersInOrder
<1>7. BurstCovered'
  <2> SUFFICES ASSUME NEW m \in Macros, NEW x \in Debounced(m), pc'[x] \in Delayed,
                      \A s \in Debounced(m) : PolicyOf[s].arg = PolicyOf[x].arg
               PROVE  \E s \in Debounced(m) :
                        \/ Armed(s)' /\ wakeAt'[s] >= wakeAt'[x]
                        \/ \E t \in startedAt'[s] : t >= wakeAt'[x]
    BY DEF BurstCovered, Debounced, Delayed
  <2>0. \A s \in Debounced(m) : s \in Runs /\ MacroOf[s] = m
    BY DEF Debounced
  <2>1. CASE x = r
    <3>1. Armed(r)'
      BY <1>1, <1>5 DEF Armed
    <3>2. wakeAt'[r] >= wakeAt'[x]
      BY <1>0, <1>1, <2>1
    <3> QED
      BY <2>1, <3>1, <3>2
  <2>2. CASE x # r
    <3>1. x \in Runs /\ pc[x] \in Delayed /\ wakeAt'[x] = wakeAt[x]
      BY <1>1, <2>0, <2>2
    <3>2. PICK s \in Debounced(m) :
            (Armed(s) /\ wakeAt[s] >= wakeAt[x]) \/ \E t \in startedAt[s] : t >= wakeAt[x]
      BY <3>1 DEF BurstCovered, Delayed
    <3>3. CASE \E t \in startedAt[s] : t >= wakeAt[x]
      BY <1>3, <3>1, <3>3
    <3>4. CASE Armed(s) /\ wakeAt[s] >= wakeAt[x] /\ m # n
      <4>1. s \in Runs /\ s # r /\ s \notin debounceCancel[n]
        BY <1>4, <2>0, <3>4
      <4>2. Armed(s)' /\ wakeAt'[s] = wakeAt[s]
        BY <1>1, <1>3, <3>4, <4>1 DEF Armed
      <4> QED
        BY <3>1, <3>4, <4>2
    <3>5. CASE Armed(s) /\ wakeAt[s] >= wakeAt[x] /\ m = n
      <4>1. r \in Debounced(m) /\ Armed(r)'
        BY <1>0, <1>1, <1>5, <3>5 DEF Debounced, Armed
      <4>2. wakeAt[s] <= now + PolicyOf[s].arg /\ PolicyOf[s].arg = PolicyOf[r].arg
        BY <2>0, <3>5, <4>1 DEF Armed, TimersInOrder
      <4>3. wakeAt[s] \in Nat /\ wakeAt[x] \in Nat
        BY <2>0, <3>1, Numbers
      <4>4. wakeAt'[r] >= wakeAt'[x]
        BY <1>0, <1>1, <3>1, <3>5, <4>2, <4>3
      <4> QED
        BY <4>1, <4>4
    <3> QED
      BY <3>2, <3>3, <3>4, <3>5
  <2> QED
    BY <2>1, <2>2
<1> QED
  BY <1>6, <1>7

LEMMA DelayStep ==
  TypeOK /\ QueueIsTheWaitingRuns /\ PolicyStage /\ TimersInOrder /\ BurstCovered /\ [Next]_vars
    => TimersInOrder' /\ BurstCovered'
<1> SUFFICES ASSUME TypeOK, QueueIsTheWaitingRuns, PolicyStage, TimersInOrder, BurstCovered,
                    [Next]_vars
             PROVE  TimersInOrder' /\ BurstCovered'
  OBVIOUS
<1> DEFINE Outside(s) ==
             /\ pc'[s] = pc[s] \/ (pc[s] \notin Delayed /\ pc'[s] \notin Delayed)
             /\ pc'[s] \in NotYet => pc[s] \in NotYet
             /\ startedAt'[s] = startedAt[s] \/ startedAt'[s] = {now'}
<1>0. now \in Nat
  BY SchedulerAssumption DEF TypeOK
<1>1. ASSUME \A s \in Runs : Outside(s), UNCHANGED <<wakeAt, debounceCancel, disarmed, now>>
      PROVE  TimersInOrder' /\ BurstCovered'
  BY <1>0, <1>1, OutsideTheDelay
<1> HIDE DEF Outside
<1>2. ASSUME NEW r \in Runs,
             \/ ApplyParallel(r) \/ ApplyDropIfRunning(r) \/ ApplyQueue(r)
             \/ ApplyRestart(r) \/ ApplyThrottle(r)
      PROVE  TimersInOrder' /\ BurstCovered'
  <2>1. pc[r] = "spawned" /\ \A s \in Runs : s # r => pc'[s] = pc[s] /\ startedAt'[s] = startedAt[s]
    BY <1>2 DEF ApplyParallel, ApplyDropIfRunning, ApplyQueue, ApplyRestart, ApplyThrottle,
                Applies, TakeSlot, Refuse, TypeOK
  <2>2. /\ pc'[r] \in {"executing", "cancelling", "queued", "dropped"}
        /\ startedAt'[r] = startedAt[r] \/ startedAt'[r] = {now}
    BY <1>2 DEF ApplyParallel, ApplyDropIfRunning, ApplyQueue, ApplyRestart, ApplyThrottle,
                TakeSlot, Refuse, TypeOK
  <2>3. UNCHANGED <<wakeAt, debounceCancel, disarmed, now>>
    BY <1>2 DEF ApplyParallel, ApplyDropIfRunning, ApplyQueue, ApplyRestart, ApplyThrottle,
                perMacro, tokens
  <2>4. \A s \in Runs : Outside(s)
    BY <2>1, <2>2, <2>3 DEF Outside, Delayed, NotYet
  <2> QED
    BY <1>1, <2>3, <2>4
<1>3. ASSUME NEW r \in Runs,
             \/ Schedule(r) \/ StartFresh(r) \/ WorkflowEnds(r) \/ WorkflowPanics(r)
             \/ SettleLast(r)
      PROVE  TimersInOrder' /\ BurstCovered'
  <2>1. /\ pc[r] \in {"idle", "cancelling", "executing", "ended"}
        /\ pc'[r] \in {"spawned", "executing", "ended", "panicked", "done"}
        /\ pc'[r] = "spawned" => pc[r] = "idle"
        /\ \A s \in Runs : s # r => pc'[s] = pc[s]
    BY <1>3 DEF Schedule, StartFresh, WorkflowEnds, WorkflowPanics, SettleLast, Move, TypeOK
  <2>2. UNCHANGED <<wakeAt, debounceCancel, disarmed, now, startedAt>>
    BY <1>3 DEF Schedule, StartFresh, WorkflowEnds, WorkflowPanics, SettleLast, perMacro, tokens
  <2>3. \A s \in Runs : Outside(s)
    BY <2>1, <2>2 DEF Outside, Delayed, NotYet
  <2> QED
    BY <1>1, <2>2, <2>3
<1>4. ASSUME NEW r \in Runs, CancelPrevious(r) \/ WorkflowTimesOut(r)
      PROVE  TimersInOrder' /\ BurstCovered'
  <2>1. UNCHANGED <<wakeAt, debounceCancel, disarmed, now, startedAt, pc>>
    BY <1>4 DEF CancelPrevious, WorkflowTimesOut, perMacro
  <2> QED
    BY <1>1, <2>1 DEF Outside
<1>5. ASSUME NEW r \in Runs, SettleNext(r) PROVE TimersInOrder' /\ BurstCovered'
  <2>1. PICK q \in Runs : q = NextInLine(MacroOf[r]) /\ pc[q] = "queued"
    BY <1>5, NextIsWaiting
  <2>2. /\ pc' = [pc EXCEPT ![r] = "done", ![q] = "executing"] /\ pc[r] = "ended"
        /\ startedAt' = [startedAt EXCEPT ![q] = {now}]
    BY <1>5, <2>1 DEF SettleNext
  <2>3. UNCHANGED <<wakeAt, debounceCancel, disarmed, now>>
    BY <1>5 DEF SettleNext, tokens
  <2>4. \A s \in Runs : Outside(s)
    BY <2>1, <2>2, <2>3 DEF Outside, Delayed, NotYet, TypeOK
  <2> QED
    BY <1>1, <2>3, <2>4
<1>6. ASSUME NEW r \in Runs, DebounceWake(r) PROVE TimersInOrder' /\ BurstCovered'
  <2>1. /\ pc[r] = "sleeping" /\ wakeAt[r] <= now
        /\ pc'[r] = IF r \in disarmed THEN "superseded" ELSE "woken"
        /\ \A s \in Runs : s # r => pc'[s] = pc[s]
    BY <1>6, <1>0, Numbers DEF DebounceWake, Move, TypeOK
  <2>2. UNCHANGED <<wakeAt, debounceCancel, disarmed, now, startedAt>>
    BY <1>6 DEF DebounceWake, perMacro, tokens
  <2>3. TimersInOrder'
    BY <1>0, <2>1, <2>2, TimersKept DEF Delayed, NotYet
  <2>4. \A s \in Runs : Armed(s) => Armed(s)'
    BY <2>1, <2>2 DEF Armed
  <2>5. \A s \in Runs : pc'[s] \in Delayed => pc[s] \in Delayed
    BY <2>1 DEF Delayed
  <2> QED
    BY <1>0, <2>2, <2>3, <2>4, <2>5, CoverKept DEF Armed
<1>7. ASSUME NEW r \in Runs, DebounceFire(r) PROVE TimersInOrder' /\ BurstCovered'
  <2>1. /\ pc[r] = "woken" /\ pc'[r] = "executing" /\ startedAt'[r] = {now}
        /\ \A s \in Runs : s # r => pc'[s] = pc[s] /\ startedAt'[s] = startedAt[s]
    BY <1>7 DEF DebounceFire, TakeSlot, TypeOK
  <2>2. UNCHANGED <<wakeAt, disarmed, now>>
    BY <1>7 DEF DebounceFire, tokens
  <2>3. \A m \in Macros : debounceCancel'[m] \subseteq debounceCancel[m]
    BY <1>7 DEF DebounceFire, TypeOK
  <2>4. wakeAt[r] <= now
    BY <2>1 DEF TimersInOrder
  <2>5. \A s \in Runs : /\ pc'[s] = pc[s] \/ pc'[s] \notin Delayed
                        /\ pc'[s] \in NotYet => pc[s] \in NotYet
                        /\ pc'[s] \in Delayed => pc[s] \in Delayed
                        /\ startedAt'[s] = startedAt[s] \/ startedAt'[s] = {now'}
    BY <2>1, <2>2 DEF Delayed, NotYet
  <2>6. TimersInOrder'
    BY <1>0, <2>2, <2>3, <2>5, TimersKept
  <2>7. \A s \in Runs : Armed(s) => Armed(s)' \/ (startedAt'[s] = {now'} /\ wakeAt[s] <= now')
    BY <2>1, <2>2, <2>4 DEF Armed
  <2> QED
    BY <1>0, <2>2, <2>5, <2>6, <2>7, CoverKept DEF Armed
<1>8. ASSUME NEW r \in Runs, ApplyDebounce(r) PROVE TimersInOrder' /\ BurstCovered'
  BY <1>8, ArmedAnew
<1>9. CASE Tick
  <2>1. UNCHANGED <<pc, startedAt, wakeAt, debounceCancel, disarmed>> /\ now' = now + 1
    BY <1>9 DEF Tick, perMacro, tokens
  <2> QED
    BY <1>0, <2>1, OutsideTheDelay
<1>10. CASE UNCHANGED vars
  <2>1. UNCHANGED <<wakeAt, debounceCancel, disarmed, now, startedAt, pc>>
    BY <1>10 DEF vars, perMacro, tokens
  <2> QED
    BY <1>1, <2>1 DEF Outside
<1> QED
  BY <1>2, <1>3, <1>4, <1>5, <1>6, <1>7, <1>8, <1>9, <1>10
     DEF Next, TaskStep, ApplyPolicy, Quiescent

(* Debounce never swallows a burst: whenever a trigger has been put off, a *)
(* timer that ends no earlier is armed or a run of the macro has started   *)
(* since, for every macro whose debounced runs share one delay.            *)
THEOREM BurstNeverLost == Spec => []BurstCovered
<1>1. Init => TimersInOrder /\ BurstCovered
  BY DEF Init, TimersInOrder, BurstCovered, Debounced, Delayed
<1>2. Spec => [](TimersInOrder /\ BurstCovered)
  BY <1>1, DelayStep, TypeCorrect, QueueCorrect, StageInvariant, PTL DEF Spec
<1> QED
  BY <1>2, PTL

-----------------------------------------------------------------------------
(* A macro whose policy is Queue implements SerialQueue, for any number of   *)
(* runs and any rooms, and whatever policies the other macros have.  Only    *)
(* here QueueMacroAssumption is used: there is a macro all whose triggers    *)
(* have that policy.  The liveness half of SerialQueue, WF of Finish, is     *)
(* left to TLC.                                                              *)

\* What the refinement needs of a state of the scheduler.
Usable == TypeOK /\ QueueIsTheWaitingRuns /\ Counted /\ PolicyStage /\ SerialExecution

LEMMA UsableInvariant == Spec => []Usable
BY TypeCorrect, QueueCorrect, CountInvariant, StageInvariant, SerialCorrect, PTL DEF Usable

LEMMA QueueRunPolicy ==
  ASSUME NEW r \in QueueRuns
  PROVE  r \in Runs /\ MacroOf[r] = QueueMacro /\ PolicyOf[r].kind = "Queue"
BY QueueMacroAssumption DEF QueueRuns

\* The item being served is the only run with the slot.
LEMMA OneServed ==
  ASSUME Usable, NEW r \in QueueRuns, HasSlot(r)
  PROVE  Holders(QueueMacro) = {r}
<1>1. OnlyPolicies(QueueMacro, {"Queue", "DropIfRunning"})
  BY QueueMacroAssumption DEF OnlyPolicies
<1>2. r \in Holders(QueueMacro)
  BY QueueRunPolicy DEF Holders
<1>3. \A s \in Holders(QueueMacro) : s = r
  BY <1>1, <1>2, QueueMacroAssumption DEF Usable, SerialExecution
<1> QED
  BY <1>2, <1>3

LEMMA ServingCounted ==
  ASSUME Usable
  PROVE  /\ running[QueueMacro] = 0 => Holders(QueueMacro) = {}
         /\ running[QueueMacro] > 0 => Holders(QueueMacro) # {}
<1>1. IsFiniteSet(Holders(QueueMacro)) /\ running[QueueMacro] = Cardinality(Holders(QueueMacro))
  BY QueueMacroAssumption DEF Usable, Counted
<1> QED
  BY <1>1, FS_EmptySet

\* Nothing that SerialQueue speaks of changes.
Aside == /\ queue'[QueueMacro] = queue[QueueMacro]
         /\ \A r \in QueueRuns : /\ HasSlot(r)' <=> HasSlot(r)
                                 /\ pc'[r] = "done" <=> pc[r] = "done"
                                 /\ pc'[r] = "dropped" <=> pc[r] = "dropped"

LEMMA Stutters ==
  ASSUME Aside
  PROVE  UNCHANGED Served!svars
<1>1. Holders(QueueMacro)' = Holders(QueueMacro)
  BY DEF Aside, Holders, QueueRuns
<1>2. {r \in QueueRuns : pc[r] = "done"}' = {r \in QueueRuns : pc[r] = "done"}
  BY DEF Aside, QueueRuns
<1>3. {r \in QueueRuns : pc[r] = "dropped"}' = {r \in QueueRuns : pc[r] = "dropped"}
  BY DEF Aside, QueueRuns
<1> QED
  BY <1>1, <1>2, <1>3 DEF Aside, Served!svars

LEMMA ArriveStep ==
  ASSUME Usable, NEW r \in Runs, MacroOf[r] = QueueMacro, ApplyQueue(r)
  PROVE  Served!Arrive(r)
<1>1. r \in QueueRuns /\ QueueMacro \in Macros
  BY QueueMacroAssumption DEF QueueRuns
<1>2. /\ pc \in [Runs -> Location] /\ running[QueueMacro] \in Nat
      /\ queue \in [Macros -> Seq(Runs)] /\ pc[r] = "spawned"
  BY <1>1 DEF Usable, TypeOK, ApplyQueue, Applies
<1>3. r \notin Served!Arrived
  <2>1. \A k \in DOMAIN queue[QueueMacro] : queue[QueueMacro][k] # r
    <3>1. DOMAIN queue[QueueMacro] = 1..Len(queue[QueueMacro])
      BY <1>1, <1>2
    <3> QED
      BY <1>1, <1>2, <3>1 DEF Usable, QueueIsTheWaitingRuns
  <2>2. r \notin Holders(QueueMacro)
    BY <1>2 DEF Holders, HasSlot
  <2> QED
    BY <1>2, <2>1, <2>2 DEF Served!Arrived
<1>4. ASSUME NEW to \in {"executing", "queued", "dropped"}, pc' = [pc EXCEPT ![r] = to]
      PROVE  /\ Holders(QueueMacro)' = IF to = "executing" THEN Holders(QueueMacro) \union {r}
                                                           ELSE Holders(QueueMacro)
             /\ {s \in QueueRuns : pc'[s] = "done"} = {s \in QueueRuns : pc[s] = "done"}
             /\ {s \in QueueRuns : pc'[s] = "dropped"} =
                  IF to = "dropped" THEN {s \in QueueRuns : pc[s] = "dropped"} \union {r}
                                    ELSE {s \in QueueRuns : pc[s] = "dropped"}
  <2>1. \A s \in Runs : s # r => pc'[s] = pc[s]
    BY <1>2, <1>4
  <2>2. pc'[r] = to /\ pc[r] = "spawned"
    BY <1>2, <1>4
  <2>3. CASE to = "executing"
    BY <1>1, <2>1, <2>2, <2>3 DEF Holders, HasSlot, QueueRuns
  <2>4. CASE to = "queued"
    BY <1>1, <2>1, <2>2, <2>4 DEF Holders, HasSlot, QueueRuns
  <2>5. CASE to = "dropped"
    BY <1>1, <2>1, <2>2, <2>5 DEF Holders, HasSlot, QueueRuns
  <2> QED
    BY <2>3, <2>4, <2>5
<1>5. QueueRuns' = QueueRuns
  BY DEF QueueRuns
<1>6. CASE running[QueueMacro] = 0 /\ TakeSlot(r, "executing") /\ UNCHANGED queue
  <2>1. pc' = [pc EXCEPT ![r] = "executing"]
    BY <1>6 DEF TakeSlot
  <2>2. Holders(QueueMacro) = {} /\ Holders(QueueMacro)' = {r}
    BY <1>4, <1>6, <2>1, ServingCounted
  <2> QED
    BY <1>1, <1>3, <1>4, <1>5, <1>6, <2>1, <2>2 DEF Served!Arrive
<1>7. CASE /\ running[QueueMacro] > 0 /\ QueueHasRoom(r)
           /\ queue' = [queue EXCEPT ![QueueMacro] = Append(@, r)]
           /\ pc' = [pc EXCEPT ![r] = "queued"]
  <2>1. Holders(QueueMacro) # {} /\ Holders(QueueMacro)' = Holders(QueueMacro)
    BY <1>4, <1>7, ServingCounted
  <2>2. queue'[QueueMacro] = Append(queue[QueueMacro], r)
    BY <1>1, <1>2, <1>7
  <2>3. Len(queue[QueueMacro]) < [s \in QueueRuns |-> PolicyOf[s].arg][r]
    BY <1>1, <1>7 DEF QueueHasRoom
  <2> QED
    BY <1>3, <1>4, <1>5, <1>7, <2>1, <2>2, <2>3 DEF Served!Arrive
<1>8. CASE running[QueueMacro] > 0 /\ ~QueueHasRoom(r) /\ Refuse(r) /\ UNCHANGED queue
  <2>1. pc' = [pc EXCEPT ![r] = "dropped"]
    BY <1>8 DEF Refuse
  <2>2. Holders(QueueMacro) # {} /\ Holders(QueueMacro)' = Holders(QueueMacro)
    BY <1>4, <1>8, <2>1, ServingCounted
  <2>3. Len(queue[QueueMacro]) >= [s \in QueueRuns |-> PolicyOf[s].arg][r]
    <3>1. PolicyOf[r].arg \in Nat /\ Len(queue[QueueMacro]) \in Nat
      BY <1>1, <1>2, SchedulerAssumption DEF Policy
    <3> QED
      BY <1>1, <1>8, <3>1 DEF QueueHasRoom
  <2> QED
    BY <1>3, <1>4, <1>5, <1>8, <2>1, <2>2, <2>3 DEF Served!Arrive
<1> QED
  BY <1>6, <1>7, <1>8 DEF ApplyQueue

\* The run at work settles.
LEMMA FinishStep ==
  ASSUME Usable, NEW r \in Runs, MacroOf[r] = QueueMacro, SettleLast(r) \/ SettleNext(r)
  PROVE  Served!Finish
<1>1. r \in QueueRuns /\ QueueMacro \in Macros
  BY QueueMacroAssumption DEF QueueRuns
<1>2. /\ pc \in [Runs -> Location] /\ queue \in [Macros -> Seq(Runs)] /\ pc[r] = "ended"
  BY DEF Usable, TypeOK, SettleLast, SettleNext, Move
<1>3. Holders(QueueMacro) = {r}
  BY <1>1, <1>2, OneServed DEF HasSlot
<1>4. \A s \in Runs : MacroOf[s] = QueueMacro /\ s # r => ~HasSlot(s)
  BY <1>3 DEF Holders
<1>5. CASE SettleLast(r)
  <2>1. /\ queue[QueueMacro] = <<>> /\ queue' = queue
        /\ pc' = [pc EXCEPT ![r] = "done"]
    BY <1>5 DEF SettleLast, Move
  <2>2. pc'[r] = "done" /\ \A s \in Runs : s # r => pc'[s] = pc[s]
    BY <1>2, <2>1
  <2>3. Holders(QueueMacro)' = {}
    BY <1>4, <2>2 DEF Holders, HasSlot
  <2>4. {s \in QueueRuns : pc'[s] = "done"} = {s \in QueueRuns : pc[s] = "done"} \union {r}
    BY <1>1, <1>2, <2>2 DEF QueueRuns
  <2>5. {s \in QueueRuns : pc'[s] = "dropped"} = {s \in QueueRuns : pc[s] = "dropped"}
    BY <1>1, <1>2, <2>2 DEF QueueRuns
  <2> QED
    BY <1>3, <2>1, <2>3, <2>4, <2>5 DEF Served!Finish, QueueRuns
<1>6. CASE SettleNext(r)
  <2>1. PICK q \in Runs : /\ q = NextInLine(QueueMacro) /\ MacroOf[q] = QueueMacro
                          /\ pc[q] = "queued"
    BY <1>6, NextIsWaiting DEF Usable
  <2>2. /\ queue[QueueMacro] # <<>> /\ queue' = [queue EXCEPT ![QueueMacro] = Tail(@)]
        /\ pc' = [pc EXCEPT ![r] = "done", ![q] = "executing"]
    BY <1>6, <2>1 DEF SettleNext
  <2>3. q # r
    BY <1>2, <2>1
  <2>4. /\ pc'[r] = "done" /\ pc'[q] = "executing"
        /\ \A s \in Runs : s # r /\ s # q => pc'[s] = pc[s]
    BY <1>2, <2>2, <2>3
  <2>5. Holders(QueueMacro)' = {q}
    BY <1>4, <2>1, <2>3, <2>4 DEF Holders, HasSlot
  <2>6. q = Head(queue[QueueMacro]) /\ queue'[QueueMacro] = Tail(queue[QueueMacro])
    BY <1>1, <1>2, <2>1, <2>2 DEF NextInLine
  <2>7. {s \in QueueRuns : pc'[s] = "done"} = {s \in QueueRuns : pc[s] = "done"} \union {r}
    BY <1>1, <1>2, <2>1, <2>4 DEF QueueRuns
  <2>8. {s \in QueueRuns : pc'[s] = "dropped"} = {s \in QueueRuns : pc[s] = "dropped"}
    BY <1>1, <1>2, <2>1, <2>4 DEF QueueRuns
  <2> QED
    BY <1>3, <2>2, <2>5, <2>6, <2>7, <2>8 DEF Served!Finish, QueueRuns
<1> QED
  BY <1>5, <1>6

\* A step that moves one run between two places on the same side of every boundary that
\* SerialQueue draws, or a run of another macro.
LEMMA MovesAside ==
  ASSUME Usable, NEW r \in Runs, NEW to \in Location, pc' = [pc EXCEPT ![r] = to],
         queue'[QueueMacro] = queue[QueueMacro],
         \/ r \notin QueueRuns
         \/ /\ pc[r] \in {"cancelling", "executing", "ended", "panicked"} <=>
                 to \in {"cancelling", "executing", "ended", "panicked"}
            /\ pc[r] = "done" <=> to = "done"
            /\ pc[r] = "dropped" <=> to = "dropped"
  PROVE  Aside
<1>1. pc \in [Runs -> Location]
  BY DEF Usable, TypeOK
<1>2. pc'[r] = to /\ \A s \in Runs : s # r => pc'[s] = pc[s]
  BY <1>1
<1> QED
  BY <1>1, <1>2 DEF Aside, HasSlot, QueueRuns

LEMMA StepServes ==
  ASSUME Usable, [Next]_vars
  PROVE  Served!Next \/ UNCHANGED Served!svars
<1>1. /\ pc \in [Runs -> Location] /\ queue \in [Macros -> Seq(Runs)]
      /\ MacroOf \in [Runs -> Macros] /\ QueueMacro \in Macros
  BY SchedulerAssumption, QueueMacroAssumption DEF Usable, TypeOK
<1>2. ASSUME UNCHANGED <<pc, queue>> PROVE Aside
  BY <1>2 DEF Aside, HasSlot
<1>3. ASSUME NEW r \in Runs, Schedule(r) PROVE Aside
  BY <1>1, <1>3, MovesAside DEF Schedule, Move, Location
<1>4. ASSUME NEW r \in Runs, ApplyQueue(r), MacroOf[r] = QueueMacro PROVE Served!Next
  <2>1. r \in QueueRuns
    BY <1>4 DEF QueueRuns
  <2> QED
    BY <1>4, <2>1, ArriveStep DEF Served!Next
<1>5. ASSUME NEW r \in Runs, ApplyQueue(r), MacroOf[r] # QueueMacro PROVE Aside
  <2>1. r \notin QueueRuns
    BY <1>5 DEF QueueRuns
  <2>2. queue'[QueueMacro] = queue[QueueMacro]
    BY <1>1, <1>5 DEF ApplyQueue
  <2>3. \E to \in Location : pc' = [pc EXCEPT ![r] = to]
    BY <1>5 DEF ApplyQueue, TakeSlot, Refuse, Location
  <2> QED
    BY <2>1, <2>2, <2>3, MovesAside
\* A policy that no run of the macro has.
<1>6. ASSUME NEW r \in Runs,
             ApplyParallel(r) \/ ApplyDropIfRunning(r) \/ ApplyRestart(r) \/ ApplyDebounce(r)
               \/ ApplyThrottle(r) \/ DebounceWake(r) \/ DebounceFire(r)
      PROVE  Aside
  <2>1. PolicyOf[r].kind # "Queue"
    <3>1. CASE ApplyParallel(r) \/ ApplyDropIfRunning(r) \/ ApplyRestart(r) \/ ApplyDebounce(r)
                 \/ ApplyThrottle(r)
      BY <3>1 DEF ApplyParallel, ApplyDropIfRunning, ApplyRestart, ApplyDebounce, ApplyThrottle, Applies
    <3>2. CASE DebounceWake(r) \/ DebounceFire(r)
      <4>1. pc[r] \in {"sleeping", "woken"}
        BY <3>2 DEF DebounceWake, DebounceFire, Move
      <4> QED
        BY <4>1 DEF Usable, PolicyStage, StageOf
    <3> QED
      BY <1>6, <3>1, <3>2
  <2>2. r \notin QueueRuns
    BY <2>1, QueueRunPolicy
  <2>3. queue' = queue
    BY <1>6 DEF ApplyParallel, ApplyDropIfRunning, ApplyRestart, ApplyDebounce, ApplyThrottle,
                DebounceWake, DebounceFire
  <2>4. \E to \in Location : pc' = [pc EXCEPT ![r] = to]
    BY <1>6 DEF ApplyParallel, ApplyDropIfRunning, ApplyRestart, ApplyDebounce, ApplyThrottle,
                DebounceWake, DebounceFire, TakeSlot, Refuse, Move, Location
  <2> QED
    BY <2>2, <2>3, <2>4, MovesAside
<1>7. ASSUME NEW r \in Runs, StartFresh(r) \/ WorkflowEnds(r) \/ WorkflowPanics(r) PROVE Aside
  <2>1. /\ queue' = queue /\ pc[r] \in {"cancelling", "executing"}
        /\ \E to \in {"executing", "ended", "panicked"} : pc' = [pc EXCEPT ![r] = to]
    BY <1>7 DEF StartFresh, WorkflowEnds, WorkflowPanics, Move
  <2> QED
    BY <2>1, MovesAside DEF Location
<1>8. ASSUME NEW r \in Runs, SettleLast(r) \/ SettleNext(r), MacroOf[r] = QueueMacro
      PROVE  Served!Next
  BY <1>8, FinishStep DEF Served!Next
<1>9. ASSUME NEW r \in Runs, SettleLast(r), MacroOf[r] # QueueMacro PROVE Aside
  <2>1. /\ r \notin QueueRuns /\ queue' = queue /\ "done" \in Location
        /\ pc' = [pc EXCEPT ![r] = "done"]
    BY <1>9 DEF SettleLast, Move, QueueRuns, Location
  <2> QED
    BY <2>1, MovesAside
<1>10. ASSUME NEW r \in Runs, SettleNext(r), MacroOf[r] # QueueMacro PROVE Aside
  <2>1. PICK q \in Runs : /\ q = NextInLine(MacroOf[r]) /\ MacroOf[q] = MacroOf[r]
    BY <1>10, NextIsWaiting DEF Usable
  <2>2. /\ pc' = [pc EXCEPT ![r] = "done", ![q] = "executing"]
        /\ queue' = [queue EXCEPT ![MacroOf[r]] = Tail(@)]
    BY <1>10, <2>1 DEF SettleNext
  <2>3. queue'[QueueMacro] = queue[QueueMacro]
    BY <1>1, <1>10, <2>2
  <2>4. \A s \in QueueRuns : pc'[s] = pc[s]
    BY <1>1, <1>10, <2>1, <2>2 DEF QueueRuns
  <2> QED
    BY <2>3, <2>4 DEF Aside, HasSlot
<1>11. ASSUME NEW r \in Runs, CancelPrevious(r) \/ WorkflowTimesOut(r) PROVE Aside
  BY <1>2, <1>11 DEF CancelPrevious, WorkflowTimesOut
<1>12. Tick \/ Quiescent \/ UNCHANGED vars => Aside
  BY <1>2 DEF Tick, Quiescent, vars
<1>13. Served!Next \/ Aside
  BY <1>3, <1>4, <1>5, <1>6, <1>7, <1>8, <1>9, <1>10, <1>11, <1>12 DEF Next, TaskStep, ApplyPolicy
<1> QED
  BY <1>13, Stutters

(* Every behaviour of the scheduler is, seen from a macro with the Queue    *)
(* policy, one of SerialQueue: its triggers are served one at a time in the *)
(* order in which their tasks took the lock, one is refused only when the   *)
(* room is full, and nothing that other macros do, no cancellation, timeout *)
(* or panic makes two of them run at once or changes their order (the safety *)
(* half of ImplementsSerialQueue).                                          *)
THEOREM QueueServes == Spec => Served!Init /\ [][Served!Next]_(Served!svars)
<1>1. Init => Served!Init
  <2> SUFFICES ASSUME Init PROVE Served!Init
    OBVIOUS
  <2>1. \A r \in Runs : pc[r] = "idle"
    BY DEF Init
  <2>2. Holders(QueueMacro) = {} /\ queue[QueueMacro] = <<>>
    BY <2>1, QueueMacroAssumption DEF Init, Holders, HasSlot
  <2> QED
    BY <2>1, <2>2 DEF Served!Init, QueueRuns
<1>2. Usable /\ [Next]_vars => [Served!Next]_(Served!svars)
  BY StepServes
<1> QED
  BY <1>1, <1>2, UsableInvariant, PTL DEF Spec

=============================================================================
