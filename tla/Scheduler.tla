------------------------------ MODULE Scheduler ------------------------------
(***************************************************************************)
(* The workflow scheduler (crates/core/src/scheduler.rs): what happens to  *)
(* one call of WorkflowScheduler::schedule, from the Tokio task it spawns, *)
(* through the concurrency policy of its macro, to the release of the slot *)
(* the workflow occupied.                                                  *)
(*                                                                         *)
(* SchedulerInner.states is a Tokio mutex; no critical section awaits, so  *)
(* each one is a single action here, and everything a task does between    *)
(* two critical sections is interleaved with the other tasks.              *)
(*                                                                         *)
(* An Option is a set with at most one element.  A token is named by the   *)
(* run that made it.                                                       *)
(***************************************************************************)
EXTENDS Naturals, Sequences, FiniteSets

CONSTANTS
  Runs,      (* calls of schedule(): a context, a workflow and a task each   *)
  Macros,
  MacroOf,   (* the macro each run belongs to                                *)
  PolicyOf,  (* the policy its task captured: a macro whose policy is edited *)
             (* has runs with different policies                             *)
  MayPanic,  (* the runs whose workflow may panic                            *)
  MayTimeOut,  (* the runs whose workflow has a Timeout node                 *)
  MaxTime    (* bound: the clock stops here                                  *)

PolicyKind == {"Parallel", "Queue", "DropIfRunning", "RestartIfRunning",
               "Debounce", "Throttle"}

\* arg is max for Queue, ms for Debounce and Throttle, and unused otherwise.
Policy == [kind : PolicyKind, arg : Nat]

ASSUME SchedulerAssumption ==
  /\ MacroOf \in [Runs -> Macros]
  /\ PolicyOf \in [Runs -> Policy]
  /\ MayPanic \subseteq Runs /\ MayTimeOut \subseteq Runs
  /\ MaxTime \in Nat

VARIABLES
  pc,              (* where the task, or the queued work item, of a run is  *)
  running,         (* MacroState.running                                    *)
  queue,           (* MacroState.queue                                      *)
  activeCancels,   (* MacroState.active_cancels                             *)
  lastFire,        (* MacroState.last_fire                                  *)
  debounceCancel,  (* MacroState.debounce_cancel                            *)
  toCancel,        (* the local to_cancel of a RestartIfRunning task        *)
  cancelled,       (* runs whose ctx.cancel is set                          *)
  disarmed,        (* runs whose debounce token is set                      *)
  wakeAt,          (* when the sleep of a Debounce task is over             *)
  startedAt,       (* history: when a run took its slot                     *)
  now

perMacro == <<activeCancels, lastFire, debounceCancel>>
tokens   == <<toCancel, cancelled, disarmed, wakeAt>>
vars     == <<pc, running, queue, startedAt, now, perMacro, tokens>>

Location == {"idle", "spawned", "sleeping", "woken", "queued", "cancelling",
             "executing", "ended", "done", "dropped", "superseded", "panicked"}

TypeOK ==
  /\ pc \in [Runs -> Location]
  /\ running \in [Macros -> Nat]
  /\ queue \in [Macros -> Seq(Runs)]
  /\ activeCancels \in [Macros -> SUBSET Runs]
  /\ lastFire \in [Macros -> SUBSET Nat]
  /\ debounceCancel \in [Macros -> SUBSET Runs]
  /\ toCancel \in [Runs -> SUBSET Runs]
  /\ cancelled \in SUBSET Runs
  /\ disarmed \in SUBSET Runs
  /\ wakeAt \in [Runs -> Nat]
  /\ startedAt \in [Runs -> SUBSET Nat]
  /\ now \in 0..MaxTime

Init ==
  /\ pc = [r \in Runs |-> "idle"]
  /\ running = [m \in Macros |-> 0]
  /\ queue = [m \in Macros |-> <<>>]
  /\ activeCancels = [m \in Macros |-> {}]
  /\ lastFire = [m \in Macros |-> {}]
  /\ debounceCancel = [m \in Macros |-> {}]
  /\ toCancel = [r \in Runs |-> {}]
  /\ cancelled = {}
  /\ disarmed = {}
  /\ wakeAt = [r \in Runs |-> 0]
  /\ startedAt = [r \in Runs |-> {}]
  /\ now = 0

-----------------------------------------------------------------------------
(* Steps shared by the policies.                                           *)

Move(r, from, to) ==
  /\ pc[r] = from
  /\ pc' = [pc EXCEPT ![r] = to]

Applies(r, kind) == pc[r] = "spawned" /\ PolicyOf[r].kind = kind

\* `running += 1` under the lock, then on to `to`.
TakeSlot(r, to) ==
  /\ pc' = [pc EXCEPT ![r] = to]
  /\ running' = [running EXCEPT ![MacroOf[r]] = @ + 1]
  /\ startedAt' = [startedAt EXCEPT ![r] = {now}]

Refuse(r) ==
  /\ pc' = [pc EXCEPT ![r] = "dropped"]
  /\ UNCHANGED <<running, startedAt>>

-----------------------------------------------------------------------------
(* schedule(): the router hands over a run.  The task is spawned and       *)
(* forgotten, so tasks reach the lock in any order.                        *)
Schedule(r) ==
  /\ Move(r, "idle", "spawned")
  /\ UNCHANGED <<running, queue, startedAt, now, perMacro, tokens>>

ApplyParallel(r) ==
  /\ Applies(r, "Parallel")
  /\ TakeSlot(r, "executing")
  /\ UNCHANGED <<queue, now, perMacro, tokens>>

ApplyDropIfRunning(r) ==
  /\ Applies(r, "DropIfRunning")
  /\ \/ running[MacroOf[r]] = 0 /\ TakeSlot(r, "executing")
     \/ running[MacroOf[r]] > 0 /\ Refuse(r)
  /\ UNCHANGED <<queue, now, perMacro, tokens>>

\* Mutant: one item too many is let in.
QueueHasRoomInclusive(r) == Len(queue[MacroOf[r]]) <= PolicyOf[r].arg

\* Mutant: the place of the run that holds the slot is counted too.
QueueHasRoomLess(r) == Len(queue[MacroOf[r]]) + 1 < PolicyOf[r].arg

QueueHasRoom(r) == Len(queue[MacroOf[r]]) < PolicyOf[r].arg

ApplyQueue(r) ==
  LET m == MacroOf[r] IN
  /\ Applies(r, "Queue")
  /\ \/ /\ running[m] = 0
        /\ TakeSlot(r, "executing")
        /\ UNCHANGED queue
     \/ /\ running[m] > 0
        /\ QueueHasRoom(r)
        /\ queue' = [queue EXCEPT ![m] = Append(@, r)]
        /\ pc' = [pc EXCEPT ![r] = "queued"]
        /\ UNCHANGED <<running, startedAt>>
     \/ /\ running[m] > 0
        /\ ~QueueHasRoom(r)
        /\ Refuse(r)
        /\ UNCHANGED queue
  /\ UNCHANGED <<now, perMacro, tokens>>

\* Under the lock: drain active_cancels, take a slot, leave the own token.
ApplyRestart(r) ==
  LET m == MacroOf[r] IN
  /\ Applies(r, "RestartIfRunning")
  /\ TakeSlot(r, "cancelling")
  /\ toCancel' = [toCancel EXCEPT ![r] = activeCancels[m]]
  /\ activeCancels' = [activeCancels EXCEPT ![m] = {r}]
  /\ UNCHANGED <<queue, now, lastFire, debounceCancel, cancelled, disarmed, wakeAt>>

\* The drained tokens are set after the unlock, one at a time.
CancelPrevious(r) ==
  /\ pc[r] = "cancelling"
  /\ \E t \in toCancel[r] :
       /\ cancelled' = cancelled \union {t}
       /\ toCancel' = [toCancel EXCEPT ![r] = @ \ {t}]
  /\ UNCHANGED <<pc, running, queue, startedAt, now, perMacro, disarmed, wakeAt>>

StartFresh(r) ==
  /\ toCancel[r] = {}
  /\ Move(r, "cancelling", "executing")
  /\ UNCHANGED <<running, queue, startedAt, now, perMacro, tokens>>

\* Under the lock: set the previous token, leave a new one; then sleep.
ApplyDebounce(r) ==
  LET m == MacroOf[r] IN
  /\ Applies(r, "Debounce")
  /\ Move(r, "spawned", "sleeping")
  /\ disarmed' = disarmed \union debounceCancel[m]
  /\ debounceCancel' = [debounceCancel EXCEPT ![m] = {r}]
  /\ wakeAt' = [wakeAt EXCEPT ![r] = now + PolicyOf[r].arg]
  /\ UNCHANGED <<running, queue, startedAt, now, activeCancels, lastFire,
                 toCancel, cancelled>>

\* The sleep is over: is_cancelled() is read outside the lock.
DebounceWake(r) ==
  /\ now >= wakeAt[r]
  /\ Move(r, "sleeping", IF r \in disarmed THEN "superseded" ELSE "woken")
  /\ UNCHANGED <<running, queue, startedAt, now, perMacro, tokens>>

\* Mutant: whatever token is found in debounce_cancel is set, not only dropped.
DebounceFireCancels(r) ==
  /\ pc[r] = "woken"
  /\ TakeSlot(r, "executing")
  /\ disarmed' = disarmed \union debounceCancel[MacroOf[r]]
  /\ debounceCancel' = [debounceCancel EXCEPT ![MacroOf[r]] = {}]
  /\ UNCHANGED <<queue, now, activeCancels, lastFire, toCancel, cancelled, wakeAt>>

\* The second critical section does not look at the token again.
DebounceFire(r) ==
  /\ pc[r] = "woken"
  /\ TakeSlot(r, "executing")
  /\ debounceCancel' = [debounceCancel EXCEPT ![MacroOf[r]] = {}]
  /\ UNCHANGED <<queue, now, activeCancels, lastFire, tokens>>

\* Mutant: the window closes one unit early.
WindowOpenEarly(r) == \A t \in lastFire[MacroOf[r]] : now + 1 >= t + PolicyOf[r].arg

\* Mutant: the window stays closed at the very end of it.
WindowOpenLate(r) == \A t \in lastFire[MacroOf[r]] : now > t + PolicyOf[r].arg

WindowOpen(r) == \A t \in lastFire[MacroOf[r]] : now >= t + PolicyOf[r].arg

ApplyThrottle(r) ==
  /\ Applies(r, "Throttle")
  /\ \/ /\ WindowOpen(r)
        /\ lastFire' = [lastFire EXCEPT ![MacroOf[r]] = {now}]
        /\ TakeSlot(r, "executing")
     \/ /\ ~WindowOpen(r)
        /\ Refuse(r)
        /\ UNCHANGED lastFire
  /\ UNCHANGED <<queue, now, activeCancels, debounceCancel, tokens>>

-----------------------------------------------------------------------------
(* execute(): the loop around run_workflow.                                *)

\* A Timeout node that elapses sets the token of its own run.
WorkflowTimesOut(r) ==
  /\ r \in MayTimeOut /\ pc[r] = "executing"
  /\ cancelled' = cancelled \union {r}
  /\ UNCHANGED <<pc, running, queue, startedAt, now, perMacro, toCancel, disarmed, wakeAt>>

\* run_workflow returns; its events are sent before the lock is taken.
WorkflowEnds(r) ==
  /\ Move(r, "executing", "ended")
  /\ UNCHANGED <<running, queue, startedAt, now, perMacro, tokens>>

\* The Tokio task unwinds and nothing after run_workflow is executed (dev and test
\* builds; the release profile aborts the whole process instead).
WorkflowPanics(r) ==
  /\ r \in MayPanic
  /\ Move(r, "executing", "panicked")
  /\ UNCHANGED <<running, queue, startedAt, now, perMacro, tokens>>

\* Mutant: the slot is only given back when the queue has work for it.
SlotsLeftLeaky(m) == IF queue[m] = <<>> THEN running[m] ELSE running[m] - 1

\* running.saturating_sub(1)
SlotsLeft(m) == IF running[m] > 0 THEN running[m] - 1 ELSE 0

\* Mutant: the queued item is executed without a slot of its own.
SlotsRetakenNot(m) == SlotsLeft(m)

SlotsRetaken(m) == SlotsLeft(m) + 1

NextInLine(m) == Head(queue[m])

\* Mutant: completion forgets every token, not only those already set.
TokensLeftNone(m) == {}

\* active_cancels.retain(|t| !t.is_cancelled())
TokensLeft(m) == activeCancels[m] \ cancelled

\* Under the lock, with nothing queued: the slot is given back.
SettleLast(r) ==
  LET m == MacroOf[r] IN
  /\ queue[m] = <<>>
  /\ Move(r, "ended", "done")
  /\ running' = [running EXCEPT ![m] = SlotsLeft(m)]
  /\ activeCancels' = [activeCancels EXCEPT ![m] = TokensLeft(m)]
  /\ UNCHANGED <<queue, startedAt, now, lastFire, debounceCancel, tokens>>

\* Under the lock, with items queued: the slot is given back and taken again for
\* the head of the queue, which the same task then executes.
SettleNext(r) ==
  LET m == MacroOf[r]
      q == NextInLine(m)
  IN
  /\ queue[m] # <<>>
  /\ pc[r] = "ended"
  /\ pc' = [pc EXCEPT ![r] = "done", ![q] = "executing"]
  /\ running' = [running EXCEPT ![m] = SlotsRetaken(m)]
  /\ startedAt' = [startedAt EXCEPT ![q] = {now}]
  /\ queue' = [queue EXCEPT ![m] = Tail(@)]
  /\ activeCancels' = [activeCancels EXCEPT ![m] = TokensLeft(m)]
  /\ UNCHANGED <<now, lastFire, debounceCancel, tokens>>

Tick ==
  /\ now < MaxTime
  /\ now' = now + 1
  /\ UNCHANGED <<pc, running, queue, startedAt, perMacro, tokens>>

\* Nothing is left to do: every run is settled, sleeps past the bound of the
\* clock, or waits behind a run that panicked.
Quiescent ==
  /\ now = MaxTime
  /\ \A r \in Runs :
       \/ pc[r] \in {"done", "dropped", "superseded", "panicked"}
       \/ pc[r] = "sleeping" /\ wakeAt[r] > MaxTime
       \/ pc[r] = "queued" /\ \E s \in Runs : pc[s] = "panicked" /\ MacroOf[s] = MacroOf[r]
  /\ UNCHANGED vars

-----------------------------------------------------------------------------
ApplyPolicy(r) ==
  \/ ApplyParallel(r)
  \/ ApplyDropIfRunning(r)
  \/ ApplyQueue(r)
  \/ ApplyRestart(r)
  \/ ApplyDebounce(r)
  \/ ApplyThrottle(r)

TaskStep(r) ==
  \/ ApplyPolicy(r)
  \/ CancelPrevious(r)
  \/ StartFresh(r)
  \/ DebounceWake(r)
  \/ DebounceFire(r)
  \/ WorkflowEnds(r)
  \/ SettleLast(r)
  \/ SettleNext(r)

Next ==
  \/ \E r \in Runs : Schedule(r)
  \/ \E r \in Runs : TaskStep(r)
  \/ \E r \in Runs : WorkflowTimesOut(r)
  \/ \E r \in Runs : WorkflowPanics(r)
  \/ Tick
  \/ Quiescent

Spec == Init /\ [][Next]_vars

\* Tokio polls every ready task and its mutex is fair; time passes; workflows
\* are assumed to return (a While over an always-true condition would not).
\* Nothing obliges the router to schedule a run.
Fairness ==
  /\ \A r \in Runs : WF_vars(TaskStep(r))
  /\ WF_vars(Tick)

FairSpec == Spec /\ Fairness

-----------------------------------------------------------------------------
(* Properties.                                                             *)

\* The runs that occupy a slot of their macro.  One that panicked does so for ever:
\* it never settles, so it neither gives the slot back nor looks at the queue.
HasSlot(r) == pc[r] \in {"cancelling", "executing", "ended", "panicked"}
Holders(m) == {r \in Runs : MacroOf[r] = m /\ HasSlot(r)}
Panicked(m) == {r \in Holders(m) : pc[r] = "panicked"}
Waiting(m) == {r \in Runs : MacroOf[r] = m /\ pc[r] = "queued"}

OnlyPolicies(m, kinds) ==
  \A r \in Runs : MacroOf[r] = m => PolicyOf[r].kind \in kinds

(* `running` is the number of runs that really occupy a slot, whatever mix *)
(* of policies the macro has had: the saturating subtraction never hides a *)
(* lost count and only a panic keeps a slot for ever.                      *)
SlotAccounting == \A m \in Macros : running[m] = Cardinality(Holders(m))

(* Queue "serialises" and DropIfRunning ignores triggers "while one        *)
(* instance is running": a macro that only ever had these two policies has *)
(* at most one run between taking a slot and giving it back.               *)
SerialExecution ==
  \A m \in Macros :
    OnlyPolicies(m, {"Queue", "DropIfRunning"}) =>
      \A r, s \in Holders(m) : r = s

(* After an edit from Parallel to Queue several runs settle and each pops  *)
(* the queue, so queued runs do overlap.  That overlap is only handed on:  *)
(* the number of runs with a slot grows from a number above zero only by a *)
(* run whose policy does not look at `running`, never by one that Queue or *)
(* DropIfRunning lets in, at once or off the queue.                        *)
LetInUnseen(m) ==
  \E r \in Runs : /\ MacroOf[r] = m
                  /\ ~HasSlot(r) /\ HasSlot(r)'
                  /\ PolicyOf[r].kind \notin {"Queue", "DropIfRunning"}

OverlapOnlyHandedOn ==
  [][\A m \in Macros :
       Cardinality(Holders(m))' > Cardinality(Holders(m)) =>
         Holders(m) = {} \/ LetInUnseen(m)]_vars

(* The queue of a macro holds exactly its runs that wait, each once (a     *)
(* part of the inductive invariant: what the other proofs know of queues). *)
QueueIsTheWaitingRuns ==
  \A m \in Macros :
    /\ \A i \in 1..Len(queue[m]) : MacroOf[queue[m][i]] = m /\ pc[queue[m][i]] = "queued"
    /\ \A r \in Runs : (MacroOf[r] = m /\ pc[r] = "queued") =>
         \E i \in 1..Len(queue[m]) : queue[m][i] = r
    /\ \A i, j \in 1..Len(queue[m]) : queue[m][i] = queue[m][j] => i = j

(* No queue is longer than the max of some Queue policy the macro has had, *)
(* also when the policy was edited while runs were waiting.                *)
QueueWithinMax ==
  \A m \in Macros :
    queue[m] # <<>> =>
      \E r \in Runs : /\ MacroOf[r] = m
                      /\ PolicyOf[r].kind = "Queue"
                      /\ Len(queue[m]) <= PolicyOf[r].arg

(* Queued work has a run before it that will settle, and so look at the    *)
(* queue, or a run of its macro panicked.  In the second case the code may *)
(* strand it: the task that would have popped it has unwound, and with the *)
(* slot it kept, Queue and DropIfRunning start nothing that could settle.  *)
StrandedOnlyByPanic ==
  \A m \in Macros :
    queue[m] # <<>> => Holders(m) \ Panicked(m) # {} \/ Panicked(m) # {}

(* RestartIfRunning "cancels the running instance": of the runs that have  *)
(* a slot, at most one is neither cancelled nor about to be cancelled by a *)
(* task that already drained its token, however the tasks interleave.      *)
Unsuperseded(m) ==
  {r \in Holders(m) : r \notin cancelled /\ \A s \in Runs : r \notin toCancel[s]}

RestartKeepsOne ==
  \A m \in Macros :
    OnlyPolicies(m, {"RestartIfRunning"}) => \A r, s \in Unsuperseded(m) : r = s

(* "At most one execution per ms window": two runs of a macro that both    *)
(* passed the throttle are at least the later one's ms apart.              *)
Throttled(m) == {r \in Runs : MacroOf[r] = m /\ PolicyOf[r].kind = "Throttle"}

ThrottleSpacing ==
  \A m \in Macros : \A r, s \in Throttled(m) : r # s =>
    \A t \in startedAt[r], u \in startedAt[s] :
      t + PolicyOf[s].arg <= u \/ u + PolicyOf[r].arg <= t

(* A trigger is refused only for a reason its policy gives: a run of the   *)
(* macro occupies a slot and, for Queue, max runs really wait; or one      *)
(* started inside the throttle window.                                     *)
RefusalJustified(r) ==
  (pc[r] = "spawned" /\ pc'[r] = "dropped") =>
    \/ PolicyOf[r].kind = "DropIfRunning" /\ Holders(MacroOf[r]) # {}
    \/ /\ PolicyOf[r].kind = "Queue"
       /\ Holders(MacroOf[r]) # {}
       /\ Cardinality(Waiting(MacroOf[r])) >= PolicyOf[r].arg
    \/ /\ PolicyOf[r].kind = "Throttle"
       /\ \E s \in Throttled(MacroOf[r]) :
            \E t \in startedAt[s] : now - t < PolicyOf[r].arg

RefusedOnlyWhenBusy == [][\A r \in Runs : RefusalJustified(r)]_vars

(* What is queued is executed, provided no workflow panics.                *)
QueuedWorkRuns ==
  \A r \in Runs : pc[r] = "queued" ~> pc[r] = "done"

(* A burst is never lost: for every trigger that armed the debounce timer  *)
(* and was put off, a timer that ends no earlier is still armed, or a run  *)
(* of the macro started after the trigger's quiet period.                  *)
Debounced(m) == {r \in Runs : MacroOf[r] = m /\ PolicyOf[r].kind = "Debounce"}
Armed(r) == pc[r] \in {"sleeping", "woken"} /\ r \notin disarmed

BurstCovered ==
  \A m \in Macros : \A r \in Debounced(m) :
    ( /\ pc[r] \in {"sleeping", "woken", "superseded"}
      /\ \A s \in Debounced(m) : PolicyOf[s].arg = PolicyOf[r].arg ) =>
      \E s \in Debounced(m) :
        \/ Armed(s) /\ wakeAt[s] >= wakeAt[r]
        \/ \E t \in startedAt[s] : t >= wakeAt[r]

=============================================================================
