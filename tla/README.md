# KoRkuma in TLA+

KoRkuma runs *macros* on a desktop: a trigger (a hotkey, a window, a process), a
tree of constraints, and a workflow of actions.  This directory models the parts
of it where order, concurrency and failure matter, checks them with TLC on small
instances, and proves the central results with TLAPS.  The reference is the Rust
source; `PROJECT.json` maps every definition to the lines it stands for.

## The system

| Component | State | Operations | Talks to |
|---|---|---|---|
| UI callbacks (`app/src/callbacks.rs`) | the list of macros behind a mutex, the rows of the side bar | add, delete, toggle, rename, move, edit, save | engine (command channel), file, watcher (mutex and flag) |
| File watcher (`app/src/watcher.rs`) | a thread, the flag `suppress_reload` | reload the file | file notifications, list, engine, UI event loop |
| Store (`store/src/lib.rs`) | `macros.json` | load, save through a side file and a rename | callbacks, watcher, `main` |
| Engine loop (`core/src/engine_loop.rs`) | two channels, one thread | the commands, events, shutdown | router, scheduler |
| Event router (`core/src/router.rs`) | macros by id, index from event kind to ids | add, remove, switch, dispatch, manual and dry runs | scheduler, workflows |
| Scheduler (`core/src/scheduler.rs`) | per macro: running count, queue, tokens, last start | six concurrency policies, settlement | Tokio tasks, workflows |
| Workflow interpreter (`core/src/workflow.rs`, `context.rs`) | a tree of futures, one token per run, locks per device | nine node kinds, cancellation, timeouts | actions |
| Hook providers (`hooks/src/platform_windows.rs`) | one thread each, its id or its flag, two snapshots | start, pump or poll, stop | event channel, operating system, `main` |
| Interaction (`interact`) | the registered backends | collect candidates, dispatch, invoke on a thread of its own | operating system, permissions |
| Scripts (`script`), actions (`actions`, `core/src/builtins.rs`) | the writes a script defers; the store of variables | run, set a variable, type | store, operating system |
| Tree editing (`app/src/tree_model.rs`) | none (pure); selected rows and pane in the UI | flatten, add, update, delete, move, wrap | callbacks |
| Permissions (`core/src/permission.rs`) | what a macro was granted | require, allow, aggregate | interpreter, callbacks |
| Triggers (`app/src/trigger.rs`, `hooks/src/trigger_spec.rs`) | none (pure) | convert, match | callbacks, router |

What is hard in it, and what would make each part correct:

- **Scheduler.** Every trigger spawns a Tokio task, so the tasks of one macro reach
  its lock in any order, and a policy is more than one critical section.  Correct
  means: the running count is the number of runs, serial policies serialise,
  queued work is neither lost nor stranded nor unbounded, a restart leaves one run,
  a throttle keeps its distance, a debounced burst ends in a run.
- **Workflows.** A timeout drops a tree of futures at any await and sets the token
  that the whole run shares; branches and runs compete for device locks.  Correct
  means: devices are exclusive, no lock or future outlives its run, results are not
  hidden, every run returns.
- **Actions.** A script collects its writes and flushes them one by one; keys go out one
  event at a time; an interaction asks several backends and gives its operation to a
  thread that nobody stops.  Meanwhile other runs go on, timeouts elapse and retries come.
  Correct means: a script writes all or nothing, one run does not mix its own effects, an
  operation is only repeated after an error, and of one run nobody takes the focus from
  another while it types.
- **Hook providers.** `start` returns before its thread has run, hooks and snapshots fail,
  `stop` signals a thread that may not listen yet, and processes change while they are
  reported.  Correct means: nothing outlives `stop`, which returns, and the reports add up.
- **Engine and router.** The index is redundant state changed by four commands.
  Correct means that nobody can tell it from a scan, and that a shutdown ends.
- **Tree editing.** A row is named by its position, which three walks count on their own,
  and the pane outlives the row it was loaded from.  Correct means: what is shown, edited
  and deleted is the same node, and an edit changes nothing else.
- **Editor.** Four copies of the macros (list, rows, engine, file) are kept in step
  by two threads that hold the mutex only part of the time, while other programs
  write the file, saves fail and the process dies.  Correct means: copies agree at
  rest, the file is always whole, a click hits what it shows.

## Modules

| Module | Models | State and actions |
|---|---|---|
| `Scheduler` | `scheduler.rs` | one variable per field of `MacroState`, `pc` per run; `Apply...` is the critical section of a policy, `DebounceWake`, `DebounceFire`, `CancelPrevious`, `SettleLast` and `SettleNext` the later ones |
| `SerialQueue`, `QueueRefinement` | what the Queue policy promises: an abstract queue with one server | `Arrive`, `Finish`; the refinement mapping from a macro of `Scheduler` |
| `Workflow` | `run_node`, `run_action`, `ResourcePool`, the token | `at` is the place of each node's future; `Enter...` is the first poll of a node, the rest are its continuations; `Elapses` is a timeout, `Panics` an unwinding task |
| `Actions` | the execute() of RunScript, SetVariable, SimulateInput and Interact, the permission gate; EXTENDS `Workflow` | the step in which an action returns is replaced by the work of its kind, `step` counts how far it is; `Fronts` and `Lands` are the thread of a backend |
| `Hooks` | `platform_windows.rs`, the start and stop of `main.rs` | `place` is where the thread of a provider is, `caller` where the thread in stop() is |
| `Engine` | `router.rs` and the body of the loop | one action per command, `DispatchEvent`, `InlineReturns` |
| `EngineClient` | `Engine` with any client and any hook | `Send`, `Emit` |
| `Editor` | `callbacks.rs`, `watcher.rs`, `store`, the start of `main.rs`; EXTENDS `Engine` | `ui` and `watcher` are the places of the two threads, cut where they let go of the mutex |
| `TreeModel` | `tree_model.rs`, `ConstraintExpr::evaluate` | no state: the flatten walk, the walks of the edit helpers that count rows on their own, what they make of the tree; each walk is a function on trees, given by its values for the children |
| `TreeEditor` | the two tree tabs of `callbacks.rs`, `refresh_editor` | the trees of the selected macro, the selected row and the leaf in the pane; one action per callback |
| `SchedulerProofs`, `WorkflowProofs`, `ActionsProofs`, `HooksProofs`, `EditorProofs` | theorems about the module of their name; the first also about `QueueRefinement` | |
| `TreeProofs` | lemmas about the walks of `TreeModel`, theorems about `TreeEditor` | |
| `EngineProofs`, `ClientProofs` | lemmas about every step of `Engine`, which `ClientProofs` and `EditorProofs` share; theorems about `EngineClient` | |
| `MCScheduler`, `MCQueue`, `MCWorkflow`, `MCActions`, `MCEngine`, `MCEditor`, `MCTreeEditor` | the values of the constants for TLC | |

The modules compose as the code does: `Editor` contains the whole of `Engine`; `Actions`
contains the whole of `Workflow` and refines it (`ActionsRefineWorkflow`); an event that
`Hooks` sends is an `Emit` of `EngineClient`; a
callback of `TreeEditor` is the step `Edit` of `Editor` looked at closely; an
event dispatched by `Engine` is a `Schedule` of `Scheduler`; an `executing` run of
`Scheduler` is a run of `Workflow`, whose timeout is `WorkflowTimesOut` there and
whose cancellation is `Cancel` here.

Abstractions, all of them on data: a macro's triggers, constraints, workflow and
permissions are a *body* that commands replace as a whole; names are left out; a
condition, an action and a permission check may yield any result that their code can
return, except in `Actions`, where the four kinds of action and the gate do their work;
the value of a variable is named by the action that wrote it; an event is named by the trigger it matches; sorting by priority is left out
because the tasks it orders race for the lock anyway; a file that cannot be parsed is
an empty set, one that can is the set of its list.

## What TLC checks

| Run | Instance | Shows |
|---|---|---|
| `Queue` | two macros, six runs, one macro edited between Queue and DropIfRunning | `SerialExecution`, `RefusedOnlyWhenBusy`; under fairness `QueuedWorkRuns`; `ImplementsSerialQueue` (refinement) |
| `Mixed` | one macro edited from Parallel (two runs) to Queue 2 (two runs), with a panic; one that restarts, with a timeout | `SlotAccounting`, `StrandedOnlyByPanic`, `RestartKeepsOne`, `OverlapOnlyHandedOn` |
| `Timed` | three debounced and two throttled runs, clock 0..2 | `ThrottleSpacing`, `BurstCovered`, `RefusedOnlyWhenBusy` |
| `Devices` | two runs and two devices; timeout, competing branches, retry, panic | `DevicesExclusive`, `GuardsAreLive`, `EveryRunReturns` |
| `Control` | sixteen nodes of every kind, three levels of timeout, loop and join | `NothingOutlivesItsRun`, `ConcurrentOnlyInParallel`, `TimeoutsAreNotHidden` |
| `Actions` | two runs: parallel scripts, typing, Focus under Queue and, without the permission, under Degrade; Focus under Fail, SetText under Degrade inside Retry and Timeout, a variable; a background and a foreground backend | `ScriptsWriteAllOrNothing`, `RunsDoNotMix`, `RepeatedOnlyOnError`, `LateOnlyWhenCut`, `FocusIsInOrder` |
| `Engine` | two macros, three triggers of two kinds, four sends | `IndexStaysExact`, `FiresWhatMatches`, `ShutdownCompletes` |
| `Hooks` | a pump and the poller, two starts each, two processes that change three times, one snapshot that fails or ends early, a window that may fail | `NothingOutlivesStop`, `ReportsAddUp`; under fairness `ChangesAreReported`, `StopReturnsOncePumping` |
| `Editor` | two macros and a new one, two callbacks, one crash, one foreign write or repeated notification | `TypeOK`, `EngineFollowsList`, `DiskFollowsList`, `FileIsWhole`, `RowsFollowList`, `PanicsOnlyOnStaleRows` |
| `Trees` | four macros with two constraint and two workflow trees, two edits | `TypeOK`, `UpdateHitsItsRow`, `DeleteSparesTheRest`, `MovesSwapNeighbours`, `ConditionsKeepTheirMeaning` |
| `TreeRows` | an action in a ForEach, three behind it | violated: Update overwrites another action than the one shown |
| `EditorDisk` | two edits, nobody else | violated: list and file differ at rest |

Each violated property states a sentence of a document or comment, quoted with its
place under `findings` in `PROJECT.json`.

**Bounds.** Runs, nodes and ids are finite constants; the counters that the code
leaves unbounded are bounded by `MaxTime` (clock), `MaxSends` (commands and events),
`MaxCallbacks`, `MaxOutside` (foreign writes and repeated notifications) and `MaxCrashes`
(editor), `MaxStarts` (successful starts of a provider), `MaxChurn` (processes that begin
or end) and `MaxBlind` (snapshots that fail or end early).  Three runs of a macro are
enough for one to hold a slot, one to wait and one to be refused or to overtake; two
restarts overlap with a third; two parallel runs and two queued ones are the least of an
edit after which queued runs overlap; a debounce timer, its reset and the reset of the reset
fit in three runs and a clock that outlasts the delay; two callbacks are the least
that can bracket a reload; two edits of a tree (`MaxEdits`) are an edit and its effect
on the rows, the selection and the pane that the next one uses; `MaxHeight` bounds the
levels of a tree, with room for every edit (`MacrosAssumption`), and is reached by none.  Two starts of a provider
are the least in which something of the first could hit the second; two processes are the
least of which a snapshot can see a part, and three changes let both begin and one end
around it; two attempts of an interaction are the least of which the second could repeat
the first, and two runs that take the focus the least that could take it from each other.  Properties proved by
TLAPS need no bound at all.

**Fairness.** `Scheduler.FairSpec` is weakly fair for each task (Tokio polls every
ready task, and its mutex is first come, first served) and for the clock;
`Workflow.FairSpec` for every ready future; `EngineClient.FairSpec` for taking a
command, taking an event and the return of a manual run (`select!` picks at random
among ready channels); `Hooks.FairSpec` for each thread of a provider and for the thread
in stop() (they block on nothing but what is modelled), not for starting or stopping
anything.  `Actions` has no liveness property.  Nothing obliges triggers, clients, timeouts, cancellations,
panics or crashes to happen.  The first three assume that actions and workflows return: a
`While` whose condition stays true and whose `max_iter` is large does not, and then
queued work waits, and a manual run keeps the engine thread.  `EveryRunReturns`
further needs the actions' device lists to follow one order without repetition; the
code takes the locks in whatever order an action lists them and nothing enforces one.

**Deadlock** is checked in every passing run but `Actions` and `Hooks`.  Where the system
may rest there is an explicit stutter (`Quiescent`, `AllEnded`, `Waiting`, `Rest`) with the
condition.  Those two may stop: `Actions` when both runs have ended, `Hooks` when nobody
starts a provider again, or in the stop() that never returns (below).

## What is proved

For every set of runs, macros, policies, panics and timeouts (`SchedulerProofs`, from
`SchedulerAssumption` and finiteness where cardinalities are used):

1. `TypeCorrect`, and `QueueCorrect`: the queue is exactly the waiting runs, which the
   next two rest on.
2. `SlotsCorrect`: `running` is the number of runs that hold a slot.  This is the
   inductive core: by `QueueCorrect` the head of the queue waits, hence a step changes
   the set of holders by one run at most, or swaps a settled run for the head.
3. `SerialCorrect`, `OverlapIsOnlyHandedOn`, `NothingStranded`, `QueueBounded` and
   `RefusalCorrect` follow from the count together with `PolicyStage`: a run is only ever
   at a place of its policy.  A run that panicked keeps its slot, so `NothingStranded`
   (`StrandedOnlyByPanic`) finds before queued work a run that will settle or one that
   panicked; `RefusalCorrect` counts the runs that really wait.
4. `RestartCorrect` rests on the tokens: a holder's token is in `activeCancels`, or
   drained by a task that will set it, or set.
5. `ThrottleCorrect` rests on `lastFire` being the latest start of a throttled run.
6. `BurstNeverLost` rests on `TimersInOrder`: a timer is only ever set
   back by a newer one of the same macro, which ends no earlier when the delays agree,
   and an armed timer that ends starts its run at once, at a time not before its end.

For a macro that queues, any room, any number of runs and any policies of the other macros
(the last section of `SchedulerProofs`, further from `QueueMacroAssumption`, which nothing
before it uses):

7. `QueueServes`: initial states map to initial states of `SerialQueue`, and every step to
   `Arrive`, `Finish` or a stutter.  By `SerialCorrect` the item served is the one run
   with the slot; by `QueueCorrect` the waiting items are the queue, so that the policy's
   critical section is an arrival, and that of a settlement a finish that serves the head.
   `ImplementsSerialQueue` adds that the server keeps serving, which TLC checks.

For every set of macros, kinds, triggers, commands and events (`EngineProofs`, `ClientProofs`):

8. `TypeCorrect`, and `EventsFireWhatMatches`: `FiresWhatMatches` by the invariant
   `IndexComplete`, that every macro is listed for every kind of its triggers.  The
   index need not be exact for this, and is not: a macro that is added again leaves the
   entries of its predecessor.
9. `ExactnessIsKept`: only an `AddMacro` for a registered id makes the index inexact.

For every forest of workflow trees, claims, pools and limits (`WorkflowProofs`, from
`WorkflowAssumption` and `AncestryAssumption`, that `Kids` and `Below` are those of a forest):

10. `TypeCorrect`, and `RunsEndWhole`.  The inductive invariant is `TreeInv`: below a node
   that is not waiting for a child everything is idle (`QuietBelow`), so that a return or a
   drop leaves no future behind, and a node that is not a Parallel has one child at work.
11. `BranchesOnly` follows from `OneAtATime`, the part of it about two nodes: both at work
    means that one is below the other or that they are on branches of a Parallel.
12. `NoLockLeftBehind` and `OneAtADevice` rest on `LockInv`: a guard is held by an action
    that acquires or executes, the locks it owns are the first of its claims that it has
    counted, and no lock has two owners.
13. `TimeoutsShow` finds for every cancelled run that did not go on a node to blame on the
    way from the timeout to the root.

For every tree of library actions, all backends and grants (`ActionsProofs`, further from
`ActionsAssumption`):

14. `ActionsRefineWorkflow`: every step of `Actions` is a step of `Workflow` or leaves it
    alone, hence `ActionsKeepTheRun` carries 10 over.
15. `FocusIsKept` (`FocusIsInOrder`) rests on `Gated`, that an action that acquires or
    executes has all the permissions it requires, hence (`Entitled`) that so had every
    operation when it was given; and on `FrontKept`: the interaction whose thread has
    brought its target to the front still has the focus, or who took it may overtake it.
    Two operations of one run under way at a time are apart or late by 11 and 17.
16. `ScriptsAreAtomic` and `RunsAreApart` rest on `OneBusy`: in one run at most one action is
    inside an execute() that does not await, and nothing else of the run moves meanwhile.
17. `LateIsCut` rests on `AwaitedOrCut`: an operation under way is the last of an action
    that executes, or its run was cut, and `CutStays`.
18. `RetriesDoNotRepeat` (`RepeatedOnlyOnError`) rests on `DoneInv`: once an operation of an
    action was done or is under way, the action waits for it, or the run was cut, or the
    turn of the action is over (`Over`): on the way from it to the root a node has returned
    what no Retry repeats, or a Seq has gone on.  A result travels up this way without
    becoming a failure below a Retry, which is where `AloneUnderRetry` is needed.

For every set of pumps and processes (`HooksProofs`):

19. `TypeCorrect`; `StopIsClean`, by what each place of a thread says of the handle, the id
    and WM_QUIT; and `ReportsCorrect`, by what the reports of one start must add up to at
    each place of the poll, in the middle of its sends too.

For any list, file, bodies and edits, any number of callbacks, crashes and writes by other
programs (`EditorProofs`, from `EditorAssumption` and the assumptions of `Engine`):

20. `TypeCorrect`.  That no id is twice in the list is not inductive: a new macro is
    announced before it is in the list, and a reload may come in between.  The invariant
    adds `IdsApart`, that the macro in hand is in neither the list, the file, nor what the
    watcher has loaded, and `InHand`, what each place of the UI thread says of it.
21. `FileAlwaysWhole`; `RowsAlwaysFollow` and `PanicsNeedStaleRows` from `RowsMatch`: unless
    a refresh is queued, rows and list differ exactly by what the callback under way has
    done to one and not yet to the other.
22. `DiskAlwaysFollows` rests on `Flagged`: a set `suppress_reload` has a notification left
    to be cleared by; and on `FileFollows`: when list and file differ at an idle UI, a reload
    of what the file holds is under way or has a notification that no flag will swallow.
23. `EngineAlwaysFollows` rests on `Ahead`: there is a chain of router states, from the
    present one, through one after each command in the channel, to one that agrees with
    the list up to the callback under way, and no AddMacro in it meets its id registered.
    The engine takes a state off the front of the chain; a callback and a reload put states
    on its end.  Said of a chain that exists, it needs no
    recursion over the channel.

For every macro, any number of edits and any bound on the height of its trees (`TreeProofs`,
from `MacrosAssumption` and `MaxHeightAssumption`):

24. `TypeCorrect`, from the invariant `Inv`: what an edit makes of a well-formed tree is one
    (`Kept`), its names are the old ones and those of the edit, which are new, its levels at
    most one more, and it has no fewer rows unless it was a deletion, which clears the
    selection.  Each walk has a lemma that says this of it (`UpdatingKept`, `MovingKept`,
    `WrappingKept`, `DeletingKept`).
25. `UpdatesHitTheirRows`, `MovesSwap` and `DeletesSpare`: a walk counts positions, the
    properties speak of names.  They meet in where the rows of each child start (`First`, by
    `RowsDef`) and where a walk believes so (`CountFirst`), which agree up to the first
    ForEach (`SteadyFirst`).  By induction on the tree, and for any position at which it
    starts, the walk does at a row what is to be done at the node of that row.  That nothing
    else changes is that the walk leaves a tree alone whose rows do not have the position
    (`UpdatingAway`, `WrappingAway`, `CutsBeyond`).
26. `DeletesSpare` compares plans, the actions in order with what they are executed under;
    a rebuilt node has the plans of what is left of its children (`RebuiltPlan`), dissolved
    groups or not, and leaving nodes out of a flattened plan is leaving them out of its parts
    (`SparedFlat`).
27. `ConditionsKeep`, for every choice of the leaves that hold: `AddedMeans`, `MovedMeans`,
    `WrappedMeans` and `DeletedMeans`.

The induction theorems of the library cannot be instantiated here; `TreeProofs` does with
sets.  `TreeInduction` says that a set that has a tree whenever it has its children has all
trees, for otherwise there would be a least level with a tree that is not in it.  The walks
are functions defined by themselves, and that such a function exists, which is what their
definitions can be used by, is proved by recursion on the levels (`SizeIs`, `RowsIs` and the
like).

Every invariant and action property that a passing run checks has a theorem.  Only
model-checked: the two violated properties, and all liveness (`QueuedWorkRuns`,
`EveryRunReturns`, `ShutdownCompletes`, `ChangesAreReported`, `StopReturnsOncePumping`, the
fairness of `ImplementsSerialQueue`), which is beyond the proof system.

## Limits

- `running` is a `u32` in the code and a natural number here.
- A panic is modelled for builds that unwind; the release profile (`Cargo.toml`, `panic
  = "abort"`) ends the process instead.
- The branches of one run are polled by one task; the model lets every node step on
  its own, which allows at least the interleavings at awaits.
- The list of a file is loaded and its watcher started in one step.
- Another program writes lists in which no id occurs twice, and does not guess the random id
  of a macro that is being added.  Nothing in the code refuses a file with a repeated id.
- `EngineFollowsList` excepts histories in which a reload was applied between the
  sections of a delete or toggle; there the copies really differ.
  `DiskFollowsList` excepts a failed save and a stale reload (the latter is the
  violated run `EditorDisk`).
- The properties of `Trees` except rows behind a ForEach, where the helpers count other
  positions than the rows have (violated run `TreeRows`).  Update after a move, a wrap or
  an addition writes the pane into whatever node is at the selected row by then; that
  too violates `SettingsStayHome` and has no run of its own.  An empty `Any`, which only
  a file can hold, turns from never into always when another row is deleted; the trees
  of `Trees` have none.
- A debounced trigger that arrives while the previous timer is between reading its token
  (`scheduler.rs:245`) and taking the lock comes too late to reset it: both runs start.
  `BurstCovered` says only that no burst is lost.
- `DevicesExclusive` is about one `ResourcePool`.  A run started by hand has its own
  (`router.rs:446`) and shares no lock with triggered ones.
- One event runs a macro once for every trigger it has of the event's kind: `add_macro`
  makes an entry for each (`router.rs:73`) and the dispatch fires each entry if any trigger
  of the macro matches.  `domain.rs:596` says "OR semantics: any trigger fires evaluation".
  `FiresWhatMatches` is about which macros run, not how often.
- A timeout sets the token of the whole run (`workflow.rs:284`), at which Retry stops: a
  timeout is never retried, although `workflow.rs:60` and `docs/core/workflow.md:25` list it
  among the failures that are.  `RepeatedOnlyOnError` depends on it.
- A run that panics never settles (`scheduler.rs:304`): work queued behind it waits for ever,
  or until a run of another policy settles.  `StrandedOnlyByPanic` says that nothing else
  does this, `QueuedWorkRuns` is checked without panics.
- A backend may report an error for an operation that took effect: Invoke and SetFocus
  return what the target answers (`uia.rs:144`), WM_LBUTTONDOWN may be posted and
  WM_LBUTTONUP not (`win_msg.rs:74`), SendInput may take some of the keys
  (`send_input.rs:103`).  A Retry then does it again.  `RepeatedOnlyOnError` says that
  only a reported error lets it.
- UiOp::Focus calls SetFocus or posts WM_SETFOCUS (`uia.rs:131`, `win_msg.rs:80`) and needs
  `WindowInteraction` alone, although both backends count as Background, "without stealing
  focus" (`backend.rs:32`, `uia.rs:22`).  `FocusIsInOrder` allows it by name.
- SendInput does not look at whether SetForegroundWindow succeeded, and sleeps before it
  types (`send_input.rs:71`).  `FocusIsInOrder` is about keys whose target was in front;
  the others go where the focus is.  The user, who may take the focus at any time, is not
  modelled.
- stop() of a pump whose thread has not stored its id yet posts nothing and joins a thread
  that pumps for ever (`platform_windows.rs:192`); `StopReturnsOncePumping` excepts it.
  `main.rs` stops the providers after the window was closed, long after they began.
- A process that begins and ends between two snapshots is not reported, nor is one that
  takes over the pid of another; `Hooks` names a process by its pid.
- A start takes its first snapshot as known and reports nothing of it
  (`platform_windows.rs:453`): a process that was reported started, and ended while the
  provider was stopped, is never reported stopped, and one that then begins again may be
  reported started twice.  `ReportsAddUp` is about the reports within one start.
- When the window fails (`main.rs:209`) main returns without the stops.  `UiFails` is that
  return; the threads then go on until the process has ended, which `Hooks` leaves out.
- The negotiator asks for the best candidate and tries no other, although
  `interact/src/error.rs:5` says of NotSupported that "it will try the next candidate
  backend".  The UIA backend reports every window as Background (`uia.rs:262`), so what it
  does not support, such as SendKeys, fails although SendInput could do it.
- Degrade requires `ForegroundTakeover` at the gate (`action.rs:35`) also when a background
  backend would have been found; the second check in `dispatch` is then always true.
- SimulateInput declares no resources: keys of several runs interleave.  get_var is called
  "snapshot-based" (`script/src/lib.rs:151`) but reads the store as it is at that moment.
- The application of this commit registers no Interact actions; `Actions` wires the crate
  `interact` as its documentation does (`interact/src/lib.rs`).  Operations of the CDP
  backend, which has no thread of its own, are left out, and so is `enumerate_nodes`.
- approve-permissions (`callbacks.rs:1039`) computes what it grants when it is clicked, not
  what the dialog showed; only a reload of the file can come between.
- `QuerySnapshot`, logs and other read-only operations are not modelled.

Not modelled, with reasons: see the components in `PROJECT.json`.

## Plan

1. The approval dialog and revocation against reloads and running macros, composed with
   `Editor`.
2. The leaves of constraints, among them those that read variables which a script is
   flushing.
