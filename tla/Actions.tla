------------------------------- MODULE Actions --------------------------------
(***************************************************************************)
(* What the actions of the library do while they execute, inside the runs  *)
(* of the workflow interpreter: Workflow is the interpreter, and here the  *)
(* step in which an action returns is replaced by the work of its kind.    *)
(*                                                                         *)
(*   script    RunScript: set_var collects, and the writes go to the store *)
(*             one at a time when the script has ended                     *)
(*   set       SetVariable on the store                                    *)
(*   type      SimulateInput: one key after the other                      *)
(*   interact  Interact: the backends are asked one by one, and the best   *)
(*             one is given the operation                                  *)
(*   plain     anything else, which Workflow models                        *)
(*                                                                         *)
(* The first three do not await: while one of them executes nothing else   *)
(* happens in the task of its run, not even a timeout, but other runs go   *)
(* on.  A backend works on a thread of its own (spawn_blocking), which     *)
(* nobody stops when the future that waits for it is dropped.  A value in  *)
(* the store is named by the action that wrote it.                         *)
(***************************************************************************)
EXTENDS Integers, Workflow

CONSTANTS
  Job,       (* what an action does                                        *)
  Keys,      (* the names of the variables                                 *)
  Body,      (* the keys a script or SetVariable writes, or the key strokes *)
  Operations,(* what a backend may be asked to do                          *)
  Backends,  (* the registered backends, in order: tier and operations     *)
  Op,        (* the operation of an interaction                            *)
  Fallback,  (* its OnNoBackground policy                                  *)
  Granted    (* the permissions of a run                                   *)

Synchronous == {"script", "set", "type"}

Permission == {"ScriptExecution", "InputSimulation", "WindowInteraction", "ForegroundTakeover"}

\* Tier: ForegroundSynthetic is 1 and Background 2.
ASSUME ActionsAssumption ==
  /\ Job \in [Nodes -> {"plain", "interact"} \union Synchronous]
  /\ \A n \in Nodes : Job[n] # "plain" => Kind[n] = "Action" /\ Claims[n] = <<>>
  /\ \A n \in Nodes : Job[n] \in {"script", "set"} => Body[n] \in Seq(Keys)
  /\ \A n \in Nodes : Job[n] = "set" => Len(Body[n]) = 1
  /\ \A n \in Nodes : Job[n] = "type" => Body[n] \in Seq(Nat)
  /\ Backends \in Seq([tier : {1, 2}, ops : SUBSET Operations])
  /\ Op \in [Nodes -> Operations]
  /\ Fallback \in [Nodes -> {"Degrade", "Fail", "Queue"}]
  /\ Granted \in [Roots -> SUBSET Permission]

VARIABLES
  step,       (* how far the work of an executing action is                *)
  store,      (* InMemoryStateStore.data: who wrote the value of a key     *)
  wrote,      (* history: the keys an action wrote since it was last called *)
  lastTyper,  (* history: whose key stroke was the last                    *)
  torn,       (* history: two actions of which one typed amid the other    *)
  found,      (* the backends that have the target of an interaction       *)
  work,       (* what became of the operations given to a backend, in order *)
  focus,      (* the interaction that last took the focus for its target   *)
  astray      (* history: two interactions of which one typed for its      *)
              (* target after the other had taken the focus from it        *)

input == <<lastTyper, torn, focus, astray>>
data  == <<store, wrote, found, work, input>>
avars == <<vars, step, data>>

Nobody == 0

ActionsInit ==
  /\ Init
  /\ step = [n \in Nodes |-> 0]
  /\ store = [k \in Keys |-> Nobody]
  /\ wrote = [n \in Nodes |-> {}]
  /\ lastTyper = Nobody
  /\ torn = {}
  /\ found = [n \in Nodes |-> {}]
  /\ work = [n \in Nodes |-> <<>>]
  /\ focus = Nobody
  /\ astray = {}

-----------------------------------------------------------------------------
(* What the steps share.                                                   *)

\* Mutant: the task of a run goes on while an action of it works.
BusyNever(r) == FALSE

\* The task of run r is inside an execute() that does not await.
Busy(r) == \E n \in Nodes : at[n] = "executing" /\ RunOf[n] = r /\ Job[n] \in Synchronous

Works(n, job) == at[n] = "executing" /\ Job[n] = job

Allows(n, p) == p \in Granted[RunOf[n]]

\* required_permissions() of each kind; Degrade needs the foreground whatever is found.
Required(n) ==
  {p \in Permission :
     \/ p = "ScriptExecution" /\ Job[n] = "script"
     \/ p = "InputSimulation" /\ Job[n] = "type"
     \/ p = "WindowInteraction" /\ Job[n] = "interact"
     \/ p = "ForegroundTakeover" /\ Job[n] = "interact" /\ Fallback[n] = "Degrade"}

\* The action goes on to its next step.
Goes(n) ==
  /\ step' = [step EXCEPT ![n] = @ + 1]
  /\ UNCHANGED vars

\* execute() returns, and what it knew is gone.
Returns(n, f) ==
  /\ at' = [at EXCEPT ![n] = f]
  /\ step' = [step EXCEPT ![n] = 0]
  /\ found' = [found EXCEPT ![n] = {}]
  /\ UNCHANGED <<pos, owner, cancelled>>

-----------------------------------------------------------------------------
(* Scripts and variables.                                                  *)

\* Mutant: set_var writes at once.
ScriptRunsWriting(n) ==
  /\ Works(n, "script")
  /\ \/ step[n] < Len(Body[n]) /\ RunOf[n] \notin cancelled /\ Goes(n)
        /\ store' = [store EXCEPT ![Body[n][step[n] + 1]] = n]
        /\ wrote' = [wrote EXCEPT ![n] = @ \union {Body[n][step[n] + 1]}]
        /\ UNCHANGED found
     \/ step[n] <= Len(Body[n]) /\ Returns(n, "Failed") /\ UNCHANGED <<store, wrote>>
  /\ UNCHANGED <<input, work>>

\* A set_var of the script, which is kept; or the script fails before its end, as it does
\* when it finds the token set.
ScriptRuns(n) ==
  /\ Works(n, "script")
  /\ \/ step[n] < Len(Body[n]) /\ RunOf[n] \notin cancelled /\ Goes(n) /\ UNCHANGED found
     \/ step[n] <= Len(Body[n]) /\ Returns(n, "Failed")
  /\ UNCHANGED <<store, wrote, input, work>>

\* One of the writes that were kept; the token is not looked at any more.
ScriptFlushes(n) ==
  /\ Works(n, "script")
  /\ \E i \in {step[n] + 1 - Len(Body[n])} :
       /\ i \in DOMAIN Body[n]
       /\ store' = [store EXCEPT ![Body[n][i]] = n]
       /\ wrote' = [wrote EXCEPT ![n] = @ \union {Body[n][i]}]
  /\ Goes(n)
  /\ UNCHANGED <<input, found, work>>

ScriptEnds(n) ==
  /\ Works(n, "script") /\ step[n] = 2 * Len(Body[n])
  /\ Returns(n, "Continue")
  /\ UNCHANGED <<store, wrote, input, work>>

SetsVariable(n) ==
  /\ Works(n, "set")
  /\ store' = [store EXCEPT ![Body[n][1]] = n]
  /\ wrote' = [wrote EXCEPT ![n] = {Body[n][1]}]
  /\ Returns(n, "Continue")
  /\ UNCHANGED <<input, work>>

-----------------------------------------------------------------------------
(* Keys.                                                                   *)

\* SendInput takes one event, after those that another run may have sent meanwhile.
Types(n) ==
  /\ Works(n, "type") /\ step[n] < Len(Body[n])
  /\ lastTyper' = n
  /\ torn' = IF step[n] > 0 /\ lastTyper # n THEN torn \union {<<n, lastTyper>>} ELSE torn
  /\ Goes(n)
  /\ UNCHANGED <<store, wrote, found, work, focus, astray>>

\* SendInput refuses an event: what was typed stays typed.
TypingEnds(n) ==
  /\ Works(n, "type")
  /\ \/ step[n] < Len(Body[n]) /\ Returns(n, "Failed")
     \/ step[n] = Len(Body[n]) /\ Returns(n, "Continue")
  /\ UNCHANGED <<store, wrote, input, work>>

-----------------------------------------------------------------------------
(* Interactions.                                                           *)

\* collect_candidates, one backend: it has the target, or has not, or fails.
Asks(n) ==
  /\ Works(n, "interact") /\ step[n] < Len(Backends)
  /\ found' \in {found, [found EXCEPT ![n] = @ \union {step[n] + 1}]}
  /\ Goes(n)
  /\ UNCHANGED <<store, wrote, input, work>>

\* Mutant: the candidates are sorted the other way round.
BestLast(n) == {i \in found[n] : \A j \in found[n] : Backends[i].tier < Backends[j].tier \/ i = j}

\* The first of the candidates with the highest tier.
Best(n) ==
  {i \in found[n] : \A j \in found[n] :
     Backends[i].tier > Backends[j].tier \/ (Backends[i].tier = Backends[j].tier /\ i <= j)}

\* Whom dispatch gives the operation to, if it does: a backend that works in the
\* background, or under Degrade, and with the permission, one that does not.
Chosen(n) ==
  {i \in Best(n) : Backends[i].tier = 2 \/ (Fallback[n] = "Degrade" /\ Allows(n, "ForegroundTakeover"))}

NoBackend(n) ==
  /\ Works(n, "interact") /\ step[n] = Len(Backends)
  /\ Chosen(n) = {}
  /\ Returns(n, "Failed")
  /\ UNCHANGED <<store, wrote, input, work>>

Submits(n) ==
  /\ Works(n, "interact") /\ step[n] = Len(Backends)
  /\ \E i \in Chosen(n) : work' = [work EXCEPT ![n] = Append(@, [on |-> i, is |-> "given"])]
  /\ Goes(n)
  /\ UNCHANGED <<store, wrote, input, found>>

\* What becomes of an operation.  One that takes the foreground is first in front of the
\* others or, when the system did not let it, behind them; the end is that it is done,
\* that an error was reported after it took effect, wholly or in part, or that it is
\* refused: it had no effect.
UnderWay == {"given", "front", "behind"}
Errors   == {"erred", "refused"}
Fate     == UnderWay \union Errors \union {"done"}

\* sendinput_invoke_sync brings the target to the foreground, whatever the operation, and
\* sleeps; that SetForegroundWindow may have failed is not looked at.
Fronts(n, k) ==
  /\ work[n][k].is = "given"
  /\ Backends[work[n][k].on].tier = 1
  /\ \E f \in {"front", "behind"} :
       /\ work' = [work EXCEPT ![n][k].is = f]
       /\ focus' = IF f = "front" THEN n ELSE focus
  /\ UNCHANGED <<vars, step, store, wrote, found, lastTyper, torn, astray>>

\* These operations are key strokes in the foreground.
AreKeys(n, i) == Backends[i].tier = 1 /\ Op[n] \in {"SendKeys", "SetText"}

\* The thread of the backend, whoever still waits.  An error after the effect: Invoke or
\* SetFocus reports one, WM_LBUTTONUP cannot be posted, or only some keys were taken.
Lands(n, k) ==
  LET o == work[n][k] IN
  /\ o.is \in UnderWay
  /\ o.is = "given" => Backends[o.on].tier = 2
  /\ \E r \in {"done", "erred", "refused"} :
       /\ r # "refused" => Op[n] \in Backends[o.on].ops
       /\ work' = [work EXCEPT ![n][k].is = r]
       /\ IF AreKeys(n, o.on) /\ r # "refused"
            THEN /\ lastTyper' = n
                 /\ astray' = IF o.is = "front" /\ focus # n
                                THEN astray \union {<<n, focus>>} ELSE astray
            ELSE UNCHANGED <<lastTyper, astray>>
       /\ focus' \in {focus} \union (IF Op[n] = "Focus" /\ r # "refused" THEN {n} ELSE {})
  /\ UNCHANGED <<vars, step, store, wrote, torn, found>>

OnThread(n, k) == Fronts(n, k) \/ Lands(n, k)

\* Mutant: invoke does not wait for its thread.
AnswersAtOnce(n) ==
  /\ Works(n, "interact") /\ step[n] > Len(Backends)
  /\ Returns(n, "Continue")
  /\ UNCHANGED <<store, wrote, input, work>>

\* The answer for the operation that was given last; no other backend is tried.
Answers(n) ==
  /\ Works(n, "interact") /\ step[n] > Len(Backends)
  /\ LET last == work[n][Len(work[n])].is IN
       /\ last \notin UnderWay
       /\ Returns(n, IF last = "done" THEN "Continue" ELSE "Failed")
  /\ UNCHANGED <<store, wrote, input, work>>

-----------------------------------------------------------------------------

Work(n) ==
  \/ ScriptRuns(n)
  \/ ScriptFlushes(n)
  \/ ScriptEnds(n)
  \/ SetsVariable(n)
  \/ Types(n)
  \/ TypingEnds(n)
  \/ Asks(n)
  \/ NoBackend(n)
  \/ Submits(n)
  \/ Answers(n)

\* An action that is called has written nothing yet.
Recalled == wrote' = [m \in Nodes |-> IF at'[m] = "called" THEN {} ELSE wrote[m]]

\* Mutant: the permission gate asks for any of the permissions.
GateOfAny(n) ==
  (at[n] = "called" /\ at'[n] = "acquiring" /\ Required(n) # {}) => \E p \in Required(n) : Allows(n, p)

\* run_action: an action gets past the gate with all the permissions it requires.
Gate(n) == (at[n] = "called" /\ at'[n] = "acquiring") => \A p \in Required(n) : Allows(n, p)

\* A step of the interpreter in the task of n's run; an action that starts to execute
\* starts from nothing, and one that is dropped forgets.
Interprets(n) ==
  /\ Enter(n) \/ Resume(n) \/ Elapses(n) \/ Panics(n)
  /\ ~Busy(RunOf[n])
  /\ Gate(n)
  /\ at[n] = "executing" => Job[n] = "plain"
  /\ step' = [m \in Nodes |-> IF at'[m] = "executing" THEN step[m] ELSE 0]
  /\ found' = [m \in Nodes |-> IF at'[m] = "executing" THEN found[m] ELSE {}]
  /\ Recalled
  /\ UNCHANGED <<store, input, work>>

ActionsNext ==
  \/ \E r \in Roots :
       (Start(r) \/ Cancel(r)) /\ Recalled /\ UNCHANGED <<step, store, input, found, work>>
  \/ \E n \in Nodes : Interprets(n)
  \/ \E n \in Nodes : Work(n)
  \/ \E n \in Nodes : \E k \in DOMAIN work[n] : OnThread(n, k)

ActionsSpec == ActionsInit /\ [][ActionsNext]_avars

-----------------------------------------------------------------------------
(* Properties.                                                             *)

(* The types of what this module adds.                                     *)
ActionsTypeOK ==
  /\ step \in [Nodes -> Nat]
  /\ store \in [Keys -> Nodes \union {Nobody}]
  /\ wrote \in [Nodes -> SUBSET Keys]
  /\ lastTyper \in Nodes \union {Nobody}
  /\ torn \subseteq Nodes \X (Nodes \union {Nobody})
  /\ found \in [Nodes -> SUBSET DOMAIN Backends]
  /\ work \in [Nodes -> Seq([on : DOMAIN Backends, is : Fate])]
  /\ focus \in Nodes \union {Nobody}
  /\ astray \subseteq Nodes \X (Nodes \union {Nobody})

(* set_var "writes to the global state store after the script finishes":   *)
(* a script whose action failed, at whichever statement, has written       *)
(* nothing, one that returned has written everything, and no timeout,      *)
(* panic or cancellation of the run, come when it may, leaves a part.      *)
ScriptsWriteAllOrNothing ==
  \A n \in Nodes : Job[n] = "script" =>
    /\ at[n] = "Failed" => wrote[n] = {}
    /\ (at[n] = "Continue" /\ RunOf[n] \notin DryRuns) => wrote[n] = {Body[n][i] : i \in DOMAIN Body[n]}
    /\ at[n] # "executing" => wrote[n] \in {{}, {Body[n][i] : i \in DOMAIN Body[n]}}

(* Two scripts of one run never mix their writes, on whichever branches of *)
(* a Parallel they are: of the keys that both have written all come from   *)
(* one of them, or from a third party.  Scripts of two runs do mix, and    *)
(* nothing prevents it.  What SimulateInput types is torn apart only by    *)
(* another run, or by a backend that types on a thread of its own.         *)
RunsDoNotMix ==
  /\ \A m, n \in {s \in Nodes : Job[s] = "script"} :
       (m # n /\ RunOf[m] = RunOf[n]) =>
         ~\E j, k \in wrote[m] \intersect wrote[n] : store[j] = m /\ store[k] = n
  /\ \A p \in torn : RunOf[p[1]] = RunOf[p[2]] => Job[p[2]] = "interact"

\* No loop repeats n when it did not fail, and nothing between n and a Retry around it
\* fails but n.
AloneUnderRetry(n) ==
  \A p \in Nodes : n \in Below[p] =>
    /\ Kind[p] \notin {"While", "ForEach"}
    /\ (\E q \in Nodes : Kind[q] = "Retry" /\ p \in Below[q]) => Kind[p] \in {"Timeout", "If", "Retry"}

(* An operation that is retried by itself is given to a backend again only *)
(* after the last one was answered with an error: never when it was done,  *)
(* and never while it is under way, although a timeout drops the future    *)
(* and not the thread.  So it takes effect twice only where a backend      *)
(* reported an error for what it had done, as all of them may.             *)
RepeatedOnlyOnError ==
  \A n \in Nodes : \A k \in 1..(Len(work[n]) - 1) :
    AloneUnderRetry(n) => work[n][k].is \in Errors

(* An operation takes effect behind the back of its action only in a run   *)
(* that a timeout cut short or that panicked; a run that goes on, or has   *)
(* returned, in any other way is never overtaken by its own operations.    *)
LateOnlyWhenCut ==
  \A n \in Nodes : \A k \in DOMAIN work[n] :
    work[n][k].is \in UnderWay =>
      \/ Works(n, "interact") /\ k = Len(work[n])
      \/ RunOf[n] \in cancelled
      \/ at[RunOf[n]] = "panicked"

\* The permissions of an interaction are granted, and it either is asked to set the
\* focus or may degrade to the foreground.
MayTakeFocus(n) ==
  /\ Required(n) \subseteq Granted[RunOf[n]]
  /\ Op[n] = "Focus" \/ (Fallback[n] = "Degrade" /\ "ForegroundTakeover" \in Granted[RunOf[n]])

\* Why m may take the focus from n between SetForegroundWindow and the keys.
MayOvertake(m, n) ==
  \/ RunOf[m] # RunOf[n]
  \/ Apart(m, n)
  \/ RunOf[n] \in cancelled
  \/ at[RunOf[n]] = "panicked"

(* The focus.  A backend that needs the foreground is the last resort: it  *)
(* is given an operation only when none that was found works in the        *)
(* background.  The focus is only taken by an interaction that may take    *)
(* it (UiOp::Focus may without ForegroundTakeover, and does, through the   *)
(* backends that count as working in the background), also when its        *)
(* thread comes late.  And what a backend types after it has taken the     *)
(* focus goes astray, to the target of another interaction of its run,     *)
(* only across the branches of a Parallel or in a run that was cut short.  *)
FocusIsInOrder ==
  [][/\ \A n \in Nodes : Len(work'[n]) > Len(work[n]) =>
          (Backends[work'[n][Len(work'[n])].on].tier = 1 => \A i \in found[n] : Backends[i].tier = 1)
     /\ focus' # focus => MayTakeFocus(focus')
     /\ \A p \in astray' \ astray : MayOvertake(p[2], p[1])]_avars

=============================================================================
