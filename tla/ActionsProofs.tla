---------------------------- MODULE ActionsProofs ----------------------------
(***************************************************************************)
(* The theorems of Actions.  Its runs are runs of the interpreter: what an *)
(* action does while it executes is, for Workflow, nothing, and the step   *)
(* in which it ends is ActionReturns.  So what WorkflowProofs says of the  *)
(* tree and of the locks holds here too, and carries the rest.             *)
(***************************************************************************)
EXTENDS Actions, WorkflowProofs, FiniteSetTheorems

USE DEF Returned, Flow, input

-----------------------------------------------------------------------------
(* Refinement.                                                             *)

(* The end of a library action is the end of an action that holds no lock. *)
LEMMA ReturnsIsActionReturns ==
  ASSUME TreeInv, LockInv, NEW n \in Nodes, Job[n] # "plain", at[n] = "executing",
         NEW f \in Flow, Returns(n, f)
  PROVE  ActionReturns(n)
<1>1. Claims[n] = <<>>
  BY ActionsAssumption
<1>2. pos[n] \in Nat /\ pos[n] <= 0
  BY <1>1 DEF TreeInv, TypeOK, LockInv, CountsLocks, Holding
<1>3. \A l \in Locks : n \notin owner[l]
  BY <1>2 DEF LockInv, GuardsAreLive
<1>4. owner = [l \in Locks |-> owner[l] \ {n}]
  BY <1>3 DEF TreeInv, TypeOK
<1> QED
  BY <1>4 DEF Returns, ActionReturns, OwnersWithout

\* What a step of Work is for the interpreter.
LEMMA WorkIsNext ==
  ASSUME TreeInv, LockInv, NEW n \in Nodes, Work(n)
  PROVE  ActionReturns(n) \/ UNCHANGED vars
<1>1. at[n] = "executing" /\ Job[n] # "plain"
  BY DEF Work, Works, ScriptRuns, ScriptFlushes, ScriptEnds, SetsVariable, Types, TypingEnds,
         Asks, NoBackend, Submits, Answers
<1>2. UNCHANGED vars \/ \E f \in Flow : Returns(n, f)
  BY DEF Work, ScriptRuns, ScriptFlushes, ScriptEnds, SetsVariable, Types, TypingEnds,
         Asks, NoBackend, Submits, Answers, Goes
<1> QED
  BY <1>1, <1>2, ReturnsIsActionReturns

LEMMA StepIsNext ==
  ASSUME TreeInv, LockInv, [ActionsNext]_avars
  PROVE  [Next]_vars
<1>1. ASSUME NEW r \in Roots, Start(r) \/ Cancel(r) PROVE [Next]_vars
  BY <1>1 DEF Next
<1>2. ASSUME NEW n \in Nodes, Interprets(n) PROVE [Next]_vars
  BY <1>2 DEF Interprets, Next
<1>3. ASSUME NEW n \in Nodes, Work(n) PROVE [Next]_vars
  <2>1. ActionReturns(n) \/ UNCHANGED vars
    BY <1>3, WorkIsNext
  <2> QED
    BY <2>1 DEF Next, Resume
<1>4. ASSUME NEW n \in Nodes, NEW k \in DOMAIN work[n], OnThread(n, k) PROVE [Next]_vars
  BY <1>4 DEF OnThread, Fronts, Lands
<1>5. CASE UNCHANGED avars
  BY <1>5 DEF avars
<1> QED
  BY <1>1, <1>2, <1>3, <1>4, <1>5 DEF ActionsNext

LEMMA RunsHold ==
  /\ ActionsInit => TreeInv /\ LockInv
  /\ TreeInv /\ LockInv /\ [ActionsNext]_avars => TreeInv' /\ LockInv' /\ [Next]_vars
<1>1. ActionsInit => TreeInv /\ LockInv
  BY TreeInit, LockInit DEF ActionsInit
<1>2. TreeInv /\ LockInv /\ [ActionsNext]_avars => TreeInv' /\ LockInv' /\ [Next]_vars
  BY StepIsNext, TreeNext, LockNext
<1> QED
  BY <1>1, <1>2

(* Whatever the actions of the library do, the run is one that Workflow    *)
(* allows: they implement what the interpreter takes for an action.        *)
THEOREM ActionsRefineWorkflow == ActionsSpec => Spec
<1>1. ActionsInit => Init
  BY DEF ActionsInit
<1> QED
  BY <1>1, RunsHold, PTL DEF ActionsSpec, Spec

(* So no future, lock or timeout is lost in them either.                   *)
THEOREM ActionsKeepTheRun ==
  ActionsSpec => [](NothingOutlivesItsRun /\ ConcurrentOnlyInParallel /\ GuardsAreLive
                    /\ DevicesExclusive /\ TimeoutsAreNotHidden)
BY ActionsRefineWorkflow, RunsEndWhole, BranchesOnly, NoLockLeftBehind, OneAtADevice, TimeoutsShow, PTL

-----------------------------------------------------------------------------
(* What the interpreter does to an action.                                 *)

Interpreted(m) == Enter(m) \/ Resume(m) \/ Elapses(m) \/ Panics(m)

\* The ways a step of node m may change where the action x is.
Moved(m, x) ==
  \/ at'[x] = at[x]
  \/ /\ RunOf[x] = RunOf[m] /\ at'[x] \in {"called", "idle", "panicked"}
     /\ at[x] = "executing" => Elapses(m) \/ Panics(m)
  \/ x = m /\ at[x] = "called" /\ at'[x] \in {"Stop", "Failed", "acquiring"}
  \/ x = m /\ at[x] = "called" /\ at'[x] = "Continue" /\ RunOf[x] \in DryRuns
  \/ x = m /\ at[x] = "acquiring" /\ at'[x] = "executing"
  \/ x = m /\ at[x] = "executing"

LEMMA EnterMoves ==
  ASSUME TreeInv, NEW m \in Nodes, Enter(m), NEW x \in Nodes, Kind[x] = "Action"
  PROVE  Moved(m, x)
<1> USE DEF Moved, Enters
<1>0. at \in [Nodes -> Place] /\ \A c \in Children(m) : RunOf[c] = RunOf[m]
  BY ChildBelow DEF TreeInv, TypeOK
<1>1. at[m] = "called"
  BY DEF Enter, BailOut, EnterAction, EnterSeq, EnterParallel, EnterIf, EnterTimeout,
         EnterLoop, EnterWait
<1>2. \A c \in Children(m) : at[c] = "idle"
  BY <1>1, ChildBelow DEF TreeInv, QuietBelow
<1>3. CASE BailOut(m)
  BY <1>0, <1>3 DEF BailOut
<1>4. CASE EnterAction(m)
  BY <1>0, <1>4 DEF EnterAction
<1>5. CASE EnterSeq(m)
  <2>1. CASE Kids[m] = <<>>
    BY <1>0, <1>5, <2>1 DEF EnterSeq
  <2>2. CASE Kids[m] # <<>>
    <3>1. Kids[m] \in Seq(Nodes)
      BY WorkflowAssumption
    <3>2. Kids[m][1] \in Children(m)
      BY <2>2, <3>1, KidIsChild
    <3> QED
      BY <1>0, <1>2, <1>5, <2>2, <3>2 DEF EnterSeq, Call
  <2> QED
    BY <2>1, <2>2
<1>6. CASE EnterParallel(m)
  BY <1>0, <1>2, <1>6 DEF EnterParallel
<1>7. CASE EnterIf(m)
  <2>1. Kids[m][1] \in Children(m) /\ (Len(Kids[m]) = 2 => Kids[m][2] \in Children(m))
    BY <1>7, FirstKid DEF EnterIf
  <2> QED
    BY <1>0, <1>2, <1>7, <2>1 DEF EnterIf, Call
<1>8. CASE EnterTimeout(m)
  <2>1. Kids[m][1] \in Children(m)
    BY <1>8, FirstKid DEF EnterTimeout
  <2> QED
    BY <1>0, <1>2, <1>8, <2>1 DEF EnterTimeout, Call
<1>9. CASE EnterLoop(m)
  BY <1>0, <1>9 DEF EnterLoop, Loops
<1>10. CASE EnterWait(m)
  BY <1>0, <1>10 DEF EnterWait
<1> QED
  BY <1>3, <1>4, <1>5, <1>6, <1>7, <1>8, <1>9, <1>10 DEF Enter

LEMMA ResumeMoves ==
  ASSUME TreeInv, NEW m \in Nodes, Resume(m), NEW x \in Nodes, Kind[x] = "Action"
  PROVE  Moved(m, x)
<1> USE DEF Moved, Leave
<1>0. at \in [Nodes -> Place] /\ \A c \in Children(m) : RunOf[c] = RunOf[m]
  BY ChildBelow DEF TreeInv, TypeOK
<1>1. at[m] = "turning" => \A c \in Children(m) : at[c] = "idle"
  BY ChildBelow DEF TreeInv, QuietBelow
<1>2. CASE Awake(m)
  BY <1>0, <1>2 DEF Awake
<1>3. CASE SeqStep(m)
  <2> DEFINE c == Kids[m][pos[m]]
  <2>1. c \in Children(m) /\ pos[m] \in DOMAIN Kids[m] /\ Kids[m] \in Seq(Nodes)
    BY <1>3, KidIsChild, WorkflowAssumption DEF SeqStep, TreeInv, SeqInRange
  <2>2. CASE at[c] = "Continue" /\ pos[m] < Len(Kids[m])
    <3> DEFINE d == Kids[m][pos[m] + 1]
    <3>1. pos[m] + 1 \in DOMAIN Kids[m]
      BY <2>1, <2>2
    <3>2. d \in Children(m) /\ d \in Below[m]
      BY <3>1, KidIsChild, ChildBelow
    <3>3. at[d] # "idle" => d = c
      BY <1>3, <2>1, <3>2, OnlyChild DEF TreeInv, SeqStep
    <3>4. at' = [at EXCEPT ![c] = "idle", ![d] = "called"] /\ at[c] = "Continue"
      BY <1>3, <2>2 DEF SeqStep
    <3> HIDE DEF c, d
    <3> QED
      BY <1>0, <2>1, <3>2, <3>3, <3>4
  <2>3. CASE ~(at[c] = "Continue" /\ pos[m] < Len(Kids[m]))
    <3>1. at' = [at EXCEPT ![m] = at[c], ![c] = "idle"] /\ at[c] \in Flow /\ Kind[m] = "Seq"
      BY <1>3, <2>3 DEF SeqStep
    <3> HIDE DEF c
    <3> QED
      BY <1>0, <2>1, <3>1
  <2> QED
    BY <2>2, <2>3
<1>4. CASE ParallelJoins(m)
  BY <1>0, <1>4 DEF ParallelJoins
<1>5. CASE PassesOn(m)
  BY <1>0, <1>5 DEF PassesOn
<1>6. CASE LoopTurn(m)
  <2>1. Kids[m][1] \in Children(m)
    BY <1>6, FirstKid DEF LoopTurn, Loops
  <2> QED
    BY <1>0, <1>1, <1>6, <2>1 DEF LoopTurn, Call
<1>7. CASE LoopBodyReturns(m)
  <2>1. Kids[m][1] \in Children(m)
    BY <1>7, FirstKid DEF LoopBodyReturns, Loops
  <2> QED
    BY <1>0, <1>7, <2>1 DEF LoopBodyReturns
<1>8. CASE RetryTurn(m)
  <2>1. Kids[m][1] \in Children(m)
    BY <1>8, FirstKid DEF RetryTurn, Loops
  <2> QED
    BY <1>0, <1>1, <1>8, <2>1 DEF RetryTurn, Call
<1>9. CASE RetryBodyReturns(m)
  <2>1. Kids[m][1] \in Children(m)
    BY <1>9, FirstKid DEF RetryBodyReturns, Loops
  <2> QED
    BY <1>0, <1>9, <2>1 DEF RetryBodyReturns
<1>10. CASE Acquire(m)
  BY <1>10 DEF Acquire
<1>11. CASE Execute(m)
  BY <1>0, <1>11 DEF Execute
<1>12. CASE ActionReturns(m)
  BY <1>0, <1>12 DEF ActionReturns
<1> QED
  BY <1>2, <1>3, <1>4, <1>5, <1>6, <1>7, <1>8, <1>9, <1>10, <1>11, <1>12 DEF Resume

(* A step of a node moves an action of its own run only, and an action     *)
(* that executes is ended by itself, by a timeout or by a panic.           *)
LEMMA ActionMoves ==
  ASSUME TreeInv, NEW m \in Nodes, Interpreted(m), NEW x \in Nodes, Kind[x] = "Action"
  PROVE  Moved(m, x)
<1>0. at \in [Nodes -> Place] /\ \A c \in Below[m] : RunOf[c] = RunOf[m]
  BY BelowFacts DEF TreeInv, TypeOK
<1>1. CASE Enter(m)
  BY <1>1, EnterMoves
<1>2. CASE Resume(m)
  BY <1>2, ResumeMoves
<1>3. CASE Elapses(m)
  BY <1>0, <1>3 DEF Elapses, Dropped, Moved
<1>4. CASE Panics(m)
  <2>1. RunOf[m] \in Roots /\ RunOf[RunOf[m]] = RunOf[m]
    BY WorkflowAssumption, RootFacts
  <2> QED
    BY <1>0, <1>4, <2>1 DEF Panics, Moved
<1> QED
  BY <1>1, <1>2, <1>3, <1>4 DEF Interpreted

-----------------------------------------------------------------------------
(* Types and bounds of the work.                                           *)

Operation == [on : DOMAIN Backends, is : Fate]

\* Only what executes has made steps, and not more than its work has.
Paced ==
  \A n \in Nodes :
    /\ at[n] # "executing" => step[n] = 0
    /\ Job[n] = "script" => step[n] <= 2 * Len(Body[n])
    /\ Job[n] = "interact" => step[n] <= Len(Backends) + 1

DataInv == ActionsTypeOK /\ Paced

LEMMA BodyFacts ==
  ASSUME NEW n \in Nodes
  PROVE  /\ Job[n] \in {"script", "set"} => Body[n] \in Seq(Keys) /\ Len(Body[n]) \in Nat
         /\ Job[n] = "type" => Body[n] \in Seq(Nat) /\ Len(Body[n]) \in Nat
         /\ Len(Backends) \in Nat /\ DOMAIN Backends = 1..Len(Backends)
         /\ \A i \in DOMAIN Backends : Backends[i].tier \in {1, 2}
         /\ Job[n] # "plain" => Kind[n] = "Action" /\ Claims[n] = <<>>
         /\ Job[n] \in {"script", "set", "type", "interact", "plain"}
<1>1. /\ Job[n] \in {"script", "set"} => Body[n] \in Seq(Keys)
      /\ Job[n] = "type" => Body[n] \in Seq(Nat)
      /\ Job[n] # "plain" => Kind[n] = "Action" /\ Claims[n] = <<>>
  BY ActionsAssumption
<1>2. Job[n] \in {"script", "set", "type", "interact", "plain"}
  BY ActionsAssumption DEF Synchronous
<1>3. Backends \in Seq([tier : {1, 2}, ops : SUBSET Operations])
  BY ActionsAssumption
<1>4. \A i \in DOMAIN Backends : Backends[i].tier \in {1, 2}
  <2> TAKE i \in DOMAIN Backends
  <2> DEFINE R == [tier : {1, 2}, ops : SUBSET Operations]
  <2>1. ASSUME NEW S, NEW s \in Seq(S), NEW j \in DOMAIN s PROVE s[j] \in S
    BY <2>1
  <2>2. Backends[i] \in R
    BY <1>3, <2>1
  <2> QED
    BY <2>2
<1> QED
  BY <1>1, <1>2, <1>3, <1>4

\* An action that goes on, and one that returns, as the data see it.
LEMMA GoesOn ==
  ASSUME TreeInv, DataInv, NEW n \in Nodes, at[n] = "executing", Goes(n),
         Job[n] = "script" => step[n] < 2 * Len(Body[n]),
         Job[n] = "interact" => step[n] < Len(Backends) + 1
  PROVE  step' \in [Nodes -> Nat] /\ Paced'
<1>1. step \in [Nodes -> Nat] /\ step' = [step EXCEPT ![n] = @ + 1] /\ at' = at
  BY DEF DataInv, ActionsTypeOK, Goes, vars
<1>2. step' \in [Nodes -> Nat]
  BY <1>1
<1>3. ASSUME NEW m \in Nodes
      PROVE  /\ at'[m] # "executing" => step'[m] = 0
             /\ Job[m] = "script" => step'[m] <= 2 * Len(Body[m])
             /\ Job[m] = "interact" => step'[m] <= Len(Backends) + 1
  <2>1. CASE m = n
    BY <1>1, <2>1, BodyFacts
  <2>2. CASE m # n
    BY <1>1, <2>2 DEF DataInv, Paced
  <2> QED
    BY <2>1, <2>2
<1> QED
  BY <1>2, <1>3 DEF Paced

LEMMA GoesAway ==
  ASSUME TreeInv, DataInv, NEW n \in Nodes, NEW f \in Flow, Returns(n, f)
  PROVE  step' \in [Nodes -> Nat] /\ found' \in [Nodes -> SUBSET DOMAIN Backends] /\ Paced'
<1>1. /\ step \in [Nodes -> Nat] /\ step' = [step EXCEPT ![n] = 0]
      /\ at \in [Nodes -> Place] /\ at' = [at EXCEPT ![n] = f] /\ f # "executing"
  BY DEF DataInv, ActionsTypeOK, Returns, TreeInv, TypeOK
<1>2. step' \in [Nodes -> Nat] /\ found' \in [Nodes -> SUBSET DOMAIN Backends]
  BY <1>1 DEF DataInv, ActionsTypeOK, Returns
<1>3. ASSUME NEW m \in Nodes
      PROVE  /\ at'[m] # "executing" => step'[m] = 0
             /\ Job[m] = "script" => step'[m] <= 2 * Len(Body[m])
             /\ Job[m] = "interact" => step'[m] <= Len(Backends) + 1
  <2>1. CASE m = n
    BY <1>1, <2>1, BodyFacts
  <2>2. CASE m # n
    BY <1>1, <2>2 DEF DataInv, Paced
  <2> QED
    BY <2>1, <2>2
<1> QED
  BY <1>2, <1>3 DEF Paced

LEMMA DataInit == ActionsInit => DataInv
<1> SUFFICES ASSUME ActionsInit PROVE DataInv
  OBVIOUS
<1>1. ActionsTypeOK
  BY DEF ActionsInit, ActionsTypeOK
<1>2. Paced
  BY BodyFacts DEF ActionsInit, Paced
<1> QED
  BY <1>1, <1>2 DEF DataInv

LEMMA WorkTyped ==
  ASSUME TreeInv, DataInv, NEW n \in Nodes, Work(n)
  PROVE  DataInv'
<1> USE DEF Works
<1>0. ActionsTypeOK /\ at[n] \in Place
  BY DEF DataInv, TreeInv, TypeOK
<1>1. CASE ScriptRuns(n)
  <2>1. step' \in [Nodes -> Nat] /\ found' \in [Nodes -> SUBSET DOMAIN Backends] /\ Paced'
    <3>1. CASE step[n] < Len(Body[n]) /\ Goes(n) /\ UNCHANGED found
      <4>1. step[n] < 2 * Len(Body[n])
        BY <1>0, <1>1, <3>1, BodyFacts DEF ScriptRuns, ActionsTypeOK
      <4> QED
        BY <1>0, <1>1, <3>1, <4>1, GoesOn DEF ScriptRuns, ActionsTypeOK
    <3>2. CASE Returns(n, "Failed")
      BY <3>2, GoesAway
    <3> QED
      BY <1>1, <3>1, <3>2 DEF ScriptRuns
  <2> QED
    BY <1>0, <1>1, <2>1 DEF ScriptRuns, DataInv, ActionsTypeOK
<1>2. CASE ScriptFlushes(n)
  <2>1. PICK i \in {step[n] + 1 - Len(Body[n])} :
          /\ i \in DOMAIN Body[n]
          /\ store' = [store EXCEPT ![Body[n][i]] = n]
          /\ wrote' = [wrote EXCEPT ![n] = @ \union {Body[n][i]}]
    BY <1>2 DEF ScriptFlushes
  <2>2. Body[n] \in Seq(Keys) /\ Len(Body[n]) \in Nat /\ i \in 1..Len(Body[n]) /\ step[n] \in Nat
    BY <1>0, <1>2, <2>1, BodyFacts DEF ScriptFlushes, ActionsTypeOK
  <2>3. step[n] < 2 * Len(Body[n]) /\ Body[n][i] \in Keys
    BY <2>1, <2>2
  <2>4. step' \in [Nodes -> Nat] /\ Paced'
    BY <1>2, <2>3, GoesOn DEF ScriptFlushes
  <2>5. store' \in [Keys -> Nodes \union {Nobody}] /\ wrote' \in [Nodes -> SUBSET Keys]
    BY <1>0, <2>1, <2>3 DEF ActionsTypeOK
  <2> QED
    BY <1>0, <1>2, <2>4, <2>5 DEF ScriptFlushes, DataInv, ActionsTypeOK
<1>3. CASE ScriptEnds(n)
  <2>1. step' \in [Nodes -> Nat] /\ found' \in [Nodes -> SUBSET DOMAIN Backends] /\ Paced'
    BY <1>3, GoesAway DEF ScriptEnds
  <2> QED
    BY <1>0, <1>3, <2>1 DEF ScriptEnds, DataInv, ActionsTypeOK
<1>4. CASE SetsVariable(n)
  <2>1. step' \in [Nodes -> Nat] /\ found' \in [Nodes -> SUBSET DOMAIN Backends] /\ Paced'
    BY <1>4, GoesAway DEF SetsVariable
  <2>2. Body[n][1] \in Keys
    <3>1. Body[n] \in Seq(Keys) /\ Len(Body[n]) = 1
      BY <1>4, ActionsAssumption DEF SetsVariable
    <3> QED
      BY <3>1
  <2> QED
    BY <1>0, <1>4, <2>1, <2>2 DEF SetsVariable, DataInv, ActionsTypeOK
<1>5. CASE Types(n)
  <2>1. step' \in [Nodes -> Nat] /\ Paced'
    BY <1>5, GoesOn DEF Types
  <2>2. lastTyper' = n /\ torn' \in {torn, torn \union {<<n, lastTyper>>}}
    BY <1>5 DEF Types
  <2>3. torn' \subseteq Nodes \X (Nodes \union {Nobody})
    BY <1>0, <2>2 DEF ActionsTypeOK
  <2>4. /\ lastTyper' \in Nodes \union {Nobody}
        /\ UNCHANGED <<store, wrote, found, work, focus, astray>>
    BY <1>5, <2>2 DEF Types
  <2> QED
    BY <1>0, <2>1, <2>3, <2>4 DEF DataInv, ActionsTypeOK
<1>6. CASE TypingEnds(n)
  <2>1. step' \in [Nodes -> Nat] /\ found' \in [Nodes -> SUBSET DOMAIN Backends] /\ Paced'
    BY <1>6, GoesAway DEF TypingEnds
  <2> QED
    BY <1>0, <1>6, <2>1 DEF TypingEnds, DataInv, ActionsTypeOK
<1>7. CASE Asks(n)
  <2>1. step[n] < Len(Backends) /\ step[n] \in Nat /\ step[n] + 1 \in DOMAIN Backends
    BY <1>0, <1>7, BodyFacts DEF Asks, ActionsTypeOK
  <2>2. step' \in [Nodes -> Nat] /\ Paced'
    <3>1. step[n] < Len(Backends) + 1
      BY <2>1, BodyFacts
    <3> QED
      BY <1>7, <3>1, GoesOn DEF Asks
  <2>3. found' \in [Nodes -> SUBSET DOMAIN Backends]
    <3>1. found \in [Nodes -> SUBSET DOMAIN Backends]
      BY <1>0 DEF ActionsTypeOK
    <3>2. found' = found \/ found' = [found EXCEPT ![n] = @ \union {step[n] + 1}]
      BY <1>7 DEF Asks
    <3> QED
      BY <2>1, <3>1, <3>2
  <2> QED
    BY <1>0, <1>7, <2>2, <2>3 DEF Asks, DataInv, ActionsTypeOK
<1>8. CASE NoBackend(n)
  <2>1. step' \in [Nodes -> Nat] /\ found' \in [Nodes -> SUBSET DOMAIN Backends] /\ Paced'
    BY <1>8, GoesAway DEF NoBackend
  <2> QED
    BY <1>0, <1>8, <2>1 DEF NoBackend, DataInv, ActionsTypeOK
<1>9. CASE Submits(n)
  <2>1. step' \in [Nodes -> Nat] /\ Paced'
    <3>1. step[n] < Len(Backends) + 1
      BY <1>9, BodyFacts DEF Submits
    <3> QED
      BY <1>9, <3>1, GoesOn DEF Submits
  <2>2. PICK i \in Chosen(n) : work' = [work EXCEPT ![n] = Append(@, [on |-> i, is |-> "given"])]
    BY <1>9 DEF Submits
  <2>3. i \in DOMAIN Backends
    BY <1>0, <2>2 DEF Chosen, Best, ActionsTypeOK
  <2>4. [on |-> i, is |-> "given"] \in Operation
    BY <2>3 DEF Operation, Fate, UnderWay
  <2>5. work' \in [Nodes -> Seq(Operation)]
    <3>1. work \in [Nodes -> Seq(Operation)]
      BY <1>0 DEF ActionsTypeOK, Operation
    <3>2. Append(work[n], [on |-> i, is |-> "given"]) \in Seq(Operation)
      BY <2>4, <3>1
    <3> QED
      BY <2>2, <3>1, <3>2
  <2> QED
    BY <1>0, <1>9, <2>1, <2>5 DEF Submits, DataInv, ActionsTypeOK, Operation
<1>10. CASE Answers(n)
  <2>1. step' \in [Nodes -> Nat] /\ found' \in [Nodes -> SUBSET DOMAIN Backends] /\ Paced'
    BY <1>10, GoesAway DEF Answers
  <2> QED
    BY <1>0, <1>10, <2>1 DEF Answers, DataInv, ActionsTypeOK
<1> QED
  BY <1>1, <1>2, <1>3, <1>4, <1>5, <1>6, <1>7, <1>8, <1>9, <1>10 DEF Work

LEMMA InterpretsTyped ==
  ASSUME DataInv, NEW n \in Nodes, Interprets(n)
  PROVE  DataInv'
<1>0. ActionsTypeOK
  BY DEF DataInv
<1>1. /\ step' = [m \in Nodes |-> IF at'[m] = "executing" THEN step[m] ELSE 0]
      /\ found' = [m \in Nodes |-> IF at'[m] = "executing" THEN found[m] ELSE {}]
      /\ wrote' = [m \in Nodes |-> IF at'[m] = "called" THEN {} ELSE wrote[m]]
      /\ UNCHANGED <<store, input, work>>
  BY DEF Interprets, Recalled
<1>2. ActionsTypeOK'
  BY <1>0, <1>1 DEF ActionsTypeOK
<1>3. Paced'
  <2> SUFFICES ASSUME NEW m \in Nodes
               PROVE  /\ at'[m] # "executing" => step'[m] = 0
                      /\ Job[m] = "script" => step'[m] <= 2 * Len(Body[m])
                      /\ Job[m] = "interact" => step'[m] <= Len(Backends) + 1
    BY DEF Paced
  <2>1. CASE at'[m] = "executing"
    BY <1>1, <2>1 DEF DataInv, Paced
  <2>2. CASE at'[m] # "executing"
    BY <1>1, <2>2, BodyFacts
  <2> QED
    BY <2>1, <2>2
<1> QED
  BY <1>2, <1>3 DEF DataInv

\* What becomes of one operation.
LEMMA ThreadFacts ==
  ASSUME ActionsTypeOK, NEW n \in Nodes, NEW k \in DOMAIN work[n], OnThread(n, k)
  PROVE  /\ work' \in [Nodes -> Seq(Operation)]
         /\ \A m \in Nodes : Len(work'[m]) = Len(work[m]) /\ DOMAIN work'[m] = DOMAIN work[m]
         /\ \A m \in Nodes : \A j \in DOMAIN work[m] :
              /\ work'[m][j].on = work[m][j].on
              /\ work'[m][j].is \in UnderWay => work[m][j].is \in UnderWay
              /\ work'[m][j].is \notin Errors => work[m][j].is \notin Errors
         /\ \A m \in Nodes : m # n => work'[m] = work[m]
<1>0. work \in [Nodes -> Seq(Operation)]
  BY DEF ActionsTypeOK, Operation
<1>1. work[n][k].is \in UnderWay /\ \E r \in Fate : work' = [work EXCEPT ![n][k].is = r]
  BY DEF OnThread, Fronts, Lands, UnderWay, Errors, Fate
<1>2. PICK r \in Fate : work' = [work EXCEPT ![n][k].is = r]
  BY <1>1
<1> DEFINE o == [work[n][k] EXCEPT !.is = r]
           w == [work[n] EXCEPT ![k] = o]
<1>3. work[n] \in Seq(Operation) /\ work[n][k] \in Operation
  BY <1>0
<1>4. o \in Operation /\ o.on = work[n][k].on
  BY <1>3 DEF Operation
<1>5. work' = [work EXCEPT ![n] = w]
  BY <1>0, <1>2
<1> HIDE DEF o
<1>6. w \in Seq(Operation) /\ Len(w) = Len(work[n]) /\ DOMAIN w = DOMAIN work[n]
  BY <1>3, <1>4
<1>7. work[n][k].is \notin Errors
  BY <1>1 DEF UnderWay, Errors
<1>8. \A j \in DOMAIN work[n] : /\ w[j].on = work[n][j].on
                                /\ w[j].is \in UnderWay => work[n][j].is \in UnderWay
                                /\ w[j].is \notin Errors => work[n][j].is \notin Errors
  BY <1>1, <1>3, <1>4, <1>7
<1> HIDE DEF w
<1> QED
  BY <1>0, <1>5, <1>6, <1>8

LEMMA DataNext == TreeInv /\ DataInv /\ [ActionsNext]_avars => DataInv'
<1> SUFFICES ASSUME TreeInv, DataInv, [ActionsNext]_avars PROVE DataInv'
  OBVIOUS
<1>1. ASSUME NEW r \in Roots, Start(r) \/ Cancel(r), Recalled,
             UNCHANGED <<step, store, input, found, work>>
      PROVE  DataInv'
  <2>1. \A m \in Nodes : at'[m] # "executing" => at[m] # "executing"
    BY <1>1 DEF Start, Cancel, TreeInv, TypeOK
  <2> QED
    BY <1>1, <2>1 DEF Recalled, DataInv, ActionsTypeOK, Paced
<1>2. ASSUME NEW n \in Nodes, Interprets(n) PROVE DataInv'
  BY <1>2, InterpretsTyped
<1>3. ASSUME NEW n \in Nodes, Work(n) PROVE DataInv'
  BY <1>3, WorkTyped
<1>4. ASSUME NEW n \in Nodes, NEW k \in DOMAIN work[n], OnThread(n, k) PROVE DataInv'
  <2>1. /\ UNCHANGED <<vars, step, store, wrote, torn, found>>
        /\ lastTyper' \in {lastTyper, n} /\ focus' \in {focus, n}
        /\ astray' \in {astray, astray \union {<<n, focus>>}}
    BY <1>4 DEF OnThread, Fronts, Lands
  <2>2. work' \in [Nodes -> Seq(Operation)]
    BY <1>4, ThreadFacts DEF DataInv
  <2>3. astray' \subseteq Nodes \X (Nodes \union {Nobody})
    BY <2>1 DEF DataInv, ActionsTypeOK
  <2> QED
    BY <2>1, <2>2, <2>3 DEF DataInv, ActionsTypeOK, Paced, vars, Operation
<1>5. CASE UNCHANGED avars
  BY <1>5 DEF avars, vars, data, DataInv, ActionsTypeOK, Paced
<1> QED
  BY <1>1, <1>2, <1>3, <1>4, <1>5 DEF ActionsNext

LEMMA DataHolds == ActionsSpec => [](TreeInv /\ LockInv /\ DataInv)
BY RunsHold, DataInit, DataNext, PTL DEF ActionsSpec

(* The variables that the actions add are always of their types.           *)
THEOREM ActionsTypeCorrect == ActionsSpec => []ActionsTypeOK
<1>1. DataInv => ActionsTypeOK
  BY DEF DataInv
<1> QED
  BY <1>1, DataHolds, PTL

-----------------------------------------------------------------------------
(* One at a time: an action that does not await has its run for itself.    *)

OneBusy ==
  \A m, n \in Nodes :
    (/\ RunOf[m] = RunOf[n] /\ at[m] = "executing" /\ at[n] = "executing"
     /\ Job[m] \in Synchronous /\ Job[n] \in Synchronous) => m = n

\* What leaves every action where it is, or takes it out of execution.
Calms == \A n \in Nodes : at'[n] = "executing" => at[n] = "executing"

LEMMA CalmSteps ==
  ASSUME TreeInv, [ActionsNext]_avars
  PROVE  Calms \/ \E n \in Nodes : Interprets(n)
<1> USE DEF Calms, TreeInv, TypeOK
<1>1. ASSUME NEW r \in Roots, Start(r) \/ Cancel(r) PROVE Calms
  BY <1>1 DEF Start, Cancel
<1>2. ASSUME NEW n \in Nodes, Work(n) PROVE Calms
  BY <1>2 DEF Work, ScriptRuns, ScriptFlushes, ScriptEnds, SetsVariable, Types, TypingEnds,
     Asks, NoBackend, Submits, Answers, Goes, Returns, vars
<1>3. ASSUME NEW n \in Nodes, NEW k \in DOMAIN work[n], OnThread(n, k) PROVE Calms
  BY <1>3 DEF OnThread, Fronts, Lands, vars
<1>4. CASE UNCHANGED avars
  BY <1>4 DEF avars, vars
<1> QED
  BY <1>1, <1>2, <1>3, <1>4 DEF ActionsNext

\* What Interprets means for an action of the library.
LEMMA LibraryMoves ==
  ASSUME TreeInv, NEW m \in Nodes, Interprets(m), NEW x \in Nodes, Job[x] # "plain"
  PROVE  \/ at'[x] = at[x]
         \/ RunOf[x] = RunOf[m] /\ at'[x] \in {"called", "idle", "panicked"}
            /\ (at[x] = "executing" => (Elapses(m) \/ Panics(m)) /\ Job[x] \notin Synchronous)
         \/ x = m /\ at[x] = "called" /\ at'[x] \in {"Stop", "Failed", "acquiring"}
         \/ x = m /\ at[x] = "called" /\ at'[x] = "Continue" /\ RunOf[x] \in DryRuns
         \/ x = m /\ at[x] = "acquiring" /\ at'[x] = "executing"
<1>1. Moved(m, x)
  BY ActionMoves, BodyFacts DEF Interprets, Interpreted
<1>2. ~(x = m /\ at[x] = "executing")
  BY DEF Interprets
<1>3. RunOf[x] = RunOf[m] => ~(at[x] = "executing" /\ Job[x] \in Synchronous)
  BY DEF Interprets, Busy
<1> QED
  BY <1>1, <1>2, <1>3 DEF Moved

LEMMA OneBusyNext == TreeInv /\ OneBusy /\ [ActionsNext]_avars => OneBusy'
<1> SUFFICES ASSUME TreeInv, OneBusy, [ActionsNext]_avars,
                    NEW m \in Nodes, NEW n \in Nodes, RunOf[m] = RunOf[n],
                    at'[m] = "executing", at'[n] = "executing",
                    Job[m] \in Synchronous, Job[n] \in Synchronous
             PROVE  m = n
  BY DEF OneBusy
<1>1. CASE Calms
  BY <1>1 DEF Calms, OneBusy
<1>2. ASSUME NEW k \in Nodes, Interprets(k) PROVE m = n
  <2>1. Job[m] # "plain" /\ Job[n] # "plain"
    BY DEF Synchronous
  <2>2. \A x \in {m, n} : at[x] # "executing" => x = k
    BY <1>2, <2>1, LibraryMoves
  <2>3. \A x \in {m, n} : at[x] = "executing" => RunOf[x] # RunOf[k]
    BY <1>2 DEF Interprets, Busy
  <2> QED
    BY <2>2, <2>3 DEF OneBusy
<1> QED
  BY <1>1, <1>2, CalmSteps

LEMMA OneBusyHolds == ActionsSpec => [](TreeInv /\ DataInv /\ OneBusy)
<1>1. ActionsInit => OneBusy
  BY DEF ActionsInit, Init, OneBusy
<1> QED
  BY <1>1, OneBusyNext, DataHolds, PTL DEF ActionsSpec

-----------------------------------------------------------------------------
(* Permissions.                                                            *)

\* What is past the gate has its permissions, which nothing takes away.
Gated ==
  \A n \in Nodes : (Job[n] # "plain" /\ at[n] \in {"acquiring", "executing"}) =>
                     Required(n) \subseteq Granted[RunOf[n]]

LEMMA GatedNext == TreeInv /\ Gated /\ [ActionsNext]_avars => Gated'
<1> SUFFICES ASSUME TreeInv, Gated, [ActionsNext]_avars, NEW x \in Nodes,
                    Job[x] # "plain", at'[x] \in {"acquiring", "executing"}
             PROVE  Required(x)' \subseteq Granted[RunOf[x]]
  BY DEF Gated, Required
<1>0. at \in [Nodes -> Place] /\ Required(x)' = Required(x)
  BY DEF TreeInv, TypeOK, Required
<1>1. ASSUME NEW r \in Roots, Start(r) \/ Cancel(r) PROVE at[x] = at'[x]
  BY <1>0, <1>1 DEF Start, Cancel
<1>2. ASSUME NEW n \in Nodes, Interprets(n)
      PROVE  \/ at[x] \in {"acquiring", "executing"}
             \/ Required(x) \subseteq Granted[RunOf[x]]
  <2>1. CASE x = n /\ at[x] = "called"
    <3>1. at'[x] = "acquiring"
      BY <1>2, <2>1, LibraryMoves
    <3>2. \A p \in Required(x) : p \in Granted[RunOf[x]]
      BY <1>2, <2>1, <3>1 DEF Interprets, Gate, Allows
    <3> QED
      BY <3>2
  <2>2. CASE ~(x = n /\ at[x] = "called")
    BY <1>2, <2>2, LibraryMoves
  <2> QED
    BY <2>1, <2>2
<1>3. ASSUME NEW n \in Nodes, Work(n) PROVE at[x] \in {"acquiring", "executing"}
  BY <1>0, <1>3 DEF Work, ScriptRuns, ScriptFlushes, ScriptEnds, SetsVariable, Types, TypingEnds,
     Asks, NoBackend, Submits, Answers, Goes, Returns, vars
<1>4. ASSUME NEW n \in Nodes, NEW k \in DOMAIN work[n], OnThread(n, k) PROVE at[x] = at'[x]
  BY <1>4 DEF OnThread, Fronts, Lands, vars
<1>5. CASE UNCHANGED avars
  BY <1>0, <1>5 DEF avars, vars, Gated
<1> QED
  BY <1>0, <1>1, <1>2, <1>3, <1>4, <1>5 DEF ActionsNext, Gated

LEMMA GatedHolds == ActionsSpec => [](TreeInv /\ DataInv /\ Gated)
<1>1. ActionsInit => Gated
  BY DEF ActionsInit, Init, Gated
<1> QED
  BY <1>1, DataHolds, GatedNext, PTL DEF ActionsSpec

-----------------------------------------------------------------------------
(* Scripts.                                                                *)

Writes(n)     == {Body[n][i] : i \in DOMAIN Body[n]}
Flushed(n, s) == {Body[n][i] : i \in {j \in DOMAIN Body[n] : j <= s - Len(Body[n])}}

\* A script has written as much as it has flushed, and afterwards all or nothing.
WritesInSteps ==
  \A n \in Nodes : Job[n] = "script" =>
    /\ at[n] = "executing" => wrote[n] = Flushed(n, step[n])
    /\ at[n] \in {"called", "acquiring", "Failed"} => wrote[n] = {}
    /\ (at[n] = "Continue" /\ RunOf[n] \notin DryRuns) => wrote[n] = Writes(n)
    /\ at[n] # "executing" => wrote[n] \in {{}, Writes(n)}

LEMMA FlushedFacts ==
  ASSUME NEW n \in Nodes, Job[n] = "script", NEW s \in Nat
  PROVE  /\ s <= Len(Body[n]) => Flushed(n, s) = {}
         /\ s = 2 * Len(Body[n]) => Flushed(n, s) = Writes(n)
         /\ s < Len(Body[n]) => Flushed(n, s + 1) = {}
         /\ \A i \in DOMAIN Body[n] : i = s + 1 - Len(Body[n]) =>
              Flushed(n, s + 1) = Flushed(n, s) \union {Body[n][i]}
<1> DEFINE L == Len(Body[n])
           To(k) == {j \in 1..L : j <= k}
<1>1. L \in Nat /\ DOMAIN Body[n] = 1..L
  BY BodyFacts
<1> HIDE DEF L
<1>2. s <= L => To(s - L) = {}
  BY <1>1
<1>3. s = 2 * L => To(s - L) = 1..L
  <2>1. s = 2 * L => s - L = L
    BY <1>1
  <2> QED
    BY <1>1, <2>1
<1>4. s < L => To(s + 1 - L) = {}
  BY <1>1
<1>5. ASSUME NEW i \in 1..L, i = s + 1 - L PROVE To(s + 1 - L) = To(s - L) \union {i}
  <2>1. i - 1 = s - L /\ i \in Int
    BY <1>1, <1>5
  <2>2. To(i) = To(i - 1) \union {i}
    BY <1>1
  <2> QED
    BY <1>5, <2>1, <2>2
<1> DEFINE Image(S) == {Body[n][i] : i \in S}
<1>6. Flushed(n, s) = Image(To(s - L)) /\ Flushed(n, s + 1) = Image(To(s + 1 - L))
  <2>1. \A k : {j \in DOMAIN Body[n] : j <= k} = To(k)
    BY <1>1
  <2>2. /\ Flushed(n, s) = Image({j \in DOMAIN Body[n] : j <= s - L})
        /\ Flushed(n, s + 1) = Image({j \in DOMAIN Body[n] : j <= s + 1 - L})
    BY DEF Flushed, L
  <2> HIDE DEF To, Image
  <2> QED
    BY <2>1, <2>2
<1>7. Writes(n) = Image(1..L)
  BY <1>1 DEF Writes
<1>8. /\ Image({}) = {}
      /\ \A S, i : Image(S \union {i}) = Image(S) \union {Body[n][i]}
  OBVIOUS
<1> HIDE DEF To, Image
<1>9. ASSUME NEW i \in 1..L, i = s + 1 - L PROVE Flushed(n, s + 1) = Flushed(n, s) \union {Body[n][i]}
  <2>1. To(s + 1 - L) = To(s - L) \union {i}
    BY <1>5, <1>9
  <2> QED
    BY <1>6, <1>8, <2>1
<1>10. s <= L => Flushed(n, s) = {}
  BY <1>2, <1>6, <1>8
<1>11. s = 2 * L => Flushed(n, s) = Writes(n)
  BY <1>3, <1>6, <1>7
<1>12. s < L => Flushed(n, s + 1) = {}
  BY <1>4, <1>6, <1>8
<1> QED
  BY <1>1, <1>9, <1>10, <1>11, <1>12 DEF L

LEMMA WritesNext == TreeInv /\ DataInv /\ WritesInSteps /\ [ActionsNext]_avars => WritesInSteps'
<1> DEFINE Good(x) ==
      /\ at[x] = "executing" => wrote[x] = Flushed(x, step[x])
      /\ at[x] \in {"called", "acquiring", "Failed"} => wrote[x] = {}
      /\ (at[x] = "Continue" /\ RunOf[x] \notin DryRuns) => wrote[x] = Writes(x)
      /\ at[x] # "executing" => wrote[x] \in {{}, Writes(x)}
<1> SUFFICES ASSUME TreeInv, DataInv, WritesInSteps, [ActionsNext]_avars,
                    NEW x \in Nodes, Job[x] = "script"
             PROVE  Good(x)'
  BY DEF WritesInSteps, Flushed, Writes
<1>0. /\ Good(x) /\ step[x] \in Nat /\ at \in [Nodes -> Place]
      /\ at[x] # "executing" => step[x] = 0
      /\ step \in [Nodes -> Nat] /\ wrote \in [Nodes -> SUBSET Keys]
      /\ Len(Body[x]) \in Nat
  BY BodyFacts DEF WritesInSteps, DataInv, ActionsTypeOK, Paced, TreeInv, TypeOK
<1>a. Flushed(x, 0) = {} /\ Flushed(x, step[x])' = Flushed(x, step'[x]) /\ Writes(x)' = Writes(x)
  BY <1>0, FlushedFacts DEF Flushed, Writes
<1>b. CASE UNCHANGED <<at[x], step[x], wrote[x]>>
  BY <1>0, <1>a, <1>b
<1>1. ASSUME NEW r \in Roots, Start(r) \/ Cancel(r), Recalled, step' = step PROVE Good(x)'
  <2>1. CASE at'[x] = at[x]
    <3>1. wrote'[x] = wrote[x]
      BY <1>0, <1>1, <2>1 DEF Recalled
    <3> QED
      BY <1>b, <1>1, <2>1, <3>1
  <2>2. CASE at'[x] # at[x]
    <3>1. at'[x] = "called" /\ wrote'[x] = {}
      BY <1>0, <1>1, <2>2 DEF Start, Cancel, Recalled
    <3> QED
      BY <3>1
  <2> QED
    BY <2>1, <2>2
<1>2. ASSUME NEW n \in Nodes, Interprets(n) PROVE Good(x)'
  <2>1. /\ step'[x] = IF at'[x] = "executing" THEN step[x] ELSE 0
        /\ wrote'[x] = IF at'[x] = "called" THEN {} ELSE wrote[x]
    BY <1>2 DEF Interprets, Recalled
  <2>2. CASE at'[x] = at[x]
    <3>1. step'[x] = step[x] /\ wrote'[x] = wrote[x]
      BY <1>0, <2>1, <2>2
    <3> QED
      BY <1>b, <2>2, <3>1
  <2>3. CASE at'[x] # at[x]
    <3>1. Job[x] # "plain" /\ Job[x] \in Synchronous
      BY DEF Synchronous
    <3>2. \/ at[x] # "executing" /\ at'[x] \in {"called", "idle", "panicked"}
          \/ at[x] = "called" /\ at'[x] \in {"Stop", "Failed", "acquiring"}
          \/ at[x] = "called" /\ at'[x] = "Continue" /\ RunOf[x] \in DryRuns
          \/ at[x] = "acquiring" /\ at'[x] = "executing"
      BY <1>2, <2>3, <3>1, LibraryMoves
    <3> HIDE DEF Good
    <3>3. CASE at[x] # "executing" /\ at'[x] \in {"called", "idle", "panicked"}
      BY <1>0, <1>a, <2>1, <3>3 DEF Good
    <3>4. CASE at[x] = "called" /\ at'[x] \in {"Stop", "Failed", "acquiring"}
      BY <1>0, <1>a, <2>1, <3>4 DEF Good
    <3>5. CASE at[x] = "called" /\ at'[x] = "Continue" /\ RunOf[x] \in DryRuns
      BY <1>0, <1>a, <2>1, <3>5 DEF Good
    <3>6. CASE at[x] = "acquiring" /\ at'[x] = "executing"
      BY <1>0, <1>a, <2>1, <3>6 DEF Good
    <3> QED
      BY <3>2, <3>3, <3>4, <3>5, <3>6
  <2> QED
    BY <2>2, <2>3
<1>3. ASSUME NEW n \in Nodes, Work(n) PROVE Good(x)'
  <2>1. CASE n # x
    <3>1. at'[x] = at[x] /\ step'[x] = step[x] /\ wrote'[x] = wrote[x]
      BY <1>0, <1>3, <2>1 DEF Work, ScriptRuns, ScriptFlushes, ScriptEnds, SetsVariable, Types,
         TypingEnds, Asks, NoBackend, Submits, Answers, Goes, Returns, vars
    <3> QED
      BY <1>b, <3>1
  <2>2. CASE n = x
    <3>0. at[x] = "executing" /\ (ScriptRuns(x) \/ ScriptFlushes(x) \/ ScriptEnds(x))
      BY <1>3, <2>2 DEF Work, ScriptRuns, ScriptFlushes, ScriptEnds, SetsVariable, Types,
         TypingEnds, Asks, NoBackend, Submits, Answers, Works
    <3>1. CASE ScriptRuns(x)
      <4>1. step[x] \in Nat /\ step[x] <= Len(Body[x]) /\ wrote' = wrote
        BY <1>0, <3>1, BodyFacts DEF ScriptRuns
      <4>2. Flushed(x, step[x]) = {}
        BY <4>1, FlushedFacts
      <4>3. CASE step[x] < Len(Body[x]) /\ Goes(x)
        <5>1. Flushed(x, step[x] + 1) = {}
          BY <4>1, <4>3, FlushedFacts
        <5> QED
          BY <1>0, <1>a, <3>0, <4>1, <4>2, <4>3, <5>1 DEF Goes, vars
      <4>4. CASE Returns(x, "Failed")
        BY <1>0, <1>a, <3>0, <4>1, <4>2, <4>4 DEF Returns
      <4> QED
        BY <3>1, <4>3, <4>4 DEF ScriptRuns
    <3>2. CASE ScriptFlushes(x)
      <4>1. PICK i \in DOMAIN Body[x] :
              i = step[x] + 1 - Len(Body[x]) /\ wrote' = [wrote EXCEPT ![x] = @ \union {Body[x][i]}]
        BY <3>2 DEF ScriptFlushes
      <4>2. wrote'[x] = Flushed(x, step[x] + 1)
        BY <1>0, <3>0, <4>1, FlushedFacts
      <4>3. at'[x] = "executing" /\ step'[x] = step[x] + 1
        BY <1>0, <3>0, <3>2 DEF ScriptFlushes, Goes, vars
      <4> QED
        BY <1>a, <4>2, <4>3
    <3>3. CASE ScriptEnds(x)
      <4>1. step[x] = 2 * Len(Body[x]) /\ wrote' = wrote /\ at'[x] = "Continue"
        BY <1>0, <3>3 DEF ScriptEnds, Returns
      <4>2. wrote'[x] = Writes(x)
        BY <1>0, <3>0, <4>1, FlushedFacts
      <4> QED
        BY <1>a, <4>1, <4>2
    <3> QED
      BY <3>0, <3>1, <3>2, <3>3
  <2> QED
    BY <2>1, <2>2
<1>4. ASSUME NEW n \in Nodes, NEW k \in DOMAIN work[n], OnThread(n, k) PROVE Good(x)'
  BY <1>b, <1>4 DEF OnThread, Fronts, Lands, vars
<1>5. CASE UNCHANGED avars
  BY <1>b, <1>5 DEF avars, vars, data
<1> QED
  BY <1>1, <1>2, <1>3, <1>4, <1>5 DEF ActionsNext

LEMMA WritesHold == ActionsSpec => [](TreeInv /\ DataInv /\ OneBusy /\ WritesInSteps)
<1>1. ActionsInit => WritesInSteps
  BY DEF ActionsInit, Init, WritesInSteps
<1> QED
  BY <1>1, WritesNext, OneBusyHolds, PTL DEF ActionsSpec

(* A script writes everything when it returns and nothing when it fails.   *)
THEOREM ScriptsAreAtomic == ActionsSpec => []ScriptsWriteAllOrNothing
<1>1. WritesInSteps => ScriptsWriteAllOrNothing
  BY DEF WritesInSteps, ScriptsWriteAllOrNothing, Writes
<1> QED
  BY <1>1, WritesHold, PTL

-----------------------------------------------------------------------------
(* Runs do not mix their own work.                                         *)

Clear(m, n) == \A j \in wrote[m] : store[j] # n

Flushing(n) == at[n] = "executing" /\ step[n] > Len(Body[n])

Pair(m, n) ==
  m # n /\ RunOf[m] = RunOf[n] /\ Job[m] = "script" /\ Job[n] = "script"

\* Of two scripts of a run one is overwritten where both wrote, and who is flushing is not.
WritesApart ==
  \A m, n \in Nodes : Pair(m, n) =>
    /\ Clear(m, n) \/ Clear(n, m)
    /\ Flushing(m) => Clear(m, n)

\* Nothing new is written.
NoWrites ==
  /\ store' = store
  /\ \A n \in Nodes : wrote'[n] \subseteq wrote[n]
  /\ \A n \in Nodes : Job[n] = "script" /\ Flushing(n)' => Flushing(n)

LEMMA NoWritesKeep ==
  ASSUME WritesApart, NoWrites
  PROVE  WritesApart'
BY DEF WritesApart, NoWrites, Clear, Pair

LEMMA NoWritesSteps ==
  ASSUME TreeInv, DataInv, [ActionsNext]_avars
  PROVE  NoWrites \/ \E n \in Nodes : ScriptFlushes(n) \/ SetsVariable(n)
<1>0. /\ at \in [Nodes -> Place] /\ step \in [Nodes -> Nat] /\ wrote \in [Nodes -> SUBSET Keys]
      /\ \A n \in Nodes : at[n] # "executing" => step[n] = 0
      /\ \A n \in Nodes : Job[n] = "script" => Len(Body[n]) \in Nat
  BY BodyFacts DEF DataInv, ActionsTypeOK, Paced, TreeInv, TypeOK
<1>a. ASSUME \A n \in Nodes : at'[n] = "executing" => step'[n] = step[n]
      PROVE  \A n \in Nodes : Job[n] = "script" /\ Flushing(n)' => Flushing(n)
  <2> SUFFICES ASSUME NEW n \in Nodes, Job[n] = "script", at'[n] = "executing",
                      step'[n] > Len(Body[n])
               PROVE  at[n] = "executing" /\ step[n] > Len(Body[n])
    BY DEF Flushing
  <2>1. step[n] > Len(Body[n]) /\ Len(Body[n]) \in Nat /\ step[n] \in Nat
    BY <1>0, <1>a
  <2>2. step[n] # 0
    BY <2>1
  <2> QED
    BY <1>0, <2>1, <2>2
<1>1. ASSUME NEW r \in Roots, Start(r) \/ Cancel(r), Recalled,
             UNCHANGED <<step, store, input, found, work>>
      PROVE  NoWrites
  BY <1>0, <1>1, <1>a DEF NoWrites, Recalled
<1>2. ASSUME NEW n \in Nodes, Interprets(n) PROVE NoWrites
  <2>1. \A m \in Nodes : at'[m] = "executing" => step'[m] = step[m]
    BY <1>2 DEF Interprets
  <2> QED
    BY <1>0, <1>2, <1>a, <2>1 DEF Interprets, NoWrites, Recalled
<1>3. ASSUME NEW n \in Nodes, Work(n), ~ScriptFlushes(n), ~SetsVariable(n) PROVE NoWrites
  <2>1. store' = store /\ wrote' = wrote
    BY <1>3 DEF Work, ScriptRuns, ScriptEnds, Types, TypingEnds, Asks, NoBackend, Submits, Answers
  <2>2. ASSUME NEW m \in Nodes, Job[m] = "script", Flushing(m)' PROVE Flushing(m)
    <3>1. CASE m # n
      <4>1. at'[m] = at[m] /\ step'[m] = step[m]
        BY <1>0, <1>3, <3>1 DEF Work, ScriptRuns, ScriptEnds, Types, TypingEnds, Asks, NoBackend,
           Submits, Answers, Goes, Returns, vars
      <4> QED
        BY <2>2, <4>1 DEF Flushing
    <3>2. CASE m = n
      <4>1. ScriptRuns(n) \/ ScriptEnds(n)
        BY <1>3, <2>2, <3>2 DEF Work, ScriptRuns, ScriptEnds, Types, TypingEnds, Asks, NoBackend,
           Submits, Answers, Works
      <4>2. at'[n] = "executing"
        BY <2>2, <3>2 DEF Flushing
      <4>3. step[n] < Len(Body[n]) /\ Goes(n)
        BY <1>0, <4>1, <4>2 DEF ScriptRuns, ScriptEnds, Returns
      <4>4. step'[n] = step[n] + 1
        BY <1>0, <4>3 DEF Goes
      <4>5. ~(step'[n] > Len(Body[n]))
        BY <1>0, <2>2, <3>2, <4>3, <4>4
      <4> QED
        BY <2>2, <3>2, <4>5 DEF Flushing
    <3> QED
      BY <3>1, <3>2
  <2> QED
    BY <2>1, <2>2 DEF NoWrites
<1>4. ASSUME NEW n \in Nodes, NEW k \in DOMAIN work[n], OnThread(n, k) PROVE NoWrites
  BY <1>4 DEF OnThread, Fronts, Lands, vars, NoWrites, Flushing
<1>5. CASE UNCHANGED avars
  BY <1>5 DEF avars, vars, data, NoWrites, Flushing
<1> QED
  BY <1>1, <1>2, <1>3, <1>4, <1>5 DEF ActionsNext

LEMMA WritesApartNext ==
  TreeInv /\ DataInv /\ OneBusy /\ WritesInSteps /\ WritesApart /\ [ActionsNext]_avars
    => WritesApart'
<1> SUFFICES ASSUME TreeInv, DataInv, OneBusy, WritesInSteps, WritesApart, [ActionsNext]_avars
             PROVE  WritesApart'
  OBVIOUS
<1>0. /\ at \in [Nodes -> Place] /\ step \in [Nodes -> Nat]
      /\ store \in [Keys -> Nodes \union {Nobody}] /\ wrote \in [Nodes -> SUBSET Keys]
  BY DEF DataInv, ActionsTypeOK, TreeInv, TypeOK
<1>1. CASE NoWrites
  BY <1>1, NoWritesKeep
<1>2. ASSUME NEW x \in Nodes, SetsVariable(x) PROVE WritesApart'
  <2>1. Job[x] = "set" /\ Body[x][1] \in Keys
    <3>1. Job[x] = "set"
      BY <1>2 DEF SetsVariable, Works
    <3>2. Body[x] \in Seq(Keys) /\ Len(Body[x]) = 1
      BY <3>1, ActionsAssumption
    <3> QED
      BY <3>1, <3>2
  <2>2. \A k \in Keys : store'[k] = store[k] \/ store'[k] = x
    BY <1>0, <1>2, <2>1 DEF SetsVariable
  <2>3. \A m \in Nodes : Job[m] = "script" => wrote'[m] = wrote[m] /\ (Flushing(m)' => Flushing(m))
    BY <1>0, <1>2, <2>1 DEF SetsVariable, Returns, Flushing
  <2>4. \A m, n \in Nodes : Pair(m, n) /\ Clear(m, n) => Clear(m, n)'
    BY <1>0, <2>1, <2>2, <2>3 DEF Pair, Clear
  <2> QED
    BY <2>3, <2>4 DEF WritesApart, Pair
<1>3. ASSUME NEW x \in Nodes, ScriptFlushes(x) PROVE WritesApart'
  <2>1. PICK i \in DOMAIN Body[x] :
          /\ i = step[x] + 1 - Len(Body[x])
          /\ store' = [store EXCEPT ![Body[x][i]] = x]
          /\ wrote' = [wrote EXCEPT ![x] = @ \union {Body[x][i]}]
    BY <1>3 DEF ScriptFlushes
  <2>2. at[x] = "executing" /\ Job[x] = "script" /\ at' = at /\ step' = [step EXCEPT ![x] = @ + 1]
    BY <1>3 DEF ScriptFlushes, Works, Goes, vars
  <2> DEFINE K == Body[x][i]
  <2>3. K \in Keys
    BY <2>1, <2>2, BodyFacts
  <2>4. ASSUME NEW n \in Nodes, Pair(x, n) PROVE Clear(x, n)'
    <3>1. Clear(x, n)
      <4>1. CASE step[x] <= Len(Body[x])
        <5>1. wrote[x] = {}
          BY <1>0, <2>2, <4>1, FlushedFacts DEF WritesInSteps
        <5> QED
          BY <5>1 DEF Clear
      <4>2. CASE step[x] > Len(Body[x])
        BY <2>2, <2>4, <4>2 DEF WritesApart, Flushing
      <4>3. Len(Body[x]) \in Nat
        BY <2>2, BodyFacts
      <4> QED
        BY <1>0, <4>1, <4>2, <4>3
    <3>2. n # x
      BY <2>4 DEF Pair
    <3>3. /\ wrote'[x] = wrote[x] \union {K} /\ wrote[x] \subseteq Keys
          /\ store'[K] = x /\ \A k \in Keys : k # K => store'[k] = store[k]
      BY <1>0, <2>1, <2>3
    <3> QED
      BY <3>1, <3>2, <3>3 DEF Clear
  <2>5. ASSUME NEW m \in Nodes, NEW n \in Nodes, Pair(m, n), m # x, n # x, Clear(m, n)
        PROVE  Clear(m, n)'
    <3>1. wrote'[m] = wrote[m] /\ wrote[m] \subseteq Keys
      BY <1>0, <2>1, <2>5
    <3>2. \A k \in Keys : store'[k] = store[k] \/ store'[k] = x
      BY <1>0, <2>1, <2>3
    <3> QED
      BY <2>5, <3>1, <3>2 DEF Clear
  <2>6. \A m \in Nodes : m # x => (Flushing(m)' <=> Flushing(m))
    BY <1>0, <2>2 DEF Flushing
  <2>7. \A m \in Nodes : Pair(m, x) => ~Flushing(m)'
    BY <2>2 DEF Pair, Flushing, OneBusy, Synchronous
  <2> SUFFICES ASSUME NEW m \in Nodes, NEW n \in Nodes, Pair(m, n)
               PROVE  /\ Clear(m, n)' \/ Clear(n, m)'
                      /\ Flushing(m)' => Clear(m, n)'
    BY DEF WritesApart, Pair
  <2>8. CASE m = x
    BY <2>4, <2>8
  <2>9. CASE n = x
    <3>1. Pair(n, m)
      BY DEF Pair
    <3> QED
      BY <2>4, <2>7, <2>9, <3>1
  <2>10. CASE m # x /\ n # x
    <3>1. Pair(n, m)
      BY DEF Pair
    <3> QED
      BY <2>5, <2>6, <2>10, <3>1 DEF WritesApart
  <2> QED
    BY <2>8, <2>9, <2>10
<1> QED
  BY <1>1, <1>2, <1>3, NoWritesSteps

\* Only interactions give operations to a backend.
OnlyInteractions == \A n \in Nodes : work[n] # <<>> => Job[n] = "interact"

LEMMA OnlyInteractionsNext ==
  DataInv /\ OnlyInteractions /\ [ActionsNext]_avars => OnlyInteractions'
<1> SUFFICES ASSUME DataInv, OnlyInteractions, [ActionsNext]_avars PROVE OnlyInteractions'
  OBVIOUS
<1>1. CASE UNCHANGED work
  BY <1>1 DEF OnlyInteractions
<1>2. ASSUME NEW n \in Nodes, Submits(n) PROVE OnlyInteractions'
  <2>1. Job[n] = "interact" /\ \A m \in Nodes \ {n} : work'[m] = work[m]
    BY <1>2 DEF Submits, Works, DataInv, ActionsTypeOK
  <2> QED
    BY <2>1 DEF OnlyInteractions
<1>3. ASSUME NEW n \in Nodes, NEW k \in DOMAIN work[n], OnThread(n, k) PROVE OnlyInteractions'
  <2>1. work[n] # <<>> /\ \A m \in Nodes \ {n} : work'[m] = work[m]
    BY <1>3 DEF OnThread, Fronts, Lands, DataInv, ActionsTypeOK
  <2> QED
    BY <2>1 DEF OnlyInteractions
<1>4. CASE UNCHANGED avars
  BY <1>1, <1>4 DEF avars, data
<1>5. ASSUME NEW n \in Nodes, Work(n), ~Submits(n) PROVE UNCHANGED work
  BY <1>5 DEF Work, ScriptRuns, ScriptFlushes, ScriptEnds, SetsVariable, Types, TypingEnds, Asks,
     NoBackend, Answers
<1> QED
  BY <1>1, <1>2, <1>3, <1>4, <1>5 DEF ActionsNext, Interprets

\* Whose key strokes may come between those of n.
MayTear(n) == {m \in Nodes : RunOf[m] # RunOf[n] \/ Job[m] = "interact"}

\* Who types in the middle of something typed the last key, or it was another run, or
\* the thread of a backend.
TypesApart ==
  /\ \A p \in torn : p[2] \in MayTear(p[1])
  /\ \A n \in Nodes : (at[n] = "executing" /\ Job[n] = "type" /\ step[n] > 0) =>
       lastTyper = n \/ lastTyper \in MayTear(n)

LEMMA TypesApartNext ==
  TreeInv /\ DataInv /\ OneBusy /\ OnlyInteractions /\ TypesApart /\ [ActionsNext]_avars
    => TypesApart'
<1> SUFFICES ASSUME TreeInv, DataInv, OneBusy, OnlyInteractions, TypesApart, [ActionsNext]_avars
             PROVE  TypesApart'
  OBVIOUS
<1>0. /\ at \in [Nodes -> Place] /\ step \in [Nodes -> Nat]
      /\ \A n \in Nodes : at[n] # "executing" => step[n] = 0
  BY DEF DataInv, ActionsTypeOK, Paced, TreeInv, TypeOK
<1>1. ASSUME UNCHANGED <<lastTyper, torn>>,
             \A n \in Nodes : (at'[n] = "executing" /\ Job[n] = "type" /\ step'[n] > 0) =>
               step'[n] = step[n]
      PROVE  TypesApart'
  BY <1>0, <1>1 DEF TypesApart
<1>2. ASSUME NEW r \in Roots, Start(r) \/ Cancel(r),
             UNCHANGED <<step, store, input, found, work>>
      PROVE  TypesApart'
  BY <1>1, <1>2
<1>3. ASSUME NEW n \in Nodes, Interprets(n) PROVE TypesApart'
  BY <1>0, <1>1, <1>3 DEF Interprets
<1>4. ASSUME NEW n \in Nodes, Work(n), ~Types(n) PROVE TypesApart'
  <2>1. UNCHANGED <<lastTyper, torn>>
    BY <1>4 DEF Work, ScriptRuns, ScriptFlushes, ScriptEnds, SetsVariable, TypingEnds, Asks,
       NoBackend, Submits, Answers
  <2>2. ASSUME NEW m \in Nodes, at'[m] = "executing", Job[m] = "type", step'[m] > 0
        PROVE  step'[m] = step[m]
    <3>1. CASE m # n
      BY <1>0, <1>4, <3>1 DEF Work, ScriptRuns, ScriptFlushes, ScriptEnds, SetsVariable, TypingEnds,
         Asks, NoBackend, Submits, Answers, Goes, Returns
    <3>2. CASE m = n
      <4>1. TypingEnds(n)
        BY <1>4, <2>2, <3>2 DEF Work, ScriptRuns, ScriptFlushes, ScriptEnds, SetsVariable, Asks,
           NoBackend, Submits, Answers, Works
      <4> QED
        BY <1>0, <2>2, <3>2, <4>1 DEF TypingEnds, Returns
    <3> QED
      BY <3>1, <3>2
  <2> QED
    BY <1>1, <2>1, <2>2
<1>5. ASSUME NEW n \in Nodes, Types(n) PROVE TypesApart'
  <2>1. /\ at[n] = "executing" /\ Job[n] = "type" /\ at' = at
        /\ step' = [step EXCEPT ![n] = @ + 1] /\ lastTyper' = n
        /\ torn' = IF step[n] > 0 /\ lastTyper # n THEN torn \union {<<n, lastTyper>>} ELSE torn
    BY <1>5 DEF Types, Works, Goes, vars
  <2>2. \A p \in torn' : p[2] \in MayTear(p[1])
    <3>1. step[n] > 0 /\ lastTyper # n => lastTyper \in MayTear(n)
      BY <2>1 DEF TypesApart
    <3> QED
      BY <2>1, <3>1 DEF TypesApart
  <2>3. ASSUME NEW m \in Nodes, at'[m] = "executing", Job[m] = "type"
        PROVE  lastTyper' = m \/ lastTyper' \in MayTear(m)
    BY <2>1, <2>3 DEF OneBusy, Synchronous, MayTear
  <2> QED
    BY <2>2, <2>3 DEF TypesApart
<1>6. ASSUME NEW n \in Nodes, NEW k \in DOMAIN work[n], OnThread(n, k) PROVE TypesApart'
  <2>1. UNCHANGED <<at, step, torn>> /\ lastTyper' \in {lastTyper, n}
    BY <1>6 DEF OnThread, Fronts, Lands, vars
  <2>2. lastTyper' # lastTyper => Job[n] = "interact"
    <3>1. work[n] # <<>>
      BY <1>6 DEF DataInv, ActionsTypeOK
    <3> QED
      BY <3>1 DEF OnlyInteractions
  <2> QED
    BY <2>1, <2>2 DEF TypesApart, MayTear
<1>7. CASE UNCHANGED avars
  BY <1>1, <1>7 DEF avars, vars, data
<1> QED
  BY <1>2, <1>3, <1>4, <1>5, <1>6, <1>7 DEF ActionsNext

(* Scripts of one run do not mix their writes, nor its actions their keys. *)
THEOREM RunsAreApart == ActionsSpec => []RunsDoNotMix
<1>1. ActionsInit => WritesApart /\ OnlyInteractions /\ TypesApart
  BY DEF ActionsInit, Init, WritesApart, TypesApart, OnlyInteractions, Clear, Flushing
<1>2. WritesApart /\ TypesApart => RunsDoNotMix
  BY DEF WritesApart, TypesApart, RunsDoNotMix, Pair, Clear, MayTear
<1> QED
  BY <1>1, <1>2, WritesHold, WritesApartNext, OnlyInteractionsNext, TypesApartNext, PTL
     DEF ActionsSpec

-----------------------------------------------------------------------------
(* Operations that outlive their action.                                   *)

Cut(r) == r \in cancelled \/ at[r] = "panicked"

\* A run that was cut short stays so.
LEMMA CutStays ==
  ASSUME TreeInv, [Next]_vars, NEW r \in Roots, Cut(r)
  PROVE  Cut(r)'
<1> USE DEF Cut
<1>0. at \in [Nodes -> Place] /\ r \in Nodes
  BY RootFacts DEF TreeInv, TypeOK
<1>1. ASSUME NEW q \in Roots, Start(q) \/ Cancel(q) PROVE Cut(r)'
  BY <1>0, <1>1 DEF Start, Cancel
<1>2. ASSUME NEW n \in Nodes, Enter(n) PROVE Cut(r)'
  BY <1>0, <1>2, EnterKeepsBlame
<1>3. ASSUME NEW n \in Nodes, Resume(n) PROVE Cut(r)'
  <2>1. cancelled' = cancelled
    BY <1>3 DEF Resume, Awake, SeqStep, ParallelJoins, PassesOn, LoopTurn, LoopBodyReturns,
       RetryTurn, RetryBodyReturns, Acquire, Execute, ActionReturns
  <2> QED
    BY <1>3, <2>1, ResumeKeepsPanic
<1>4. ASSUME NEW n \in Nodes, Elapses(n) PROVE Cut(r)'
  <2>1. r \notin Below[n] /\ (at[r] = "panicked" => r # n)
    BY <1>4, BelowFacts, RootFacts DEF Elapses
  <2> QED
    BY <1>0, <1>4, <2>1 DEF Elapses, Dropped
<1>5. ASSUME NEW n \in Nodes, Panics(n) PROVE Cut(r)'
  <2>1. RunOf[r] = r
    BY RootFacts
  <2>2. CASE RunOf[n] = r
    BY <1>0, <1>5, <2>2 DEF Panics
  <2>3. CASE RunOf[n] # r
    BY <1>0, <1>5, <2>1, <2>3 DEF Panics
  <2> QED
    BY <2>2, <2>3
<1>6. CASE UNCHANGED vars
  BY <1>6 DEF vars
<1> QED
  BY <1>1, <1>2, <1>3, <1>4, <1>5, <1>6 DEF Next, AllEnded

\* The action that waits for its k-th operation.
Awaited(n, k) ==
  /\ Works(n, "interact") /\ k = Len(work[n]) /\ step[n] = Len(Backends) + 1

AwaitedOrCut ==
  \A n \in Nodes : \A k \in DOMAIN work[n] :
    work[n][k].is \in UnderWay => Awaited(n, k) \/ Cut(RunOf[n])

LEMMA AwaitedNext == TreeInv /\ LockInv /\ DataInv /\ AwaitedOrCut /\ [ActionsNext]_avars => AwaitedOrCut'
<1> SUFFICES ASSUME TreeInv, LockInv, DataInv, AwaitedOrCut, [ActionsNext]_avars,
                    NEW x \in Nodes, NEW k \in DOMAIN work'[x], work'[x][k].is \in UnderWay,
                    ~Cut(RunOf[x])'
             PROVE  Awaited(x, k)'
  BY DEF AwaitedOrCut, Awaited, Works, Cut
<1> USE DEF Works
<1>0. /\ at \in [Nodes -> Place] /\ step \in [Nodes -> Nat]
      /\ work \in [Nodes -> Seq(Operation)] /\ RunOf[x] \in Roots /\ Len(Backends) \in Nat
  <2>1. at \in [Nodes -> Place]
    BY DEF TreeInv, TypeOK
  <2>2. step \in [Nodes -> Nat] /\ work \in [Nodes -> Seq(Operation)]
    BY DEF DataInv, ActionsTypeOK, Operation
  <2>3. RunOf[x] \in Roots
    BY WorkflowAssumption
  <2>4. Len(Backends) \in Nat
    BY BodyFacts
  <2> QED
    BY <2>1, <2>2, <2>3, <2>4
<1>1. ~Cut(RunOf[x])
  BY <1>0, StepIsNext, CutStays
<1>2. ASSUME work'[x] = work[x], at'[x] = at[x], step'[x] = step[x] PROVE Awaited(x, k)'
  BY <1>1, <1>2 DEF AwaitedOrCut, Awaited
<1>3. ASSUME NEW r \in Roots, Start(r) \/ Cancel(r), Recalled,
             UNCHANGED <<step, store, input, found, work>>
      PROVE  Awaited(x, k)'
  <2>1. Awaited(x, k)
    BY <1>1, <1>3 DEF AwaitedOrCut
  <2>2. at'[x] = at[x]
    BY <1>0, <1>3, <2>1 DEF Start, Cancel, Awaited
  <2> QED
    BY <1>2, <1>3, <2>2
<1>4. ASSUME NEW n \in Nodes, Interprets(n) PROVE Awaited(x, k)'
  <2>1. Awaited(x, k) /\ work' = work
    BY <1>1, <1>4 DEF AwaitedOrCut, Interprets
  <2>2. CASE at'[x] = at[x]
    <3>1. step'[x] = step[x]
      BY <1>0, <1>4, <2>1, <2>2 DEF Interprets, Awaited
    <3> QED
      BY <1>2, <2>1, <2>2, <3>1
  <2>3. CASE at'[x] # at[x]
    <3>1. RunOf[x] = RunOf[n] /\ (Elapses(n) \/ Panics(n))
      BY <1>4, <2>1, <2>3, LibraryMoves DEF Awaited
    <3>2. RunOf[x] \in Nodes
      BY <1>0, RootFacts
    <3>3. Cut(RunOf[x])'
      BY <3>1, <3>2 DEF Elapses, Panics, Cut, TokenOf
    <3> QED
      BY <3>3
  <2> QED
    BY <2>2, <2>3
<1>5. ASSUME NEW n \in Nodes, Work(n) PROVE Awaited(x, k)'
  <2>1. CASE n # x
    <3>1. work'[x] = work[x] /\ at'[x] = at[x] /\ step'[x] = step[x]
      BY <1>0, <1>5, <2>1 DEF Work, ScriptRuns, ScriptFlushes, ScriptEnds, SetsVariable, Types,
         TypingEnds, Asks, NoBackend, Submits, Answers, Goes, Returns, vars
    <3> QED
      BY <1>2, <3>1
  <2>2. CASE n = x /\ Submits(x)
    <3>1. PICK i \in Chosen(x) : work' = [work EXCEPT ![x] = Append(@, [on |-> i, is |-> "given"])]
      BY <2>2 DEF Submits
    <3>2. /\ step[x] = Len(Backends) /\ step'[x] = step[x] + 1
          /\ at'[x] = "executing" /\ Job[x] = "interact"
      BY <1>0, <2>2 DEF Submits, Goes, vars
    <3>3. /\ work'[x] = Append(work[x], [on |-> i, is |-> "given"])
          /\ work[x] \in Seq(Operation)
      BY <1>0, <3>1
    <3>4. CASE k = Len(work'[x])
      BY <3>2, <3>4 DEF Awaited
    <3>5. CASE k # Len(work'[x])
      <4>1. k \in DOMAIN work[x] /\ work'[x][k] = work[x][k]
        BY <3>3, <3>5
      <4>2. Awaited(x, k)
        BY <1>1, <4>1 DEF AwaitedOrCut
      <4> QED
        BY <1>0, <3>2, <4>2 DEF Awaited
    <3> QED
      BY <3>4, <3>5
  <2>3. CASE n = x /\ ~Submits(x)
    <3>1. work' = work
      BY <1>5, <2>3 DEF Work, ScriptRuns, ScriptFlushes, ScriptEnds, SetsVariable, Types,
         TypingEnds, Asks, NoBackend, Answers
    <3>2. Awaited(x, k)
      BY <1>1, <3>1 DEF AwaitedOrCut
    <3>3. Answers(x)
      BY <1>0, <1>5, <2>3, <3>2 DEF Awaited, Work, ScriptRuns, ScriptFlushes, ScriptEnds,
         SetsVariable, Types, TypingEnds, Asks, NoBackend
    <3> QED
      BY <3>1, <3>2, <3>3 DEF Answers, Awaited
  <2> QED
    BY <2>1, <2>2, <2>3
<1>6. ASSUME NEW n \in Nodes, NEW j \in DOMAIN work[n], OnThread(n, j) PROVE Awaited(x, k)'
  <2>1. /\ Len(work'[x]) = Len(work[x]) /\ k \in DOMAIN work[x] /\ work[x][k].is \in UnderWay
    BY <1>6, ThreadFacts DEF DataInv
  <2>2. at' = at /\ step' = step
    BY <1>6 DEF OnThread, Fronts, Lands, vars
  <2> QED
    BY <1>1, <2>1, <2>2 DEF AwaitedOrCut, Awaited
<1>7. CASE UNCHANGED avars
  BY <1>2, <1>7 DEF avars, vars, data
<1> QED
  BY <1>3, <1>4, <1>5, <1>6, <1>7 DEF ActionsNext

(* Only in a run that was cut short does an operation go on without the    *)
(* action that waits for it.                                               *)
THEOREM LateIsCut == ActionsSpec => []LateOnlyWhenCut
<1>1. ActionsInit => AwaitedOrCut
  BY DEF ActionsInit, AwaitedOrCut
<1>2. AwaitedOrCut => LateOnlyWhenCut
  BY DEF AwaitedOrCut, Awaited, Cut, LateOnlyWhenCut
<1> QED
  BY <1>1, <1>2, AwaitedNext, DataHolds, PTL DEF ActionsSpec

-----------------------------------------------------------------------------
(* The focus.                                                              *)

\* What was given to a backend was allowed to be.
Entitled ==
  \A n \in Nodes : \A k \in DOMAIN work[n] :
    /\ Required(n) \subseteq Granted[RunOf[n]]
    /\ Backends[work[n][k].on].tier = 1 =>
         Fallback[n] = "Degrade" /\ "ForegroundTakeover" \in Granted[RunOf[n]]

\* Who has brought its target to the front and not typed yet has the focus, or has lost
\* it to somebody who may overtake.
HoldsFocus(n) == focus = n \/ \E m \in Nodes : focus = m /\ MayOvertake(m, n)

FrontKept ==
  \A n \in Nodes : \A k \in DOMAIN work[n] : work[n][k].is = "front" => HoldsFocus(n)

\* No operation is new.
NothingGiven == UNCHANGED <<work, focus, astray>>

LEMMA FocusSteps ==
  ASSUME [ActionsNext]_avars
  PROVE  \/ NothingGiven
         \/ \E n \in Nodes : Submits(n) \/ \E k \in DOMAIN work[n] : OnThread(n, k)
<1>1. ASSUME NEW n \in Nodes, Work(n), ~Submits(n) PROVE NothingGiven
  BY <1>1 DEF NothingGiven, Work, ScriptRuns, ScriptFlushes, ScriptEnds, SetsVariable, Types,
     TypingEnds, Asks, NoBackend, Answers
<1>2. ASSUME NEW n \in Nodes, Interprets(n) PROVE NothingGiven
  BY <1>2 DEF NothingGiven, Interprets
<1>3. CASE UNCHANGED avars
  BY <1>3 DEF NothingGiven, avars, data
<1> QED
  BY <1>1, <1>2, <1>3 DEF ActionsNext, NothingGiven

\* Whom an interaction gives its operation to.
LEMMA SubmitsFacts ==
  ASSUME DataInv, Gated, NEW n \in Nodes, Submits(n)
  PROVE  \E i \in found[n] :
           /\ work' = [work EXCEPT ![n] = Append(@, [on |-> i, is |-> "given"])]
           /\ work'[n] = Append(work[n], [on |-> i, is |-> "given"])
           /\ Required(n) \subseteq Granted[RunOf[n]]
           /\ Backends[i].tier = 1 =>
                /\ Fallback[n] = "Degrade" /\ "ForegroundTakeover" \in Granted[RunOf[n]]
                /\ \A j \in found[n] : Backends[j].tier = 1
<1>0. work \in [Nodes -> Seq(Operation)] /\ found[n] \subseteq DOMAIN Backends
  BY DEF DataInv, ActionsTypeOK, Operation
<1>1. PICK i \in Chosen(n) : work' = [work EXCEPT ![n] = Append(@, [on |-> i, is |-> "given"])]
  BY DEF Submits
<1>2. /\ i \in found[n]
      /\ \A j \in found[n] : Backends[i].tier > Backends[j].tier
                             \/ (Backends[i].tier = Backends[j].tier /\ i <= j)
      /\ Backends[i].tier = 2 \/ (Fallback[n] = "Degrade" /\ "ForegroundTakeover" \in Granted[RunOf[n]])
  BY <1>1 DEF Chosen, Best, Allows
<1>3. \A j \in found[n] : Backends[j].tier \in {1, 2}
  BY <1>0, BodyFacts
<1>4. Required(n) \subseteq Granted[RunOf[n]]
  BY DEF Submits, Works, Gated
<1>5. work'[n] = Append(work[n], [on |-> i, is |-> "given"])
  BY <1>0, <1>1
<1>6. i \in found[n] /\ (Backends[i].tier = 1 =>
        /\ Fallback[n] = "Degrade" /\ "ForegroundTakeover" \in Granted[RunOf[n]]
        /\ \A j \in found[n] : Backends[j].tier = 1)
  BY <1>2, <1>3
<1> HIDE DEF Required
<1> QED
  BY <1>1, <1>4, <1>5, <1>6, Zenon

LEMMA EntitledNext == DataInv /\ Gated /\ Entitled /\ [ActionsNext]_avars => Entitled'
<1> SUFFICES ASSUME DataInv, Gated, Entitled, [ActionsNext]_avars PROVE Entitled'
  OBVIOUS
<1> USE DEF Required
<1>0. work \in [Nodes -> Seq(Operation)]
  BY DEF DataInv, ActionsTypeOK, Operation
<1>1. CASE NothingGiven
  BY <1>1 DEF NothingGiven, Entitled
<1>2. ASSUME NEW n \in Nodes, Submits(n) PROVE Entitled'
  <2>1. PICK i \in found[n] :
          /\ work' = [work EXCEPT ![n] = Append(@, [on |-> i, is |-> "given"])]
          /\ work'[n] = Append(work[n], [on |-> i, is |-> "given"])
          /\ Required(n) \subseteq Granted[RunOf[n]]
          /\ Backends[i].tier = 1 =>
               Fallback[n] = "Degrade" /\ "ForegroundTakeover" \in Granted[RunOf[n]]
    BY <1>2, SubmitsFacts
  <2>2. ASSUME NEW k \in DOMAIN work'[n]
        PROVE  (k \in DOMAIN work[n] /\ work'[n][k] = work[n][k]) \/ work'[n][k].on = i
    <3>1. work[n] \in Seq(Operation)
      BY <1>0
    <3> QED
      BY <2>1, <3>1
  <2>3. \A m \in Nodes : m # n => work'[m] = work[m]
    BY <1>0, <2>1
  <2> HIDE DEF Required
  <2>4. \A m \in Nodes : Required(m)' = Required(m)
    BY DEF Required
  <2> QED
    BY <2>1, <2>2, <2>3, <2>4 DEF Entitled
<1>3. ASSUME NEW n \in Nodes, NEW k \in DOMAIN work[n], OnThread(n, k) PROVE Entitled'
  BY <1>3, ThreadFacts DEF Entitled, DataInv
<1> QED
  BY <1>1, <1>2, <1>3, FocusSteps

\* Two operations that are under way in one run, which was not cut short, are apart.
LEMMA UnderWayApart ==
  ASSUME TreeInv, DataInv, OnlyInteractions, AwaitedOrCut,
         NEW m \in Nodes, NEW j \in DOMAIN work[m], work[m][j].is \in UnderWay,
         NEW n \in Nodes, NEW k \in DOMAIN work[n], work[n][k].is \in UnderWay, m # n
  PROVE  MayOvertake(m, n)
<1> SUFFICES ASSUME RunOf[m] = RunOf[n], ~Cut(RunOf[n]) PROVE Apart(m, n)
  BY DEF MayOvertake, Cut
<1>1. at[m] = "executing" /\ at[n] = "executing"
  BY DEF AwaitedOrCut, Awaited, Works
<1>2. ConcurrentOnlyInParallel
  BY DEF TreeInv, QuietBelow, OneAtATime, Lineage, ConcurrentOnlyInParallel
<1> QED
  BY <1>1, <1>2 DEF ConcurrentOnlyInParallel

LEMMA FrontNext ==
  TreeInv /\ LockInv /\ DataInv /\ OnlyInteractions /\ Gated /\ AwaitedOrCut /\ FrontKept
    /\ [ActionsNext]_avars => FrontKept'
<1> SUFFICES ASSUME TreeInv, LockInv, DataInv, OnlyInteractions, Gated, AwaitedOrCut, FrontKept,
                    [ActionsNext]_avars,
                    NEW x \in Nodes, NEW l \in DOMAIN work'[x], work'[x][l].is = "front"
             PROVE  HoldsFocus(x)'
  BY DEF FrontKept, HoldsFocus, MayOvertake, Apart
<1>0. work \in [Nodes -> Seq(Operation)] /\ RunOf[x] \in Roots
  BY WorkflowAssumption DEF DataInv, ActionsTypeOK, Operation
<1>1. ASSUME NEW m \in Nodes, MayOvertake(m, x) PROVE MayOvertake(m, x)'
  <2>1. Cut(RunOf[x]) => Cut(RunOf[x])'
    BY <1>0, StepIsNext, CutStays
  <2> QED
    BY <1>1, <2>1 DEF MayOvertake, Cut, Apart
<1>2. ASSUME l \in DOMAIN work[x], work[x][l].is = "front", focus' = focus
      PROVE  HoldsFocus(x)'
  BY <1>1, <1>2 DEF FrontKept, HoldsFocus
<1>3. CASE NothingGiven
  BY <1>2, <1>3 DEF NothingGiven
<1>4. ASSUME NEW n \in Nodes, Submits(n)
      PROVE  HoldsFocus(x)'
  <2>1. PICK i \in found[n] :
          /\ work' = [work EXCEPT ![n] = Append(@, [on |-> i, is |-> "given"])]
          /\ work'[n] = Append(work[n], [on |-> i, is |-> "given"])
    BY <1>4, SubmitsFacts
  <2>2. l \in DOMAIN work[x] /\ work'[x][l] = work[x][l]
    <3>1. CASE x = n
      <4>1. work[n] \in Seq(Operation)
        BY <1>0
      <4> QED
        BY <2>1, <3>1, <4>1
    <3>2. CASE x # n
      BY <1>0, <2>1, <3>2
    <3> QED
      BY <3>1, <3>2
  <2>3. focus' = focus
    BY <1>4 DEF Submits
  <2> QED
    BY <1>2, <2>2, <2>3
<1>5. ASSUME NEW n \in Nodes, NEW k \in DOMAIN work[n], OnThread(n, k)
      PROVE  HoldsFocus(x)'
  <2>1. /\ work[n][k].is \in UnderWay /\ focus' \in {focus, n}
        /\ \E r : work' = [work EXCEPT ![n][k].is = r] /\ (r = "front" => focus' = n)
    BY <1>5 DEF OnThread, Fronts, Lands, UnderWay
  <2>2. l \in DOMAIN work[x] /\ work[x][l].is \in UnderWay
    BY <1>5, ThreadFacts DEF DataInv, UnderWay
  <2>3. CASE focus' = n
    <3>1. CASE x = n
      BY <2>3, <3>1 DEF HoldsFocus
    <3>2. CASE x # n
      <4>1. MayOvertake(n, x)
        BY <2>1, <2>2, <3>2, UnderWayApart
      <4>2. MayOvertake(n, x)'
        BY <1>1, <4>1
      <4> QED
        BY <2>3, <4>2 DEF HoldsFocus
    <3> QED
      BY <3>1, <3>2
  <2>4. CASE focus' # n
    <3>1. PICK r : work' = [work EXCEPT ![n][k].is = r] /\ r # "front"
      BY <2>1, <2>4
    <3>2. work[x][l].is = "front"
      <4>1. CASE x = n /\ l = k
        <5>1. work[n] \in Seq(Operation) /\ work[n][k] \in Operation
          BY <1>0
        <5>2. work'[n][k].is = r
          BY <1>0, <3>1, <5>1 DEF Operation
        <5> QED
          BY <3>1, <4>1, <5>2
      <4>2. CASE ~(x = n /\ l = k)
        BY <1>0, <2>2, <3>1, <4>2
      <4> QED
        BY <4>1, <4>2
    <3> QED
      BY <1>2, <2>1, <2>2, <2>4, <3>2
  <2> QED
    BY <2>3, <2>4
<1> QED
  BY <1>3, <1>4, <1>5, FocusSteps

(* A backend that needs the foreground is the last resort, only who may    *)
(* takes the focus, and what is typed goes astray within a run only across *)
(* a Parallel or when the run was cut short (negotiator.rs, action.rs,     *)
(* send_input.rs, uia.rs).                                                 *)
THEOREM FocusIsKept == ActionsSpec => FocusIsInOrder
<1> DEFINE Kept ==
      /\ \A n \in Nodes : Len(work'[n]) > Len(work[n]) =>
           (Backends[work'[n][Len(work'[n])].on].tier = 1 => \A i \in found[n] : Backends[i].tier = 1)
      /\ focus' # focus => MayTakeFocus(focus')
      /\ \A p \in astray' \ astray : MayOvertake(p[2], p[1])
<1>1. ASSUME DataInv, Gated, Entitled, FrontKept, [ActionsNext]_avars PROVE Kept
  <2>0. work \in [Nodes -> Seq(Operation)] /\ \A n \in Nodes : Len(work[n]) \in Nat
    <3>1. work \in [Nodes -> Seq(Operation)]
      BY <1>1 DEF DataInv, ActionsTypeOK, Operation
    <3> QED
      BY <3>1
  <2>1. CASE NothingGiven
    <3>1. work' = work /\ focus' = focus /\ astray' = astray
      BY <2>1 DEF NothingGiven
    <3>2. \A n \in Nodes : ~(Len(work'[n]) > Len(work[n]))
      BY <2>0, <3>1
    <3>3. astray' \ astray = {}
      BY <3>1
    <3> QED
      BY <3>1, <3>2, <3>3
  <2>2. ASSUME NEW m \in Nodes, Submits(m) PROVE Kept
    <3>1. PICK i \in found[m] :
            /\ work' = [work EXCEPT ![m] = Append(@, [on |-> i, is |-> "given"])]
            /\ work'[m] = Append(work[m], [on |-> i, is |-> "given"])
            /\ Backends[i].tier = 1 => \A j \in found[m] : Backends[j].tier = 1
      BY <1>1, <2>2, SubmitsFacts
    <3>2. work'[m][Len(work'[m])].on = i
      <4>1. work[m] \in Seq(Operation)
        BY <2>0
      <4> QED
        BY <3>1, <4>1
    <3>3. \A n \in Nodes : n # m => work'[n] = work[n]
      BY <2>0, <3>1
    <3>4. UNCHANGED <<focus, astray>>
      BY <2>2 DEF Submits
    <3> QED
      BY <2>0, <3>1, <3>2, <3>3, <3>4
  <2>3. ASSUME NEW m \in Nodes, NEW k \in DOMAIN work[m], OnThread(m, k) PROVE Kept
    <3>1. \A n \in Nodes : ~(Len(work'[n]) > Len(work[n]))
      BY <1>1, <2>0, <2>3, ThreadFacts DEF DataInv
    <3>2. /\ Required(m) \subseteq Granted[RunOf[m]]
          /\ Backends[work[m][k].on].tier = 1 =>
               Fallback[m] = "Degrade" /\ "ForegroundTakeover" \in Granted[RunOf[m]]
      BY <1>1 DEF Entitled
    <3>3. focus' # focus => focus' = m /\ (Backends[work[m][k].on].tier = 1 \/ Op[m] = "Focus")
      BY <2>3 DEF OnThread, Fronts, Lands
    <3>4. astray' # astray =>
            astray' = astray \union {<<m, focus>>} /\ work[m][k].is = "front" /\ focus # m
      BY <2>3 DEF OnThread, Fronts, Lands
    <3>5. astray' # astray => MayOvertake(focus, m)
      BY <1>1, <3>4 DEF FrontKept, HoldsFocus
    <3>6. \A p \in astray' \ astray : MayOvertake(p[2], p[1])
      <4> SUFFICES ASSUME NEW p \in astray' \ astray PROVE MayOvertake(p[2], p[1])
        OBVIOUS
      <4>1. p = <<m, focus>>
        BY <3>4
      <4> QED
        BY <3>5, <4>1
    <3> QED
      BY <3>1, <3>2, <3>3, <3>6 DEF MayTakeFocus
  <2> QED
    BY <1>1, <2>1, <2>2, <2>3, FocusSteps
<1>2. DataInv /\ Gated /\ Entitled /\ FrontKept /\ [ActionsNext]_avars => [Kept]_avars
  BY <1>1
<1>3. ActionsInit => OnlyInteractions /\ AwaitedOrCut /\ Entitled /\ FrontKept
  BY DEF ActionsInit, OnlyInteractions, AwaitedOrCut, Entitled, FrontKept
<1> QED
  BY <1>2, <1>3, GatedHolds, DataHolds, OnlyInteractionsNext, AwaitedNext, EntitledNext, FrontNext, PTL
     DEF ActionsSpec, FocusIsInOrder

-----------------------------------------------------------------------------
(* What is done is not done again.                                         *)

\* A node and all above it, and the nodes that no Retry is above.
Path(n) == {p \in Nodes : p = n \/ n \in Below[p]}
Unretried(p) == \A q \in Nodes : Kind[q] = "Retry" => p \notin Below[q]

\* The turn of n is behind p: p has returned what no Retry repeats, or has gone on.
Behind(p, n) ==
  \/ at[p] \in {"Continue", "Stop"}
  \/ at[p] = "Failed" /\ Unretried(p)
  \/ /\ Kind[p] = "Seq" /\ at[p] = "working"
     /\ \E i \in DOMAIN Kids[p] : i < pos[p] /\ Kids[p][i] \in Path(n)

\* n is not called again as long as its run is not cut short.
Over(n) == \E p \in Path(n) : Behind(p, n) /\ \A q \in Path(n) : q \in Below[p] => at[q] = "idle"

LEMMA PathFacts ==
  ASSUME NEW n \in Nodes, NEW p \in Path(n)
  PROVE  /\ p \in Nodes /\ RunOf[p] = RunOf[n] /\ n \in Path(n)
         /\ \A m \in Nodes : p \in Below[m] => m \in Path(n)
BY BelowFacts DEF Path

\* Of a node on the path, the child that is on it, if any, is the only one.
LEMMA PathChild ==
  ASSUME NEW n \in Nodes, NEW m \in Nodes, NEW b \in Children(m), NEW c \in Children(m),
         b \in Path(n), c \in Path(n)
  PROVE  b = c
BY SiblingsApart DEF Path

\* Two nodes of the path that are both at work lie one below the other.
LEMMA PathOrder ==
  ASSUME TreeInv, NEW n \in Nodes, NEW m \in Path(n), NEW p \in Path(n),
         at[m] # "idle", at[p] # "idle"
  PROVE  m = p \/ m \in Below[p] \/ p \in Below[m]
<1>1. m \in Nodes /\ p \in Nodes /\ RunOf[m] = RunOf[p]
  BY PathFacts
<1>2. Lineage(m, p)
  BY <1>1 DEF TreeInv, OneAtATime
<1>3. ASSUME Apart(m, p) PROVE FALSE
  <2>1. PICK q \in Nodes : /\ Kind[q] = "Parallel"
                           /\ \E b, c \in Children(q) :
                                b # c /\ m \in Below[b] \union {b} /\ p \in Below[c] \union {c}
    BY <1>3 DEF Apart
  <2>2. PICK b \in Children(q), c \in Children(q) :
          b # c /\ m \in Below[b] \union {b} /\ p \in Below[c] \union {c}
    BY <2>1
  <2>3. b \in Nodes /\ c \in Nodes
    BY ChildBelow
  <2>4. n \in Below[b] \union {b} /\ n \in Below[c] \union {c}
    <3>1. ASSUME NEW x \in Nodes, NEW y \in Path(n), y \in Below[x] \union {x}
          PROVE  n \in Below[x] \union {x}
      BY <3>1, BelowFacts DEF Path
    <3> QED
      BY <2>2, <2>3, <3>1
  <2> QED
    BY <2>2, <2>4, SiblingsApart
<1> QED
  BY <1>2, <1>3 DEF Lineage

\* A step of m moves m and what is below it, in a run that is not cut short.
LEMMA OffThePath ==
  ASSUME TreeInv, NEW m \in Nodes, Enter(m) \/ Resume(m) \/ Elapses(m) \/ Panics(m),
         NEW x \in Nodes, x # m, x \notin Below[m], ~Cut(RunOf[x])'
  PROVE  at'[x] = at[x] /\ pos'[x] = pos[x]
<1> USE DEF Leave, Call
<1>0. /\ at \in [Nodes -> Place] /\ pos \in [Nodes -> Nat]
      /\ \A c \in Children(m) : c # x
  BY ChildBelow DEF TreeInv, TypeOK
<1>1. CASE Enter(m)
  <2>1. Kind[m] \in Loops \union {"Timeout", "If"} =>
          x # Kids[m][1] /\ (Len(Kids[m]) = 2 => x # Kids[m][2])
    BY <1>0, FirstKid
  <2>2. Kids[m] # <<>> => x # Kids[m][1]
    <3>1. Kids[m] \in Seq(Nodes)
      BY WorkflowAssumption
    <3> QED
      BY <1>0, <3>1, KidIsChild
  <2>3. CASE EnterSeq(m)
    BY <1>0, <2>2, <2>3 DEF EnterSeq
  <2>4. CASE EnterParallel(m)
    BY <1>0, <2>4 DEF EnterParallel
  <2>5. CASE EnterIf(m)
    BY <1>0, <2>1, <2>5 DEF EnterIf
  <2>6. CASE EnterTimeout(m)
    BY <1>0, <2>1, <2>6 DEF EnterTimeout
  <2> QED
    BY <1>0, <1>1, <2>3, <2>4, <2>5, <2>6 DEF Enter, BailOut, EnterAction, EnterLoop, EnterWait
<1>2. CASE Resume(m)
  <2>1. Kind[m] \in Loops \union {"Timeout", "If"} => x # Kids[m][1]
    BY <1>0, FirstKid
  <2>2. CASE SeqStep(m)
    <3>1. pos[m] \in DOMAIN Kids[m] /\ Kids[m] \in Seq(Nodes)
      BY <2>2, WorkflowAssumption DEF SeqStep, TreeInv, SeqInRange
    <3>2. x # Kids[m][pos[m]]
      BY <1>0, <3>1, KidIsChild
    <3>3. pos[m] < Len(Kids[m]) => x # Kids[m][pos[m] + 1]
      BY <1>0, <3>1, KidIsChild
    <3> QED
      BY <1>0, <2>2, <3>2, <3>3 DEF SeqStep
  <2>3. CASE ParallelJoins(m)
    BY <1>0, <2>3 DEF ParallelJoins
  <2>4. CASE PassesOn(m)
    BY <1>0, <2>4 DEF PassesOn
  <2>5. CASE LoopTurn(m) \/ LoopBodyReturns(m)
    BY <1>0, <2>1, <2>5 DEF LoopTurn, LoopBodyReturns, Loops
  <2>6. CASE RetryTurn(m) \/ RetryBodyReturns(m)
    BY <1>0, <2>1, <2>6 DEF RetryTurn, RetryBodyReturns, Loops
  <2>7. CASE Awake(m) \/ Acquire(m) \/ Execute(m) \/ ActionReturns(m)
    BY <1>0, <2>7 DEF Awake, Acquire, Execute, ActionReturns
  <2> QED
    BY <1>2, <2>2, <2>3, <2>4, <2>5, <2>6, <2>7 DEF Resume
<1>3. CASE Elapses(m)
  BY <1>0, <1>3 DEF Elapses, Dropped
<1>4. CASE Panics(m)
  <2>1. RunOf[m] \in Nodes
    BY WorkflowAssumption
  <2>2. at'[RunOf[m]] = "panicked"
    BY <1>4, <2>1 DEF Panics
  <2>3. RunOf[x] # RunOf[m]
    BY <2>2 DEF Cut
  <2>4. x # RunOf[m]
    BY <2>3, WorkflowAssumption, RootFacts
  <2> QED
    BY <1>0, <1>4, <2>3, <2>4 DEF Panics
<1> QED
  BY <1>1, <1>2, <1>3, <1>4

\* Which steps a node can take where it is.
LEMMA StepsFrom ==
  ASSUME NEW m \in Nodes, Enter(m) \/ Resume(m) \/ Elapses(m) \/ Panics(m)
  PROVE  /\ at[m] # "idle" /\ at[m] \notin Flow
         /\ at[m] = "working" => \/ SeqStep(m) \/ ParallelJoins(m) \/ PassesOn(m)
                                 \/ LoopBodyReturns(m) \/ RetryBodyReturns(m) \/ Elapses(m)
<1>1. CASE Enter(m)
  BY <1>1 DEF Enter, BailOut, EnterAction, EnterSeq, EnterParallel, EnterIf, EnterTimeout,
     EnterLoop, EnterWait, Enters
<1>2. CASE Resume(m)
  BY <1>2 DEF Resume, Awake, SeqStep, ParallelJoins, PassesOn, LoopTurn, LoopBodyReturns,
     RetryTurn, RetryBodyReturns, Acquire, Execute, ActionReturns
<1>3. CASE Elapses(m) \/ Panics(m)
  BY <1>3 DEF Elapses, Panics
<1> QED
  BY <1>1, <1>2, <1>3

LEMMA OverKept ==
  ASSUME NEW n \in Nodes, Over(n), \A q \in Path(n) : at'[q] = at[q] /\ pos'[q] = pos[q]
  PROVE  Over(n)'
<1>1. PICK p \in Path(n) : Behind(p, n) /\ \A q \in Path(n) : q \in Below[p] => at[q] = "idle"
  BY DEF Over
<1>2. Behind(p, n)'
  BY <1>1 DEF Behind
<1>3. \A q \in Path(n) : q \in Below[p] => at'[q] = "idle"
  BY <1>1
<1> QED
  BY <1>1, <1>2, <1>3 DEF Over

\* A Seq or a Parallel around what is done alone has no Retry around it.
LEMMA NoRetryAbove ==
  ASSUME NEW n \in Nodes, AloneUnderRetry(n), NEW m \in Nodes, n \in Below[m],
         Kind[m] \in {"Seq", "Parallel"}
  PROVE  Unretried(m)
BY DEF AloneUnderRetry, Unretried

\* The Seq that has gone on takes a step.
LEMMA SeqStaysBehind ==
  ASSUME TreeInv, NEW n \in Nodes, AloneUnderRetry(n), NEW p \in Path(n), SeqStep(p),
         NEW i \in DOMAIN Kids[p], i < pos[p], Kids[p][i] \in Path(n),
         \A q \in Path(n) : q \in Below[p] => at[q] = "idle"
  PROVE  Over(n)'
<1> DEFINE c == Kids[p][pos[p]]
           d == Kids[p][pos[p] + 1]
<1>0. p \in Nodes /\ Kind[p] = "Seq" /\ at[p] = "working" /\ at[c] \in Flow
  BY PathFacts DEF SeqStep
<1>1. /\ at \in [Nodes -> Place] /\ pos \in [Nodes -> Nat]
      /\ pos[p] \in DOMAIN Kids[p] /\ Kids[p] \in Seq(Nodes)
  BY <1>0, WorkflowAssumption DEF TreeInv, TypeOK, SeqInRange
<1>2. c \in Children(p) /\ c \in Nodes /\ c # p
  BY <1>0, <1>1, KidIsChild, ChildBelow
<1>3. n \in Below[p] /\ Unretried(p)
  <2>1. Kids[p][i] \in Below[p] /\ Kids[p][i] \in Nodes
    BY <1>0, KidIsChild, ChildBelow
  <2>2. n \in Below[p]
    BY <1>0, <2>1, BelowFacts DEF Path
  <2> QED
    BY <1>0, <2>2, NoRetryAbove
<1>4. CASE at[c] = "Continue" /\ pos[p] < Len(Kids[p])
  <2>1. /\ at' = [at EXCEPT ![c] = "idle", ![d] = "called"]
        /\ pos' = [pos EXCEPT ![p] = pos[p] + 1]
    BY <1>4 DEF SeqStep
  <2>2. pos[p] + 1 \in DOMAIN Kids[p] /\ i # pos[p] + 1
    BY <1>1, <1>4
  <2>3. d \in Children(p) /\ d # p /\ d \notin Path(n)
    <3>1. d \in Children(p) /\ d # p
      BY <1>0, <2>2, KidIsChild, ChildBelow
    <3>2. d # Kids[p][i]
      BY <1>0, <2>2, TreeAssumption
    <3> QED
      BY <1>0, <3>1, <3>2, KidIsChild, PathChild
  <2> HIDE DEF c, d
  <2>4. at'[p] = "working" /\ i < pos'[p]
    BY <1>0, <1>1, <1>2, <2>1, <2>3
  <2>5. \A q \in Path(n) : q \in Below[p] => at'[q] = "idle"
    BY <1>1, <2>1, <2>3, PathFacts
  <2> QED
    BY <1>0, <2>4, <2>5 DEF Over, Behind
<1>5. CASE ~(at[c] = "Continue" /\ pos[p] < Len(Kids[p]))
  <2>1. at' = [at EXCEPT ![p] = at[c], ![c] = "idle"]
    BY <1>5 DEF SeqStep, Leave
  <2> HIDE DEF c
  <2>2. at'[p] = at[c]
    BY <1>0, <1>1, <1>2, <2>1
  <2>3. \A q \in Path(n) : q \in Below[p] => at'[q] = "idle"
    BY <1>0, <1>1, <2>1, PathFacts, BelowFacts
  <2> QED
    BY <1>0, <1>3, <2>2, <2>3 DEF Over, Behind
<1> QED
  BY <1>4, <1>5

\* A parent reads the node that the turn of n is behind, and n is behind the parent.
LEMMA ParentStaysBehind ==
  ASSUME TreeInv, NEW n \in Nodes, AloneUnderRetry(n), NEW m \in Path(n), NEW p \in Path(n),
         p \in Below[m], Behind(p, n), \A q \in Path(n) : q \in Below[p] => at[q] = "idle",
         \/ SeqStep(m) \/ ParallelJoins(m) \/ PassesOn(m) \/ LoopBodyReturns(m) \/ RetryBodyReturns(m)
  PROVE  Over(n)'
<1>0. /\ at \in [Nodes -> Place] /\ pos \in [Nodes -> Nat]
      /\ m \in Nodes /\ p \in Nodes /\ at[p] # "idle"
  BY PathFacts DEF TreeInv, TypeOK, Behind
<1>1. n \in Below[m] /\ Kind[m] \notin {"While", "ForEach"}
  <2>1. n \in Below[m]
    BY <1>0, BelowFacts DEF Path
  <2> QED
    BY <1>0, <2>1 DEF AloneUnderRetry
<1>2. PICK c \in Children(m) : p = c \/ p \in Below[c]
  BY <1>0, BelowFacts
<1>3. c \in Nodes /\ c \in Below[m] /\ c \in Path(n) /\ c # m
  BY <1>0, <1>2, ChildBelow, PathFacts
<1>4. at[c] # "idle" /\ (p # c => at[c] = "working")
  BY <1>0, <1>2, <1>3, WorkingAbove DEF TreeInv
<1>5. ASSUME NEW d \in Children(m), Returned(d), Kind[m] # "Parallel" PROVE d = c
  BY <1>0, <1>3, <1>4, <1>5, OnlyChild DEF TreeInv
<1>6. ASSUME Returned(c) PROVE p = c /\ (at[p] = "Failed" => Unretried(p))
  BY <1>2, <1>4, <1>6 DEF Behind
<1>7. ASSUME NEW q \in Path(n), q \in Below[m], q # c PROVE q \in Below[c] /\ q \notin Children(m)
  <2>1. q \in Nodes
    BY PathFacts
  <2>2. q \in Children(m) \/ \E b \in Children(m) : q \in Below[b]
    BY <1>0, <1>7, BelowFacts
  <2>3. \A b \in Children(m) : q = b \/ q \in Below[b] => b \in Path(n)
    BY <2>1, ChildBelow, PathFacts, <1>0
  <2>4. \A b \in Children(m) : q = b \/ q \in Below[b] => b = c
    BY <1>0, <1>3, <2>3, PathChild
  <2> QED
    BY <1>7, <2>2, <2>4
<1>8. Kind[m] \in {"Seq", "Parallel"} => Unretried(m)
  BY <1>0, <1>1, NoRetryAbove
<1>9. Unretried(c) => Unretried(m)
  BY <1>3, <1>0, BelowFacts DEF Unretried
<1>10. ASSUME Returned(c), NEW v \in {"Continue", "Stop", "Failed"},
              v = "Failed" => Unretried(m), at' = [at EXCEPT ![m] = v, ![c] = "idle"]
       PROVE  Over(n)'
  <2>1. at'[m] = v /\ at'[c] = "idle"
    BY <1>0, <1>3, <1>10
  <2>2. ASSUME NEW q \in Path(n), q \in Below[m], q # c PROVE at'[q] = "idle"
    <3>1. q \in Nodes /\ q # m /\ at[q] = "idle"
      BY <1>0, <1>6, <1>7, <1>10, <2>2, BelowFacts
    <3> QED
      BY <1>0, <1>10, <2>2, <3>1
  <2> QED
    BY <1>10, <2>1, <2>2 DEF Over, Behind
<1>11. CASE SeqStep(m)
  <2> DEFINE d == Kids[m][pos[m] + 1]
  <2>1. /\ Kind[m] = "Seq" /\ at[m] = "working"
        /\ pos[m] \in DOMAIN Kids[m] /\ Kids[m] \in Seq(Nodes)
    BY <1>0, <1>11, WorkflowAssumption DEF SeqStep, TreeInv, SeqInRange
  <2>2. Kids[m][pos[m]] \in Children(m) /\ Returned(Kids[m][pos[m]])
    BY <1>0, <1>11, <2>1, KidIsChild DEF SeqStep
  <2>3. c = Kids[m][pos[m]] /\ Returned(c)
    BY <1>5, <2>1, <2>2
  <2>4. CASE at[c] = "Continue" /\ pos[m] < Len(Kids[m])
    <3>1. /\ at' = [at EXCEPT ![c] = "idle", ![d] = "called"]
          /\ pos' = [pos EXCEPT ![m] = pos[m] + 1]
      BY <1>11, <2>3, <2>4 DEF SeqStep
    <3>2. pos[m] + 1 \in DOMAIN Kids[m]
      BY <2>1, <2>4
    <3>3. d \in Children(m) /\ d # m /\ d # c
      BY <1>0, <2>1, <2>3, <3>2, KidIsChild, ChildBelow, TreeAssumption
    <3> HIDE DEF d
    <3>4. at'[m] = "working" /\ pos[m] < pos'[m] /\ at'[c] = "idle"
      BY <1>0, <1>3, <2>1, <3>1, <3>3
    <3>5. ASSUME NEW q \in Path(n), q \in Below[m], q # c PROVE at'[q] = "idle"
      <4>1. q \in Nodes /\ q # d /\ at[q] = "idle"
        BY <1>6, <1>7, <2>3, <3>3, <3>5, PathFacts
      <4> QED
        BY <1>0, <3>1, <3>5, <4>1
    <3> QED
      BY <1>3, <2>1, <2>3, <3>4, <3>5 DEF Over, Behind
  <2>5. CASE ~(at[c] = "Continue" /\ pos[m] < Len(Kids[m]))
    <3>1. at' = [at EXCEPT ![m] = at[c], ![c] = "idle"]
      BY <1>11, <2>3, <2>5 DEF SeqStep, Leave
    <3> QED
      BY <1>8, <1>10, <2>1, <2>3, <3>1
  <2> QED
    BY <2>4, <2>5
<1>12. CASE ParallelJoins(m)
  <2>1. Kind[m] = "Parallel" /\ Returned(c)
    BY <1>12 DEF ParallelJoins
  <2>2. at'[m] \in {"Continue", "Stop", "Failed"} /\ at'[c] = "idle"
    BY <1>0, <1>3, <1>12 DEF ParallelJoins, Merged
  <2>3. ASSUME NEW q \in Path(n), q \in Below[m], q # c PROVE at'[q] = "idle"
    <3>1. q \in Nodes /\ q # m /\ q \notin Children(m) /\ at[q] = "idle"
      BY <1>0, <1>6, <1>7, <2>1, <2>3, BelowFacts
    <3> QED
      BY <1>12, <3>1 DEF ParallelJoins
  <2> QED
    BY <1>8, <2>1, <2>2, <2>3 DEF Over, Behind
<1>13. CASE PassesOn(m)
  <2>1. PICK d \in Children(m) : Returned(d) /\ at' = [at EXCEPT ![m] = at[d], ![d] = "idle"]
    BY <1>13 DEF PassesOn, Leave
  <2>2. Kind[m] # "Parallel"
    BY <1>13 DEF PassesOn
  <2>3. d = c
    BY <1>5, <2>1, <2>2
  <2> QED
    BY <1>6, <1>9, <1>10, <2>1, <2>3
<1>14. CASE RetryBodyReturns(m)
  <2>1. Kind[m] = "Retry" /\ Kids[m][1] \in Children(m) /\ Returned(Kids[m][1])
    BY <1>0, <1>14, FirstKid DEF RetryBodyReturns, Loops
  <2>2. Kids[m][1] = c
    BY <1>5, <2>1
  <2>3. at[c] # "Failed"
    BY <1>0, <1>3, <1>6, <2>1, <2>2 DEF Unretried
  <2>4. at' = [at EXCEPT ![m] = at[c], ![c] = "idle"]
    BY <1>14, <2>2, <2>3 DEF RetryBodyReturns, Leave
  <2> QED
    BY <1>10, <2>1, <2>2, <2>3, <2>4
<1>15. CASE LoopBodyReturns(m)
  BY <1>1, <1>15 DEF LoopBodyReturns
<1> QED
  BY <1>11, <1>12, <1>13, <1>14, <1>15

LEMMA OverStays ==
  ASSUME TreeInv, [Next]_vars, NEW n \in Nodes, AloneUnderRetry(n), Over(n), ~Cut(RunOf[n])'
  PROVE  Over(n)'
<1>0. at \in [Nodes -> Place] /\ pos \in [Nodes -> Nat] /\ \A q \in Path(n) : q \in Nodes
  BY PathFacts DEF TreeInv, TypeOK
<1>1. PICK p \in Path(n) : Behind(p, n) /\ \A q \in Path(n) : q \in Below[p] => at[q] = "idle"
  BY DEF Over
<1>2. at[p] # "idle" /\ p \in Nodes /\ RunOf[p] = RunOf[n]
  BY <1>1, PathFacts DEF Behind
<1>3. ASSUME NEW r \in Roots, Start(r) \/ Cancel(r) PROVE Over(n)'
  <2>1. CASE Cancel(r)
    BY <2>1, OverKept DEF Cancel
  <2>2. CASE Start(r)
    <3>1. ASSUME r \in Path(n) PROVE FALSE
      <4>1. RunOf[p] = r /\ r \in Nodes
        BY <1>2, <3>1, PathFacts, RootFacts
      <4>2. p = r \/ p \in Below[r]
        BY <1>2, <4>1, RootFacts
      <4>3. at[r] = "idle"
        BY <2>2 DEF Start
      <4> QED
        BY <1>2, <4>1, <4>2, <4>3, WorkingAbove DEF TreeInv
    <3>2. \A q \in Path(n) : at'[q] = at[q] /\ pos'[q] = pos[q]
      BY <1>0, <2>2, <3>1 DEF Start
    <3> QED
      BY <3>2, OverKept
  <2> QED
    BY <1>3, <2>1, <2>2
<1>4. ASSUME NEW m \in Nodes, Enter(m) \/ Resume(m) \/ Elapses(m) \/ Panics(m) PROVE Over(n)'
  <2>1. CASE m \notin Path(n)
    <3>1. ASSUME NEW q \in Path(n) PROVE at'[q] = at[q] /\ pos'[q] = pos[q]
      <4>1. q \in Nodes /\ q # m /\ q \notin Below[m] /\ RunOf[q] = RunOf[n]
        BY <2>1, PathFacts
      <4> QED
        BY <1>4, <4>1, OffThePath DEF Cut
    <3> QED
      BY <3>1, OverKept
  <2>2. CASE m \in Path(n)
    <3>1. at[m] # "idle" /\ at[m] \notin Flow
      BY <1>4, StepsFrom
    <3>2. m = p \/ p \in Below[m]
      BY <1>1, <1>2, <2>2, <3>1, PathOrder
    <3>3. ~Elapses(m)
      <4>1. RunOf[m] = RunOf[n]
        BY <2>2, PathFacts
      <4> QED
        BY <4>1 DEF Elapses, TokenOf, Cut
    <3>4. at[m] = "working"
      BY <1>1, <1>2, <3>1, <3>2, WorkingAbove DEF TreeInv, Behind
    <3>5. SeqStep(m) \/ ParallelJoins(m) \/ PassesOn(m) \/ LoopBodyReturns(m) \/ RetryBodyReturns(m)
      BY <1>4, <3>3, <3>4, StepsFrom
    <3>6. CASE m = p
      <4>1. /\ Kind[p] = "Seq"
            /\ \E i \in DOMAIN Kids[p] : i < pos[p] /\ Kids[p][i] \in Path(n)
        BY <1>1, <3>4, <3>6 DEF Behind
      <4>2. SeqStep(p)
        BY <3>5, <3>6, <4>1 DEF ParallelJoins, PassesOn, LoopBodyReturns, RetryBodyReturns
      <4> QED
        BY <1>1, <4>1, <4>2, SeqStaysBehind
    <3>7. CASE p \in Below[m]
      BY <1>1, <2>2, <3>5, <3>7, ParentStaysBehind
    <3> QED
      BY <3>2, <3>6, <3>7
  <2> QED
    BY <2>1, <2>2
<1>5. CASE UNCHANGED vars
  BY <1>5, OverKept DEF vars
<1> QED
  BY <1>3, <1>4, <1>5 DEF Next, AllEnded

\* Some operation of n was done or is under way, and it is the last.
Spent(n) == \E k \in DOMAIN work[n] : work[n][k].is \notin Errors

LastLeft(n) == \A k \in DOMAIN work[n] : k < Len(work[n]) => work[n][k].is \in Errors

\* n may yet give an operation to a backend, and n waits for one.
Ready(n) == at[n] = "acquiring" \/ (at[n] = "executing" /\ step[n] <= Len(Backends))

Awaits(n) == at[n] = "executing" /\ step[n] > Len(Backends)

DoneInv ==
  \A n \in Nodes : (AloneUnderRetry(n) /\ Spent(n)) =>
    LastLeft(n) /\ ~Ready(n) /\ (Cut(RunOf[n]) \/ Awaits(n) \/ Over(n))

\* What is over is not called.
LEMMA OverIsIdle ==
  ASSUME NEW n \in Nodes, Kind[n] = "Action", Over(n)
  PROVE  at[n] \in Flow \union {"idle"}
<1>1. PICK p \in Path(n) : Behind(p, n) /\ \A q \in Path(n) : q \in Below[p] => at[q] = "idle"
  BY DEF Over
<1> QED
  BY <1>1 DEF Path, Behind

\* The operations of n stay as they are, or one of them lands.
LEMMA DoneKeeps ==
  ASSUME TreeInv, LockInv, DataInv, OnlyInteractions, DoneInv, [ActionsNext]_avars,
         NEW n \in Nodes, AloneUnderRetry(n), Spent(n), LastLeft(n)', ~Submits(n)
  PROVE  LastLeft(n)' /\ ~Ready(n)' /\ (Cut(RunOf[n])' \/ Awaits(n)' \/ Over(n)')
<1>0. /\ at \in [Nodes -> Place] /\ step \in [Nodes -> Nat] /\ work \in [Nodes -> Seq(Operation)]
      /\ RunOf[n] \in Roots /\ Len(Backends) \in Nat
  <2>1. step \in [Nodes -> Nat] /\ work \in [Nodes -> Seq(Operation)]
    BY DEF DataInv, ActionsTypeOK, Operation
  <2> QED
    BY <2>1, WorkflowAssumption, BodyFacts DEF TreeInv, TypeOK
<1>1. /\ ~Ready(n) /\ LastLeft(n) /\ Job[n] = "interact" /\ Kind[n] = "Action"
      /\ Cut(RunOf[n]) \/ Awaits(n) \/ Over(n)
  <2>1. work[n] # <<>>
    BY <1>0 DEF Spent
  <2>2. Job[n] = "interact"
    BY <2>1 DEF OnlyInteractions
  <2> QED
    BY <2>2, BodyFacts DEF DoneInv
<1>2. [Next]_vars /\ (Cut(RunOf[n]) => Cut(RunOf[n])')
  BY <1>0, StepIsNext, CutStays
<1>3. ASSUME at[n] = "called", RunOf[n] \notin cancelled PROVE FALSE
  <2>1. ~Cut(RunOf[n])
    <3>1. n = RunOf[n] \/ n \in Below[RunOf[n]]
      BY <1>0, RootFacts
    <3> QED
      BY <1>0, <1>3, <3>1, RootFacts, WorkingAbove DEF Cut, TreeInv
  <2>2. ~Awaits(n) /\ ~Over(n)
    BY <1>1, <1>3, OverIsIdle DEF Awaits
  <2> QED
    BY <1>1, <2>1, <2>2
<1> DEFINE Rest == ~Ready(n)' /\ (Cut(RunOf[n])' \/ Awaits(n)' \/ Over(n)')
<1>4. ASSUME ~Ready(n)', Awaits(n) => Cut(RunOf[n])' \/ Awaits(n)' \/ Over(n)' PROVE Rest
  BY <1>1, <1>2, <1>4, OverStays DEF Cut
<1>5. ASSUME at'[n] = at[n], step'[n] = step[n] PROVE Rest
  BY <1>0, <1>1, <1>4, <1>5 DEF Ready, Awaits
<1>6. ASSUME NEW r \in Roots, Start(r) \/ Cancel(r), step' = step PROVE Rest
  <2>1. at'[n] = at[n] \/ (at[n] = "idle" /\ at'[n] = "called")
    BY <1>0, <1>6 DEF Start, Cancel
  <2> QED
    BY <1>4, <1>5, <1>6, <2>1 DEF Ready, Awaits
<1>7. ASSUME NEW m \in Nodes, Interprets(m) PROVE Rest
  <2>1. CASE at'[n] = at[n]
    <3>1. at[n] = "executing" => step'[n] = step[n]
      BY <1>7, <2>1 DEF Interprets
    <3> QED
      BY <1>1, <1>4, <1>5, <2>1, <3>1 DEF Ready, Awaits
  <2>2. CASE at'[n] # at[n]
    <3>1. ~(n = m /\ at[n] = "called" /\ at'[n] = "acquiring")
      <4>1. at[n] = "called" => RunOf[n] \in cancelled
        BY <1>3
      <4>2. ASSUME n = m, at[n] = "called" PROVE at'[n] = "Stop"
        <5>1. Enter(n)
          BY <1>7, <4>2 DEF Interprets, Elapses, Panics, Resume, Awake, SeqStep, ParallelJoins,
             PassesOn, LoopTurn, LoopBodyReturns, RetryTurn, RetryBodyReturns, Acquire, Execute,
             ActionReturns
        <5> QED
          BY <1>0, <4>1, <4>2, <5>1 DEF Enter, Enters, BailOut, EnterAction, EnterSeq,
             EnterParallel, EnterIf, EnterTimeout, EnterLoop, EnterWait
      <4> QED
        BY <4>2
    <3>2. /\ at'[n] \notin {"acquiring", "executing"}
          /\ at[n] = "executing" => RunOf[n] = RunOf[m] /\ (Elapses(m) \/ Panics(m))
      BY <1>1, <1>7, <2>2, <3>1, LibraryMoves DEF Ready
    <3>3. at[n] = "executing" => Cut(RunOf[n])'
      <4>1. RunOf[m] \in Nodes
        BY WorkflowAssumption
      <4> QED
        BY <3>2, <4>1 DEF Elapses, Panics, Cut, TokenOf
    <3> QED
      BY <1>4, <3>2, <3>3 DEF Ready, Awaits
  <2> QED
    BY <2>1, <2>2
<1>8. ASSUME NEW m \in Nodes, Work(m) PROVE Rest
  <2>1. CASE m # n
    <3>1. at'[n] = at[n] /\ step'[n] = step[n]
      BY <1>0, <1>8, <2>1 DEF Work, ScriptRuns, ScriptFlushes, ScriptEnds, SetsVariable, Types,
         TypingEnds, Asks, NoBackend, Submits, Answers, Goes, Returns, vars
    <3> QED
      BY <1>5, <3>1
  <2>2. CASE m = n
    <3>1. Answers(n)
      BY <1>0, <1>1, <1>8, <2>2 DEF Ready, Work, Works, ScriptRuns, ScriptFlushes, ScriptEnds,
         SetsVariable, Types, TypingEnds, Asks, NoBackend
    <3> DEFINE last == work[n][Len(work[n])].is
    <3>2. /\ at' = [at EXCEPT ![n] = IF last = "done" THEN "Continue" ELSE "Failed"]
          /\ last \notin UnderWay
      BY <3>1 DEF Answers, Returns
    <3>3. last \notin Errors
      <4>1. PICK k \in DOMAIN work[n] : work[n][k].is \notin Errors
        BY DEF Spent
      <4>2. k \in 1..Len(work[n]) /\ Len(work[n]) \in Nat /\ ~(k < Len(work[n]))
        BY <1>0, <1>1, <4>1 DEF LastLeft
      <4> QED
        BY <4>1, <4>2
    <3>4. work[n] \in Seq(Operation) /\ Len(work[n]) \in DOMAIN work[n]
      BY <1>0 DEF Spent
    <3>5. work[n][Len(work[n])] \in Operation
      BY <3>4
    <3>6. last \in Fate
      BY <3>5 DEF Operation
    <3> HIDE DEF last
    <3>7. at'[n] = "Continue"
      BY <1>0, <3>2, <3>3, <3>6 DEF Fate
    <3>8. Over(n)'
      <4>1. n \in Path(n) /\ \A q \in Path(n) : q \notin Below[n]
        BY BelowFacts DEF Path
      <4> QED
        BY <3>7, <4>1 DEF Over, Behind
    <3>9. ~Ready(n)'
      BY <1>0, <3>2 DEF Ready
    <3> QED
      BY <1>4, <3>8, <3>9
  <2> QED
    BY <2>1, <2>2
<1>9. CASE UNCHANGED <<vars, step>>
  BY <1>5, <1>9 DEF vars
<1> QED
  <2>1. ASSUME NEW m \in Nodes, NEW k \in DOMAIN work[m], OnThread(m, k) PROVE Rest
    BY <1>9, <2>1 DEF OnThread, Fronts, Lands
  <2> QED
    BY <1>6, <1>7, <1>8, <1>9, <2>1 DEF ActionsNext, avars

LEMMA DoneNext ==
  TreeInv /\ LockInv /\ DataInv /\ OnlyInteractions /\ DoneInv /\ [ActionsNext]_avars => DoneInv'
<1> SUFFICES ASSUME TreeInv, LockInv, DataInv, OnlyInteractions, DoneInv, [ActionsNext]_avars,
                    NEW n \in Nodes, AloneUnderRetry(n), Spent(n)'
             PROVE  LastLeft(n)' /\ ~Ready(n)' /\ (Cut(RunOf[n])' \/ Awaits(n)' \/ Over(n)')
  BY DEF DoneInv
<1>0. /\ at \in [Nodes -> Place] /\ step \in [Nodes -> Nat] /\ work \in [Nodes -> Seq(Operation)]
      /\ Len(Backends) \in Nat
  <2>1. step \in [Nodes -> Nat] /\ work \in [Nodes -> Seq(Operation)]
    BY DEF DataInv, ActionsTypeOK, Operation
  <2> QED
    BY <2>1, BodyFacts DEF TreeInv, TypeOK
<1>1. CASE work'[n] = work[n] /\ ~Submits(n)
  <2>1. Spent(n) /\ LastLeft(n)'
    BY <1>1 DEF Spent, LastLeft, DoneInv
  <2> QED
    BY <1>1, <2>1, DoneKeeps
<1>2. CASE Submits(n)
  <2>1. PICK i \in Chosen(n) : work' = [work EXCEPT ![n] = Append(@, [on |-> i, is |-> "given"])]
    BY <1>2 DEF Submits
  <2>2. /\ step[n] = Len(Backends) /\ at[n] = "executing"
        /\ step'[n] = step[n] + 1 /\ at'[n] = at[n]
    BY <1>0, <1>2 DEF Submits, Works, Goes, vars
  <2>3. ~Spent(n)
    BY <1>0, <2>2 DEF DoneInv, Ready
  <2>4. /\ work[n] \in Seq(Operation)
        /\ work'[n] = Append(work[n], [on |-> i, is |-> "given"])
    BY <1>0, <2>1
  <2>5. \A k \in DOMAIN work'[n] : k # Len(work'[n]) => work'[n][k].is \in Errors
    <3>1. ASSUME NEW k \in DOMAIN work'[n], k # Len(work'[n])
          PROVE  k \in DOMAIN work[n] /\ work'[n][k] = work[n][k]
      BY <2>4, <3>1
    <3> QED
      BY <2>3, <3>1 DEF Spent
  <2>6. LastLeft(n)'
    <3>1. Len(work'[n]) \in Nat
      BY <2>4
    <3> QED
      BY <2>5, <3>1 DEF LastLeft
  <2>7. Awaits(n)'
    BY <1>0, <2>2 DEF Awaits
  <2>8. ~Ready(n)'
    BY <1>0, <2>2 DEF Ready
  <2> QED
    BY <2>6, <2>7, <2>8
<1>3. CASE work'[n] # work[n] /\ ~Submits(n)
  <2>1. PICK m \in Nodes : \E k \in DOMAIN work[m] : OnThread(m, k)
    <3>1. ASSUME NEW m \in Nodes, Work(m) PROVE work'[n] = work[n]
      BY <1>0, <1>3, <3>1 DEF Work, ScriptRuns, ScriptFlushes, ScriptEnds, SetsVariable, Types,
         TypingEnds, Asks, NoBackend, Submits, Answers
    <3> QED
      BY <1>3, <3>1 DEF ActionsNext, Interprets, avars, data
  <2>2. /\ Len(work'[n]) = Len(work[n]) /\ DOMAIN work'[n] = DOMAIN work[n]
        /\ \A k \in DOMAIN work[n] : work'[n][k].is \notin Errors => work[n][k].is \notin Errors
    BY <2>1, ThreadFacts DEF DataInv
  <2>3. Spent(n) /\ LastLeft(n)'
    BY <2>2 DEF Spent, LastLeft, DoneInv
  <2> QED
    BY <1>3, <2>3, DoneKeeps
<1> QED
  BY <1>1, <1>2, <1>3

(* An interaction that is retried by itself gives its operation to a       *)
(* backend again only when the one before was answered with an error:      *)
(* while an operation of it was done or is under way, the Retry around it  *)
(* has seen a success, or is cut off by the token that the timeout set     *)
(* (workflow.rs, the Retry and Timeout of run_node; action.rs).  An        *)
(* error may be reported for an operation that took effect.                *)
THEOREM RetriesDoNotRepeat == ActionsSpec => []RepeatedOnlyOnError
<1>1. ActionsInit => DoneInv /\ OnlyInteractions
  BY DEF ActionsInit, DoneInv, Spent, OnlyInteractions
<1>2. TreeInv /\ LockInv /\ DataInv /\ OnlyInteractions /\ [ActionsNext]_avars => OnlyInteractions'
  BY OnlyInteractionsNext
<1>3. DataInv /\ DoneInv => RepeatedOnlyOnError
  <2> SUFFICES ASSUME DoneInv, DataInv, NEW n \in Nodes, NEW k \in 1..(Len(work[n]) - 1),
                      AloneUnderRetry(n)
               PROVE  work[n][k].is \in Errors
    BY DEF RepeatedOnlyOnError
  <2>1. work[n] \in Seq(Operation)
    BY DEF DataInv, ActionsTypeOK, Operation
  <2>2. k \in DOMAIN work[n] /\ k < Len(work[n])
    BY <2>1
  <2> QED
    BY <2>2 DEF DoneInv, Spent, LastLeft
<1> QED
  BY <1>1, <1>2, <1>3, DoneNext, DataHolds, PTL DEF ActionsSpec

=============================================================================
