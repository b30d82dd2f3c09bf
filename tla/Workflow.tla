------------------------------ MODULE Workflow ------------------------------
(***************************************************************************)
(* The workflow engine (crates/core/src/workflow.rs): run_node interprets  *)
(* the node tree of each run as a tree of futures, runs share the locks of *)
(* a ResourcePool, and a future can be dropped at any await by a Timeout   *)
(* above it.                                                               *)
(*                                                                         *)
(* A node is one future at a time: `at` says where it is, and the state of *)
(* a returned child is read, and cleared, by its parent.  Branches of one  *)
(* run are polled by one task; here every node takes its steps on its own, *)
(* which allows all the interleavings that the task can produce at awaits. *)
(* Conditions and actions may yield any result their code can return, and  *)
(* a sleep may take any time.                                              *)
(***************************************************************************)
EXTENDS Naturals, Sequences, FiniteSets

CONSTANTS
  Nodes,        (* the nodes of all the workflow trees                     *)
  Roots,        (* one per run; a run is named by its root                 *)
  Kind, Kids,   (* what a node is, and its children in order               *)
  Below,        (* all the nodes under a node                              *)
  RunOf,        (* the run a node belongs to                               *)
  Limit,        (* max_iter, the length of items, or times, of a loop      *)
  Resources,
  Claims,       (* resources() of an action, in order                      *)
  PoolOf,       (* the ResourcePool in the context of a run                *)
  DryRuns,      (* runs whose ctx.dry_run is set                           *)
  Cancellable,  (* runs whose token somebody outside the run may set       *)
  MayPanic      (* actions that may panic                                  *)

Loops    == {"While", "ForEach", "Retry"}
NodeKind == {"Action", "Seq", "Parallel", "If", "Timeout", "Wait"} \union Loops

Children(n) == {Kids[n][k] : k \in DOMAIN Kids[n]}

ASSUME WorkflowAssumption ==
  /\ Roots \subseteq Nodes /\ DryRuns \subseteq Roots /\ Cancellable \subseteq Roots
  /\ MayPanic \subseteq Nodes
  /\ Kind \in [Nodes -> NodeKind]
  /\ Kids \in [Nodes -> Seq(Nodes)]
  /\ Below \in [Nodes -> SUBSET Nodes]
  /\ RunOf \in [Nodes -> Roots]
  /\ Limit \in [Nodes -> Nat]
  /\ Claims \in [Nodes -> Seq(Resources)]

\* The trees are trees: every node but the roots has one parent.
ASSUME TreeAssumption ==
  /\ \A n \in Nodes :
       /\ n \notin Below[n]
       /\ Below[n] = Children(n) \union UNION {Below[c] : c \in Children(n)}
       /\ Children(n) \intersect Roots = {}
       /\ \A c \in Children(n) : RunOf[c] = RunOf[n]
       /\ \A i, j \in DOMAIN Kids[n] : Kids[n][i] = Kids[n][j] => i = j
       /\ \A m \in Nodes : Children(n) \intersect Children(m) # {} => n = m
       /\ Kind[n] \in {"Action", "Wait"} => Kids[n] = <<>>
       /\ Kind[n] \in Loops \union {"Timeout"} => Len(Kids[n]) = 1
       /\ Kind[n] = "If" => Len(Kids[n]) \in {1, 2}
  /\ \A r \in Roots : RunOf[r] = r /\ \A n \in Nodes : RunOf[n] = r => n \in Below[r] \union {r}

\* What follows for the nodes further down.
ASSUME AncestryAssumption ==
  \A n \in Nodes :
    /\ \A m \in Below[n] : Below[m] \subseteq Below[n] /\ RunOf[m] = RunOf[n]
    /\ \A c \in Children(n), m \in Nodes : c \in Below[m] => m = n \/ n \in Below[m]
    /\ \A b, c \in Children(n) : b # c => Below[b] \intersect Below[c] = {}

VARIABLES
  at,         (* where the future of a node is, or the Flow it returned     *)
  pos,        (* child of a Seq, turns made of a loop, locks held by action *)
  owner,      (* the action that holds the guard of a lock, if any          *)
  cancelled   (* runs whose token is set                                    *)

vars == <<at, pos, owner, cancelled>>

Flow  == {"Continue", "Stop", "Failed"}
Place == {"idle", "called", "turning", "sleeping", "working", "acquiring", "executing",
          "panicked"} \union Flow

Lock(n, i) == <<PoolOf[RunOf[n]], Claims[n][i]>>
Locks      == {PoolOf[r] : r \in Roots} \X Resources

TypeOK ==
  /\ at \in [Nodes -> Place]
  /\ pos \in [Nodes -> Nat]
  /\ owner \in [Locks -> SUBSET Nodes]
  /\ cancelled \in SUBSET Roots

Init ==
  /\ at = [n \in Nodes |-> "idle"]
  /\ pos = [n \in Nodes |-> 0]
  /\ owner = [l \in Locks |-> {}]
  /\ cancelled = {}

-----------------------------------------------------------------------------
(* What steps are made of.                                                 *)

Returned(n) == at[n] \in Flow

\* n returns f to its parent, or goes on to `to`, having read its child c.
Leave(n, c, to) == at' = [at EXCEPT ![n] = to, ![c] = "idle"]

\* n polls the future of its child c.
Call(n, c) == at' = [at EXCEPT ![n] = "working", ![c] = "called"]

\* The guards of the nodes in S are dropped.
OwnersWithout(S) == [l \in Locks |-> owner[l] \ S]

-----------------------------------------------------------------------------
\* run_workflow is called with the root of a run.
Start(r) ==
  /\ at[r] = "idle"
  /\ at' = [at EXCEPT ![r] = "called"]
  /\ UNCHANGED <<pos, owner, cancelled>>

\* RestartIfRunning sets the token of a run from another task.
Cancel(r) ==
  /\ r \in Cancellable \ cancelled
  /\ cancelled' = cancelled \union {r}
  /\ UNCHANGED <<at, pos, owner>>


\* run_node bails out before doing any work when the token is set.
Enters(n) == at[n] = "called" /\ RunOf[n] \notin cancelled

BailOut(n) ==
  /\ at[n] = "called" /\ RunOf[n] \in cancelled
  /\ at' = [at EXCEPT ![n] = "Stop"]
  /\ UNCHANGED <<pos, owner, cancelled>>

\* Build error or permission denied: Failed.  A dry run stops there.
EnterAction(n) ==
  /\ Enters(n) /\ Kind[n] = "Action"
  /\ \/ at' = [at EXCEPT ![n] = "Failed"]
     \/ at' = [at EXCEPT ![n] = IF RunOf[n] \in DryRuns THEN "Continue" ELSE "acquiring"]
  /\ pos' = [pos EXCEPT ![n] = 0]
  /\ UNCHANGED <<owner, cancelled>>

EnterSeq(n) ==
  /\ Enters(n) /\ Kind[n] = "Seq"
  /\ IF Kids[n] = <<>> THEN at' = [at EXCEPT ![n] = "Continue"] ELSE Call(n, Kids[n][1])
  /\ pos' = [pos EXCEPT ![n] = 1]
  /\ UNCHANGED <<owner, cancelled>>

EnterParallel(n) ==
  /\ Enters(n) /\ Kind[n] = "Parallel"
  /\ at' = [m \in Nodes |-> IF m = n THEN "working"
                            ELSE IF m \in Children(n) THEN "called" ELSE at[m]]
  /\ UNCHANGED <<pos, owner, cancelled>>

\* The condition holds, does not hold, or cannot be evaluated.
EnterIf(n) ==
  /\ Enters(n) /\ Kind[n] = "If"
  /\ \/ Call(n, Kids[n][1])
     \/ Len(Kids[n]) = 2 /\ Call(n, Kids[n][2])
     \/ Len(Kids[n]) = 1 /\ at' = [at EXCEPT ![n] = "Continue"]
     \/ at' = [at EXCEPT ![n] = "Failed"]
  /\ UNCHANGED <<pos, owner, cancelled>>

EnterTimeout(n) ==
  /\ Enters(n) /\ Kind[n] = "Timeout"
  /\ Call(n, Kids[n][1])
  /\ UNCHANGED <<pos, owner, cancelled>>

EnterLoop(n) ==
  /\ Enters(n) /\ Kind[n] \in Loops
  /\ at' = [at EXCEPT ![n] = "turning"]
  /\ pos' = [pos EXCEPT ![n] = 0]
  /\ UNCHANGED <<owner, cancelled>>

EnterWait(n) ==
  /\ Enters(n) /\ Kind[n] = "Wait"
  /\ at' = [at EXCEPT ![n] = "sleeping"]
  /\ UNCHANGED <<pos, owner, cancelled>>

\* Nothing but a Timeout above it ends a sleep early.
Awake(n) ==
  /\ at[n] = "sleeping" /\ Kind[n] \in {"Wait", "Retry"}
  /\ at' = [at EXCEPT ![n] = IF Kind[n] = "Wait" THEN "Continue" ELSE "turning"]
  /\ UNCHANGED <<pos, owner, cancelled>>

-----------------------------------------------------------------------------
(* A parent polled after its child has returned.                           *)

SeqStep(n) ==
  LET c == Kids[n][pos[n]] IN
  /\ Kind[n] = "Seq" /\ at[n] = "working" /\ Returned(c)
  /\ IF at[c] = "Continue" /\ pos[n] < Len(Kids[n])
       THEN /\ at' = [at EXCEPT ![c] = "idle", ![Kids[n][pos[n] + 1]] = "called"]
            /\ pos' = [pos EXCEPT ![n] = @ + 1]
       ELSE /\ Leave(n, c, at[c])
            /\ UNCHANGED pos
  /\ UNCHANGED <<owner, cancelled>>

\* Mutant: the join fails only when every branch fails.
MergedOfAll(flows) ==
  IF flows = {"Failed"} THEN "Failed" ELSE IF "Stop" \in flows THEN "Stop" ELSE "Continue"

Merged(flows) ==
  IF "Failed" \in flows THEN "Failed" ELSE IF "Stop" \in flows THEN "Stop" ELSE "Continue"

\* join_all: every branch has returned.
ParallelJoins(n) ==
  /\ Kind[n] = "Parallel" /\ at[n] = "working"
  /\ \A c \in Children(n) : Returned(c)
  /\ at' = [m \in Nodes |-> IF m = n THEN Merged({at[c] : c \in Children(n)})
                            ELSE IF m \in Children(n) THEN "idle" ELSE at[m]]
  /\ UNCHANGED <<pos, owner, cancelled>>

\* The branch taken by an If, and the body of a Timeout that made it in time.
PassesOn(n) ==
  /\ Kind[n] \in {"If", "Timeout"} /\ at[n] = "working"
  /\ \E c \in Children(n) : Returned(c) /\ Leave(n, c, at[c])
  /\ UNCHANGED <<pos, owner, cancelled>>

\* The head of a While or ForEach: cancelled, out of turns, the condition does
\* not hold (a ForEach has none) or cannot be evaluated, or one more turn.
LoopTurn(n) ==
  /\ Kind[n] \in {"While", "ForEach"} /\ at[n] = "turning"
  /\ \/ /\ \/ pos[n] >= Limit[n] \/ RunOf[n] \in cancelled \/ Kind[n] = "While"
        /\ at' = [at EXCEPT ![n] = "Continue"]
     \/ /\ pos[n] < Limit[n] /\ RunOf[n] \notin cancelled
        /\ \/ Kind[n] = "While" /\ at' = [at EXCEPT ![n] = "Failed"]
           \/ Call(n, Kids[n][1])
  /\ UNCHANGED <<pos, owner, cancelled>>

LoopBodyReturns(n) ==
  LET c == Kids[n][1] IN
  /\ Kind[n] \in {"While", "ForEach"} /\ at[n] = "working" /\ Returned(c)
  /\ Leave(n, c, IF at[c] = "Continue" THEN "turning" ELSE at[c])
  /\ pos' = [pos EXCEPT ![n] = @ + 1]
  /\ UNCHANGED <<owner, cancelled>>

\* times.max(1)
Attempts(n) == IF Limit[n] = 0 THEN 1 ELSE Limit[n]

RetryTurn(n) ==
  /\ Kind[n] = "Retry" /\ at[n] = "turning"
  /\ IF RunOf[n] \in cancelled THEN at' = [at EXCEPT ![n] = "Stop"] ELSE Call(n, Kids[n][1])
  /\ UNCHANGED <<pos, owner, cancelled>>

\* Only a failure is retried, after the backoff, while there are attempts left.
RetryBodyReturns(n) ==
  LET c == Kids[n][1] IN
  /\ Kind[n] = "Retry" /\ at[n] = "working" /\ Returned(c)
  /\ Leave(n, c, IF at[c] = "Failed" /\ pos[n] + 1 < Attempts(n) THEN "sleeping" ELSE at[c])
  /\ pos' = [pos EXCEPT ![n] = @ + 1]
  /\ UNCHANGED <<owner, cancelled>>

\* Mutant: the guards held under the body outlive it.
DroppedOwnersKept(n) == owner

\* Dropping the body drops every future under it and the guards they hold.
DroppedOwners(n) == OwnersWithout(Below[n])

\* Mutant: only the body itself is dropped, the futures under it are not.
DroppedShallow(n) == Children(n)

Dropped(n) == Below[n]

\* Mutant: a timeout has a token of its own.
TokenOfNode(n) == n

\* fork() and the nodes share one token per run.
TokenOf(n) == RunOf[n]

\* Mutant: the body is detached instead of dropped, and no token is set.
ElapsesDetached(n) ==
  /\ Kind[n] = "Timeout" /\ at[n] = "working"
  /\ \A c \in Children(n) : at[c] # "called" /\ ~Returned(c)
  /\ at' = [at EXCEPT ![n] = "Failed"]
  /\ UNCHANGED <<pos, owner, cancelled>>

\* The deadline passes after the body was polled and before it returned: the body
\* is dropped, and the token, which the whole run shares, is set.
Elapses(n) ==
  /\ Kind[n] = "Timeout" /\ at[n] = "working"
  /\ \A c \in Children(n) : at[c] # "called" /\ ~Returned(c)
  /\ at' = [m \in Nodes |-> IF m = n THEN "Failed"
                            ELSE IF m \in Dropped(n) THEN "idle" ELSE at[m]]
  /\ owner' = DroppedOwners(n)
  /\ cancelled' = cancelled \union {TokenOf(n)}
  /\ UNCHANGED pos

-----------------------------------------------------------------------------
(* run_action, from the locks on.                                          *)

\* Mutant: locks are reentrant within a run.
IsFreeForRun(n, l) == \A m \in owner[l] : RunOf[m] = RunOf[n]

IsFree(n, l) == owner[l] = {}

\* The next lock of resources(), one at a time, each awaited.
Acquire(n) ==
  /\ at[n] = "acquiring" /\ pos[n] < Len(Claims[n])
  /\ LET l == Lock(n, pos[n] + 1) IN
       /\ IsFree(n, l)
       /\ owner' = [owner EXCEPT ![l] = @ \union {n}]
  /\ pos' = [pos EXCEPT ![n] = @ + 1]
  /\ UNCHANGED <<at, cancelled>>

\* The token is not looked at again, however long the locks took.
Execute(n) ==
  /\ at[n] = "acquiring" /\ pos[n] = Len(Claims[n])
  /\ at' = [at EXCEPT ![n] = "executing"]
  /\ UNCHANGED <<pos, owner, cancelled>>

\* Outcome::Continue, Outcome::Stop or an error; then drop(guards).
ActionReturns(n) ==
  /\ at[n] = "executing"
  /\ \E f \in Flow : at' = [at EXCEPT ![n] = f]
  /\ owner' = OwnersWithout({n})
  /\ UNCHANGED <<pos, cancelled>>

\* The task unwinds (dev and test builds; the release profile aborts the process):
\* every future of the run is dropped.
Panics(n) ==
  /\ at[n] = "executing" /\ n \in MayPanic
  /\ at' = [m \in Nodes |-> IF m = RunOf[n] THEN "panicked"
                            ELSE IF RunOf[m] = RunOf[n] THEN "idle" ELSE at[m]]
  /\ owner' = OwnersWithout({m \in Nodes : RunOf[m] = RunOf[n]})
  /\ UNCHANGED <<pos, cancelled>>

-----------------------------------------------------------------------------
Enter(n) ==
  \/ BailOut(n)
  \/ EnterAction(n)
  \/ EnterSeq(n)
  \/ EnterParallel(n)
  \/ EnterIf(n)
  \/ EnterTimeout(n)
  \/ EnterLoop(n)
  \/ EnterWait(n)

Resume(n) ==
  \/ Awake(n)
  \/ SeqStep(n)
  \/ ParallelJoins(n)
  \/ PassesOn(n)
  \/ LoopTurn(n)
  \/ LoopBodyReturns(n)
  \/ RetryTurn(n)
  \/ RetryBodyReturns(n)
  \/ Acquire(n)
  \/ Execute(n)
  \/ ActionReturns(n)

Ended(r) == Returned(r) \/ at[r] = "panicked"

AllEnded ==
  /\ \A r \in Roots : Ended(r)
  /\ UNCHANGED vars

Next ==
  \/ \E r \in Roots : Start(r) \/ Cancel(r)
  \/ \E n \in Nodes : Enter(n) \/ Resume(n)
  \/ \E n \in Nodes : Elapses(n) \/ Panics(n)
  \/ AllEnded

Spec == Init /\ [][Next]_vars

\* Every ready future is polled, sleeps end and actions return; nothing makes a
\* timeout elapse, a token be set or an action panic.
FairSpec == Spec /\ \A n \in Nodes : WF_vars(Enter(n) \/ Resume(n))

-----------------------------------------------------------------------------
(* Properties.                                                             *)

ClaimsOf(n) == {Claims[n][i] : i \in DOMAIN Claims[n]}

(* Resource arbitration: two actions that claim a common resource, of the  *)
(* same run or of two runs that share a pool, never execute at the same    *)
(* time.                                                                   *)
DevicesExclusive ==
  \A m, n \in Nodes :
    (/\ at[m] = "executing" /\ at[n] = "executing"
     /\ ClaimsOf(m) \intersect ClaimsOf(n) # {} /\ PoolOf[RunOf[m]] = PoolOf[RunOf[n]])
      => m = n

(* Every guard belongs to an action that is waiting for its other locks or *)
(* executing, and is one it asked for: a timeout, a panic or a failure     *)
(* leaves no lock behind.                                                  *)
GuardsAreLive ==
  \A l \in Locks : \A n \in owner[l] :
    /\ at[n] \in {"acquiring", "executing"}
    /\ \E i \in 1..pos[n] : l = Lock(n, i)

(* A run that has returned or panicked has no future left: no branch, body *)
(* or action of it goes on behind the scheduler's back.                    *)
NothingOutlivesItsRun ==
  \A r \in Roots : Ended(r) => \A n \in Below[r] : at[n] = "idle"

Apart(m, n) ==
  \E p \in Nodes :
    /\ Kind[p] = "Parallel"
    /\ \E b, c \in Children(p) : b # c /\ m \in Below[b] \union {b} /\ n \in Below[c] \union {c}

(* Two actions of a run execute together only on different branches of one *)
(* Parallel node, whatever was dropped, retried or repeated before.        *)
ConcurrentOnlyInParallel ==
  \A m, n \in Nodes :
    (m # n /\ RunOf[m] = RunOf[n] /\ at[m] = "executing" /\ at[n] = "executing") => Apart(m, n)

(* A timeout that elapsed anywhere in a run is never hidden: the run does  *)
(* not end in Continue, through whatever loops, retries and joins the      *)
(* failure travels (a token set from outside may end a loop quietly).      *)
TimeoutsAreNotHidden ==
  \A r \in cancelled \ Cancellable : at[r] # "Continue"

(* Every run that is started returns, if the actions do: no lock, join or  *)
(* cancellation leaves it waiting.  This needs the claims of all actions   *)
(* to follow one order of the resources, which nothing in the code         *)
(* enforces.                                                               *)
EveryRunReturns == \A r \in Roots : at[r] = "called" ~> Ended(r)

=============================================================================
