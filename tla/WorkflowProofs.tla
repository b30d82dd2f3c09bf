--------------------------- MODULE WorkflowProofs ----------------------------
(***************************************************************************)
(* The theorems of Workflow, for any trees, claims, pools and cancellable  *)
(* runs.                                                                   *)
(*                                                                         *)
(* Two facts make the tree of futures: a node that is not working has      *)
(* nothing under it that is not idle, and two nodes of a run that are not  *)
(* idle lie on one path from the root or on two branches of one Parallel.  *)
(* For them a step is one of a few shapes, whatever the node is.  The      *)
(* locks need both: a node that is called holds nothing because it was     *)
(* idle.                                                                   *)
(***************************************************************************)
EXTENDS Workflow, TLAPS

USE DEF Lock, Locks, Returned, Flow

-----------------------------------------------------------------------------
(* Trees.                                                                  *)

(* A child is a node below, and what is below it is below its parent.      *)
LEMMA ChildBelow ==
  ASSUME NEW n \in Nodes, NEW c \in Children(n)
  PROVE  /\ c \in Nodes /\ c # n /\ c \in Below[n] /\ Below[c] \subseteq Below[n]
         /\ n \notin Below[c] /\ n \notin Below[n] /\ RunOf[c] = RunOf[n]
<1>1. c \in Nodes
  BY WorkflowAssumption DEF Children
<1>2. c \in Below[n] /\ Below[c] \subseteq Below[n] /\ n \notin Below[n] /\ RunOf[c] = RunOf[n]
  BY <1>1, TreeAssumption
<1> QED
  BY <1>1, <1>2

(* The kids that are in range are children.                                *)
LEMMA KidIsChild ==
  ASSUME NEW n \in Nodes, NEW k \in DOMAIN Kids[n]
  PROVE  Kids[n][k] \in Children(n)
BY DEF Children

(* A node below another is a node, of the same run, and not that one.      *)
LEMMA BelowFacts ==
  ASSUME NEW n \in Nodes, NEW m \in Below[n]
  PROVE  /\ m \in Nodes /\ m # n /\ RunOf[m] = RunOf[n] /\ Below[m] \subseteq Below[n]
         /\ n \notin Below[m]
         /\ m \in Children(n) \/ \E c \in Children(n) : m \in Below[c]
<1>1. m \in Nodes /\ RunOf[m] = RunOf[n] /\ Below[m] \subseteq Below[n]
  BY WorkflowAssumption, AncestryAssumption
<1>2. n \notin Below[n] /\ Below[n] = Children(n) \union UNION {Below[c] : c \in Children(n)}
  BY TreeAssumption
<1> QED
  BY <1>1, <1>2

(* Nothing is above a root, and the rest of its run is below it.           *)
LEMMA RootFacts ==
  ASSUME NEW r \in Roots
  PROVE  /\ r \in Nodes /\ RunOf[r] = r
         /\ \A n \in Nodes : r \notin Below[n]
         /\ \A n \in Nodes : RunOf[n] = r => n = r \/ n \in Below[r]
<1>1. r \in Nodes
  BY WorkflowAssumption
<1>2. RunOf[r] = r /\ \A n \in Nodes : RunOf[n] = r => n = r \/ n \in Below[r]
  BY TreeAssumption
<1>3. ASSUME NEW n \in Nodes, r \in Below[n] PROVE FALSE
  <2>1. RunOf[n] = r /\ n # r /\ n \notin Below[r]
    BY <1>2, <1>3, BelowFacts
  <2> QED
    BY <1>2, <2>1
<1> QED
  BY <1>1, <1>2, <1>3

(* What is above a child is its parent or above it.                        *)
LEMMA AboveChild ==
  ASSUME NEW n \in Nodes, NEW c \in Children(n), NEW p \in Nodes, c \in Below[p] \union {p}, p # c
  PROVE  p = n \/ n \in Below[p]
BY AncestryAssumption

-----------------------------------------------------------------------------
(* The tree of futures.                                                    *)

QuietBelow ==
  \A n \in Nodes : at[n] # "working" => \A m \in Below[n] : at[m] = "idle"

Lineage(m, n) == m = n \/ m \in Below[n] \/ n \in Below[m] \/ Apart(m, n)

OneAtATime ==
  \A m, n \in Nodes :
    (RunOf[m] = RunOf[n] /\ at[m] # "idle" /\ at[n] # "idle") => Lineage(m, n)

SeqInRange ==
  \A n \in Nodes : (Kind[n] = "Seq" /\ at[n] = "working") => pos[n] \in DOMAIN Kids[n]

TreeInv == TypeOK /\ QuietBelow /\ OneAtATime /\ SeqInRange

Moves == Place \ {"idle", "working"}

\* The shapes of a step.
Settles(n) ==
  /\ at[n] \in Moves
  /\ \E v \in Moves : at' = [at EXCEPT ![n] = v]

Calls(n, c) ==
  /\ at[n] \in Moves
  /\ Call(n, c)

Leaves(n, c) ==
  /\ Kind[n] # "Parallel" /\ at[n] = "working" /\ Returned(c)
  /\ \E v \in Moves : Leave(n, c, v)

Advances(n) ==
  /\ Kind[n] = "Seq" /\ at[n] = "working" /\ Returned(Kids[n][pos[n]])
  /\ pos[n] + 1 \in DOMAIN Kids[n]
  /\ at' = [at EXCEPT ![Kids[n][pos[n]]] = "idle", ![Kids[n][pos[n] + 1]] = "called"]

Shape(n) ==
  \/ Settles(n)
  \/ \E c \in Children(n) : Calls(n, c) \/ Leaves(n, c)
  \/ Advances(n)
  \/ EnterParallel(n)
  \/ ParallelJoins(n)
  \/ Elapses(n)
  \/ Panics(n)

(* The kinds of nodes that have children have them where the code looks.   *)
LEMMA FirstKid ==
  ASSUME NEW n \in Nodes, Kind[n] \in Loops \union {"Timeout", "If"}
  PROVE  /\ Len(Kids[n]) \in {1, 2} /\ Kids[n][1] \in Children(n)
         /\ Len(Kids[n]) = 2 => Kids[n][2] \in Children(n)
<1>1. Kids[n] \in Seq(Nodes)
  BY WorkflowAssumption
<1>2. Len(Kids[n]) \in {1, 2}
  BY TreeAssumption DEF Loops
<1>3. 1 \in DOMAIN Kids[n] /\ (Len(Kids[n]) = 2 => 2 \in DOMAIN Kids[n])
  BY <1>1, <1>2
<1> QED
  BY <1>2, <1>3 DEF Children

(* Entering a node that is called.                                         *)
LEMMA EnterShapes ==
  ASSUME TypeOK, NEW n \in Nodes, Enter(n)
  PROVE  Shape(n)
<1> USE DEF Shape, Settles, Calls, Moves, Place, Enters
<1>1. CASE BailOut(n)
  BY <1>1 DEF BailOut
<1>2. CASE EnterAction(n)
  BY <1>2 DEF EnterAction
<1>3. CASE EnterSeq(n)
  <2>1. CASE Kids[n] = <<>>
    BY <1>3, <2>1 DEF EnterSeq
  <2>2. CASE Kids[n] # <<>>
    <3>1. Kids[n][1] \in Children(n)
      <4>1. Kids[n] \in Seq(Nodes)
        BY WorkflowAssumption
      <4>2. 1 \in DOMAIN Kids[n]
        BY <2>2, <4>1
      <4> QED
        BY <4>2 DEF Children
    <3> QED
      BY <1>3, <2>2, <3>1 DEF EnterSeq
  <2> QED
    BY <2>1, <2>2
<1>4. CASE EnterParallel(n)
  BY <1>4
<1>5. CASE EnterIf(n)
  <2>1. Kids[n][1] \in Children(n) /\ (Len(Kids[n]) = 2 => Kids[n][2] \in Children(n))
    BY <1>5, FirstKid DEF EnterIf
  <2> QED
    BY <1>5, <2>1 DEF EnterIf
<1>6. CASE EnterTimeout(n)
  <2>1. Kids[n][1] \in Children(n)
    BY <1>6, FirstKid DEF EnterTimeout
  <2> QED
    BY <1>6, <2>1 DEF EnterTimeout
<1>7. CASE EnterLoop(n)
  BY <1>7 DEF EnterLoop
<1>8. CASE EnterWait(n)
  BY <1>8 DEF EnterWait
<1> QED
  BY <1>1, <1>2, <1>3, <1>4, <1>5, <1>6, <1>7, <1>8 DEF Enter

(* Going on with a node, but for the lock that an action takes.            *)
LEMMA ResumeShapes ==
  ASSUME TypeOK, SeqInRange, NEW n \in Nodes, Resume(n)
  PROVE  Shape(n) \/ at' = at
<1> USE DEF Shape, Settles, Calls, Leaves, Leave, Moves, Place
<1>1. CASE Awake(n)
  BY <1>1 DEF Awake
<1>2. CASE SeqStep(n)
  <2> DEFINE c == Kids[n][pos[n]]
  <2>1. c \in Children(n)
    BY <1>2, KidIsChild DEF SeqStep, SeqInRange
  <2>2. CASE at[c] = "Continue" /\ pos[n] < Len(Kids[n])
    <3>1. Kids[n] \in Seq(Nodes) /\ pos[n] \in Nat
      BY WorkflowAssumption DEF TypeOK
    <3>2. pos[n] + 1 \in DOMAIN Kids[n]
      BY <2>2, <3>1
    <3> QED
      BY <1>2, <2>2, <3>2 DEF SeqStep, Advances
  <2>3. CASE ~(at[c] = "Continue" /\ pos[n] < Len(Kids[n]))
    BY <1>2, <2>1, <2>3 DEF SeqStep
  <2> QED
    BY <2>2, <2>3
<1>3. CASE ParallelJoins(n)
  BY <1>3
<1>4. CASE PassesOn(n)
  BY <1>4 DEF PassesOn
<1>5. CASE LoopTurn(n)
  <2>1. Kids[n][1] \in Children(n)
    BY <1>5, FirstKid DEF LoopTurn, Loops
  <2> QED
    BY <1>5, <2>1 DEF LoopTurn
<1>6. CASE LoopBodyReturns(n)
  <2>1. Kids[n][1] \in Children(n)
    BY <1>6, FirstKid DEF LoopBodyReturns, Loops
  <2> QED
    BY <1>6, <2>1 DEF LoopBodyReturns
<1>7. CASE RetryTurn(n)
  <2>1. Kids[n][1] \in Children(n)
    BY <1>7, FirstKid DEF RetryTurn, Loops
  <2> QED
    BY <1>7, <2>1 DEF RetryTurn
<1>8. CASE RetryBodyReturns(n)
  <2>1. Kids[n][1] \in Children(n)
    BY <1>8, FirstKid DEF RetryBodyReturns, Loops
  <2> QED
    BY <1>8, <2>1 DEF RetryBodyReturns
<1>9. CASE Acquire(n)
  BY <1>9 DEF Acquire
<1>10. CASE Execute(n)
  BY <1>10 DEF Execute
<1>11. CASE ActionReturns(n)
  BY <1>11 DEF ActionReturns
<1> QED
  BY <1>1, <1>2, <1>3, <1>4, <1>5, <1>6, <1>7, <1>8, <1>9, <1>10, <1>11 DEF Resume

(* Every step has a shape, starts a run, or moves no node.                 *)
LEMMA Shapes ==
  ASSUME TypeOK, SeqInRange, [Next]_vars
  PROVE  \/ at' = at
         \/ \E n \in Nodes : Shape(n)
         \/ \E r \in Roots : Start(r)
<1>1. CASE \E r \in Roots : Start(r) \/ Cancel(r)
  BY <1>1 DEF Cancel
<1>2. CASE \E n \in Nodes : Enter(n) \/ Resume(n)
  BY <1>2, EnterShapes, ResumeShapes
<1>3. CASE \E n \in Nodes : Elapses(n) \/ Panics(n)
  BY <1>3 DEF Shape
<1>4. CASE AllEnded \/ UNCHANGED vars
  BY <1>4 DEF AllEnded, vars
<1> QED
  BY <1>1, <1>2, <1>3, <1>4 DEF Next

(* The branches of a node share nothing.                                   *)
LEMMA SiblingsApart ==
  ASSUME NEW p \in Nodes, NEW b \in Children(p), NEW c \in Children(p), b # c
  PROVE  (Below[b] \union {b}) \intersect (Below[c] \union {c}) = {}
<1>1. Below[b] \intersect Below[c] = {}
  BY AncestryAssumption
<1>2. b \notin Below[c]
  <2>1. b \in Below[c] => c = p \/ p \in Below[c]
    BY AboveChild, ChildBelow
  <2> QED
    BY <2>1, ChildBelow
<1>3. c \notin Below[b]
  <2>1. c \in Below[b] => b = p \/ p \in Below[b]
    BY AboveChild, ChildBelow
  <2> QED
    BY <2>1, ChildBelow
<1> QED
  BY <1>1, <1>2, <1>3

(* Two nodes below a node, one of them its child, lie on two branches only *)
(* of a Parallel, and of no other than the node itself.                    *)
LEMMA ApartUnder ==
  ASSUME NEW n \in Nodes, NEW c \in Children(n), NEW m \in Below[n], Apart(m, c)
  PROVE  Kind[n] = "Parallel"
<1>1. PICK p \in Nodes : /\ Kind[p] = "Parallel"
                         /\ \E b, d \in Children(p) :
                              b # d /\ m \in Below[b] \union {b} /\ c \in Below[d] \union {d}
  BY DEF Apart
<1>2. PICK b \in Children(p), d \in Children(p) :
        b # d /\ m \in Below[b] \union {b} /\ c \in Below[d] \union {d}
  BY <1>1
<1>3. CASE d = c
  <2>1. p = n
    BY <1>3, TreeAssumption
  <2> QED
    BY <1>1, <2>1
<1>4. CASE d # c
  <2>1. d \in Nodes
    BY ChildBelow
  <2>2. d = n \/ n \in Below[d]
    BY <1>2, <1>4, <2>1, AboveChild
  <2>3. m \in Below[d]
    BY <2>1, <2>2, BelowFacts
  <2> QED
    BY <1>2, <2>3, SiblingsApart
<1> QED
  BY <1>3, <1>4

(* What is not idle below a node that is no Parallel, and of which a child *)
(* has returned, is that child.                                            *)
LEMMA OnlyChild ==
  ASSUME QuietBelow, OneAtATime, NEW n \in Nodes, Kind[n] # "Parallel",
         NEW c \in Children(n), at[c] \notin {"idle", "working"},
         NEW m \in Below[n], at[m] # "idle"
  PROVE  m = c
<1>1. /\ c \in Nodes /\ m \in Nodes /\ RunOf[c] = RunOf[m] /\ n \notin Below[m] /\ m # n
      /\ m \notin Below[c]
  BY ChildBelow, BelowFacts DEF QuietBelow
<1>2. Lineage(m, c)
  BY <1>1 DEF OneAtATime
<1>3. c \notin Below[m]
  BY <1>1, AboveChild, ChildBelow
<1>4. ~Apart(m, c)
  BY ApartUnder
<1> QED
  BY <1>1, <1>2, <1>3, <1>4 DEF Lineage

LEMMA LineageSymmetric ==
  ASSUME NEW m \in Nodes, NEW n \in Nodes, Lineage(m, n)
  PROVE  Lineage(n, m)
BY DEF Lineage, Apart

(* A child lies where its parent does, seen from a node that is not under  *)
(* the parent.                                                             *)
LEMMA LineageOfChild ==
  ASSUME NEW n \in Nodes, NEW c \in Children(n), NEW m \in Nodes, m \notin Below[n], Lineage(m, n)
  PROVE  Lineage(m, c)
<1>1. CASE m = n
  BY <1>1, ChildBelow DEF Lineage
<1>2. CASE n \in Below[m]
  BY <1>2, BelowFacts, ChildBelow DEF Lineage
<1>3. CASE Apart(m, n)
  <2>1. PICK p \in Nodes : /\ Kind[p] = "Parallel"
                           /\ \E b, d \in Children(p) :
                                b # d /\ m \in Below[b] \union {b} /\ n \in Below[d] \union {d}
    BY <1>3 DEF Apart
  <2>2. PICK b \in Children(p), d \in Children(p) :
          b # d /\ m \in Below[b] \union {b} /\ n \in Below[d] \union {d}
    BY <2>1
  <2>3. c \in Below[d]
    BY <2>2, ChildBelow, BelowFacts
  <2> QED
    BY <2>1, <2>2, <2>3 DEF Apart, Lineage
<1> QED
  BY <1>1, <1>2, <1>3 DEF Lineage

-----------------------------------------------------------------------------
(* The shapes keep the tree.                                               *)

(* A node that is not idle is below working nodes only.                    *)
LEMMA WorkingAbove ==
  ASSUME QuietBelow, NEW p \in Nodes, NEW m \in Below[p], at[m] # "idle"
  PROVE  at[p] = "working"
BY DEF QuietBelow

LEMMA QuietShape ==
  ASSUME TreeInv, NEW n \in Nodes, Shape(n)
  PROVE  QuietBelow'
<1> USE DEF TreeInv, TypeOK, Moves
<1> SUFFICES ASSUME NEW p \in Nodes, at'[p] # "working", NEW m \in Below[p]
             PROVE  at'[m] = "idle"
  BY DEF QuietBelow
<1>0. /\ m \in Nodes /\ m # p /\ p \notin Below[m] /\ Below[m] \subseteq Below[p]
      /\ RunOf[m] = RunOf[p] /\ n \notin Below[n]
      /\ \A q \in Nodes : n \in Below[q] /\ m \in Below[n] => m \in Below[q]
  BY BelowFacts, ChildBelow, TreeAssumption
<1>1. CASE Settles(n)
  BY <1>0, <1>1, WorkingAbove DEF Settles, QuietBelow
<1>2. ASSUME NEW c \in Children(n), Calls(n, c) PROVE at'[m] = "idle"
  <2>1. c \in Nodes /\ c # n /\ c \in Below[n] /\ n \notin Below[c] /\ Below[c] \subseteq Below[n]
    BY ChildBelow
  <2>2. at'[n] = "working" /\ p # n
    BY <1>2, <2>1 DEF Calls, Call
  <2>3. m # n
    BY <1>0, <1>2, <2>1, <2>2, WorkingAbove DEF Calls, Call
  <2>4. m # c
    <3>1. m = c => n \in Below[p]
      BY <2>2, <1>0, AboveChild
    <3> QED
      BY <3>1, <1>2, <2>1, <2>2, <1>0, WorkingAbove DEF Calls, Call
  <2>5. at'[m] = at[m]
    BY <1>0, <1>2, <2>3, <2>4 DEF Calls, Call
  <2>6. CASE p = c
    BY <1>2, <2>1, <2>5, <2>6 DEF Calls, QuietBelow
  <2>7. CASE p # c
    BY <1>2, <2>2, <2>5, <2>7 DEF Calls, Call, QuietBelow
  <2> QED
    BY <2>6, <2>7
<1>3. ASSUME NEW c \in Children(n), Leaves(n, c) PROVE at'[m] = "idle"
  <2>1. c \in Nodes /\ c # n /\ c \in Below[n] /\ n \notin Below[c] /\ Below[c] \subseteq Below[n]
    BY ChildBelow
  <2>2. \A k \in Below[n] : at[k] # "idle" => k = c
    BY <1>3, OnlyChild DEF Leaves
  <2>3. at'[c] = "idle"
    BY <1>3, <2>1 DEF Leaves, Leave
  <2>4. CASE p = n
    BY <1>0, <1>3, <2>1, <2>2, <2>3, <2>4 DEF Leaves, Leave
  <2>5. CASE p # n
    <3>1. m # n
      BY <1>0, <1>3, <2>1, <2>3, <2>5, WorkingAbove DEF Leaves, Leave
    <3>2. at[p] # "working" \/ p = c
      BY <1>3, <2>5 DEF Leaves, Leave
    <3>3. at[c] # "working"
      BY <1>3 DEF Leaves
    <3>4. at[m] = "idle"
      BY <3>2, <3>3 DEF QuietBelow
    <3> QED
      BY <1>0, <1>3, <2>3, <3>1, <3>4 DEF Leaves, Leave
  <2> QED
    BY <2>4, <2>5
<1>4. CASE Advances(n)
  <2> DEFINE c == Kids[n][pos[n]]
             d == Kids[n][pos[n] + 1]
  <2>1. c \in Children(n) /\ d \in Children(n)
    BY <1>4, KidIsChild DEF Advances, SeqInRange
  <2>2. /\ c \in Nodes /\ c # n /\ c \in Below[n] /\ n \notin Below[c] /\ Below[c] \subseteq Below[n]
        /\ d \in Nodes /\ d # n /\ d \in Below[n] /\ n \notin Below[d] /\ Below[d] \subseteq Below[n]
    BY <2>1, ChildBelow
  <2>3. \A k \in Below[n] : at[k] # "idle" => k = c
    BY <1>4, <2>1, OnlyChild DEF Advances
  <2>4. c # d
    <3>1. pos[n] \in DOMAIN Kids[n] /\ pos[n] + 1 \in DOMAIN Kids[n] /\ pos[n] \in Nat
      BY <1>4 DEF Advances, SeqInRange
    <3>2. pos[n] # pos[n] + 1
      BY <3>1
    <3> HIDE DEF c, d
    <3> QED
      BY <3>1, <3>2, TreeAssumption DEF c, d
  <2>5. at' = [at EXCEPT ![c] = "idle", ![d] = "called"]
    BY <1>4 DEF Advances
  <2> HIDE DEF c, d
  <2>6. at'[n] = "working" /\ p # n
    BY <1>4, <2>2, <2>5 DEF Advances
  <2>7. m # d
    <3>1. m = d => n \in Below[p]
      BY <2>1, <2>6, <1>0, AboveChild
    <3>2. n \in Below[p] => at[p] = "working" /\ p # c /\ p # d
      BY <1>4, <2>2, WorkingAbove DEF Advances
    <3> QED
      BY <2>5, <3>1, <3>2
  <2>8. CASE m = c
    BY <2>2, <2>4, <2>5, <2>8
  <2>9. CASE m # c
    <3>1. at'[m] = at[m]
      BY <1>0, <2>5, <2>7, <2>9
    <3>2. CASE p = d
      BY <2>2, <2>3, <2>9, <3>1, <3>2
    <3>3. CASE p = c
      BY <2>2, <2>3, <2>9, <3>1, <3>3
    <3>4. CASE p # c /\ p # d
      BY <2>5, <3>1, <3>4 DEF QuietBelow
    <3> QED
      BY <3>2, <3>3, <3>4
  <2> QED
    BY <2>8, <2>9
<1>5. CASE EnterParallel(n)
  <2>1. at[n] = "called" /\ at'[n] = "working" /\ p # n
    BY <1>5 DEF EnterParallel, Enters
  <2>2. n \in Below[p] => FALSE
    <3>1. n \in Below[p] => at[p] = "working" /\ p \notin Children(n)
      BY <2>1, WorkingAbove, ChildBelow
    <3> QED
      BY <1>5, <3>1, <2>1 DEF EnterParallel
  <2>3. m # n /\ m \notin Children(n)
    BY <1>0, <2>1, <2>2, AboveChild
  <2>4. at'[m] = at[m]
    BY <1>0, <1>5, <2>3 DEF EnterParallel
  <2>5. CASE p \in Children(n)
    BY <2>1, <2>4, <2>5, ChildBelow DEF QuietBelow
  <2>6. CASE p \notin Children(n)
    BY <1>5, <2>1, <2>4, <2>6 DEF EnterParallel, QuietBelow
  <2> QED
    BY <2>5, <2>6
<1>6. CASE ParallelJoins(n)
  <2>1. \A c \in Children(n) : at'[c] = "idle" /\ \A k \in Below[c] : at[k] = "idle"
    BY <1>6, ChildBelow DEF ParallelJoins, QuietBelow
  <2>2. at[n] = "working" /\ at'[n] # "working"
    BY <1>6 DEF ParallelJoins, Merged
  <2>3. CASE p = n
    <3>1. CASE m \in Children(n)
      BY <2>1, <3>1
    <3>2. CASE m \notin Children(n)
      <4>1. at[m] = "idle"
        BY <2>1, <2>3, <3>2, BelowFacts
      <4> QED
        BY <1>0, <1>6, <2>3, <3>2, <4>1 DEF ParallelJoins
    <3> QED
      BY <3>1, <3>2
  <2>4. CASE p # n /\ p \in Children(n)
    <3>1. at[m] = "idle" /\ m # n
      BY <2>1, <2>2, <2>4
    <3> QED
      BY <1>0, <1>6, <2>1, <3>1 DEF ParallelJoins
  <2>5. CASE p # n /\ p \notin Children(n)
    <3>1. at'[p] = at[p]
      BY <1>6, <2>5 DEF ParallelJoins
    <3>2. at[m] = "idle" /\ m # n
      BY <2>2, <3>1 DEF QuietBelow
    <3> QED
      BY <1>0, <1>6, <2>1, <3>2 DEF ParallelJoins
  <2> QED
    BY <2>3, <2>4, <2>5
<1>7. CASE Elapses(n)
  <2>1. at' = [k \in Nodes |-> IF k = n THEN "Failed" ELSE IF k \in Below[n] THEN "idle" ELSE at[k]]
    BY <1>7 DEF Elapses, Dropped
  <2>2. at[n] = "working"
    BY <1>7 DEF Elapses
  <2>3. CASE p = n \/ p \in Below[n]
    <3>1. m \in Below[n] /\ m # n
      BY <1>0, <2>3, BelowFacts
    <3> QED
      BY <1>0, <2>1, <3>1
  <2>4. CASE p # n /\ p \notin Below[n]
    <3>1. at[m] = "idle" /\ m # n
      BY <2>1, <2>2, <2>4 DEF QuietBelow
    <3> QED
      BY <1>0, <2>1, <3>1
  <2> QED
    BY <2>3, <2>4
<1>8. CASE Panics(n)
  <2>1. RunOf[n] \in Roots /\ RunOf[RunOf[n]] = RunOf[n] /\ m # RunOf[n]
    BY WorkflowAssumption, RootFacts
  <2>2. CASE RunOf[m] = RunOf[n]
    BY <1>0, <1>8, <2>1, <2>2 DEF Panics
  <2>3. CASE RunOf[m] # RunOf[n]
    <3>1. at'[m] = at[m] /\ at'[p] = at[p]
      BY <1>0, <1>8, <2>1, <2>3 DEF Panics
    <3> QED
      BY <3>1 DEF QuietBelow
  <2> QED
    BY <2>2, <2>3
<1> QED
  BY <1>1, <1>2, <1>3, <1>4, <1>5, <1>6, <1>7, <1>8 DEF Shape

LEMMA OneShape ==
  ASSUME TreeInv, NEW n \in Nodes, Shape(n)
  PROVE  OneAtATime'
<1> USE DEF TreeInv, TypeOK, Moves
<1> SUFFICES ASSUME NEW p \in Nodes, NEW q \in Nodes, RunOf[p] = RunOf[q],
                    at'[p] # "idle", at'[q] # "idle"
             PROVE  Lineage(p, q)
  BY DEF OneAtATime, Lineage, Apart
<1>1. CASE Settles(n)
  BY <1>1 DEF Settles, OneAtATime
<1>2. ASSUME NEW c \in Children(n), Calls(n, c) PROVE Lineage(p, q)
  <2>1. c \in Nodes /\ c # n /\ c \in Below[n] /\ RunOf[c] = RunOf[n]
    BY ChildBelow
  <2>2. at[n] \notin {"idle", "working"} /\ \A k \in Below[n] : at[k] = "idle"
    BY <1>2 DEF Calls, QuietBelow
  <2>3. \A k \in Nodes : k # c /\ at'[k] # "idle" => at[k] # "idle"
    BY <1>2, <2>1, <2>2 DEF Calls, Call
  <2>4. ASSUME NEW k \in Nodes, k # c, at'[k] # "idle", RunOf[k] = RunOf[c]
        PROVE  Lineage(k, c)
    <3>1. at[k] # "idle" /\ k \notin Below[n]
      BY <2>2, <2>3, <2>4
    <3>2. Lineage(k, n)
      BY <2>1, <2>2, <2>4, <3>1 DEF OneAtATime
    <3> QED
      BY <3>1, <3>2, LineageOfChild
  <2>5. CASE p # c /\ q # c
    BY <2>3, <2>5 DEF OneAtATime
  <2>6. CASE p = c \/ q = c
    BY <2>4, <2>6, LineageSymmetric DEF Lineage
  <2> QED
    BY <2>5, <2>6
<1>3. ASSUME NEW c \in Children(n), Leaves(n, c) PROVE Lineage(p, q)
  <2>1. c \in Nodes /\ c # n
    BY ChildBelow
  <2>2. \A k \in Nodes : at'[k] # "idle" => at[k] # "idle"
    BY <1>3, <2>1 DEF Leaves, Leave
  <2> QED
    BY <2>2 DEF OneAtATime
<1>4. CASE Advances(n)
  <2> DEFINE c == Kids[n][pos[n]]
             d == Kids[n][pos[n] + 1]
  <2>1. c \in Children(n) /\ d \in Children(n)
    BY <1>4, KidIsChild DEF Advances, SeqInRange
  <2>2. /\ c \in Nodes /\ c # n /\ c \in Below[n] /\ RunOf[c] = RunOf[n]
        /\ d \in Nodes /\ d # n /\ d \in Below[n] /\ RunOf[d] = RunOf[n]
    BY <2>1, ChildBelow
  <2>3. \A k \in Below[n] : at[k] # "idle" => k = c
    BY <1>4, <2>1, OnlyChild DEF Advances
  <2>4. at[n] = "working" /\ at' = [at EXCEPT ![c] = "idle", ![d] = "called"]
    BY <1>4 DEF Advances
  <2> HIDE DEF c, d
  <2>5. \A k \in Nodes : k # d /\ at'[k] # "idle" => at[k] # "idle" /\ k # c
    BY <2>2, <2>4
  <2>6. ASSUME NEW k \in Nodes, k # d, at'[k] # "idle", RunOf[k] = RunOf[d]
        PROVE  Lineage(k, d)
    <3>1. at[k] # "idle" /\ k \notin Below[n]
      BY <2>3, <2>5, <2>6
    <3>2. Lineage(k, n)
      BY <2>2, <2>4, <2>6, <3>1 DEF OneAtATime
    <3> QED
      BY <2>1, <3>1, <3>2, LineageOfChild
  <2>7. CASE p # d /\ q # d
    BY <2>5, <2>7 DEF OneAtATime
  <2>8. CASE p = d \/ q = d
    BY <2>2, <2>6, <2>8, LineageSymmetric DEF Lineage
  <2> QED
    BY <2>7, <2>8
<1>5. CASE EnterParallel(n)
  <2>1. at[n] = "called" /\ Kind[n] = "Parallel"
    BY <1>5 DEF EnterParallel, Enters
  <2>2. \A k \in Below[n] : at[k] = "idle"
    BY <2>1 DEF QuietBelow
  <2>3. \A k \in Nodes : k \notin Children(n) /\ at'[k] # "idle" => at[k] # "idle"
    BY <1>5, <2>1 DEF EnterParallel
  <2>4. ASSUME NEW c \in Children(n), NEW k \in Nodes, k \notin Children(n), at'[k] # "idle",
               RunOf[k] = RunOf[c]
        PROVE  Lineage(k, c)
    <3>1. at[k] # "idle" /\ k \notin Below[n] /\ RunOf[k] = RunOf[n]
      BY <2>2, <2>3, <2>4, ChildBelow
    <3>2. Lineage(k, n)
      BY <2>1, <3>1 DEF OneAtATime
    <3> QED
      BY <3>1, <3>2, LineageOfChild
  <2>5. CASE p \in Children(n) /\ q \in Children(n)
    <3>1. p # q => Apart(p, q)
      BY <2>1, <2>5 DEF Apart
    <3> QED
      BY <3>1 DEF Lineage
  <2>6. CASE p \notin Children(n) /\ q \notin Children(n)
    BY <2>3, <2>6 DEF OneAtATime
  <2>7. CASE p \in Children(n) /\ q \notin Children(n)
    BY <2>4, <2>7, LineageSymmetric
  <2>8. CASE p \notin Children(n) /\ q \in Children(n)
    BY <2>4, <2>8
  <2> QED
    BY <2>5, <2>6, <2>7, <2>8
<1>6. CASE ParallelJoins(n)
  BY <1>6 DEF ParallelJoins, OneAtATime
<1>7. CASE Elapses(n)
  BY <1>7 DEF Elapses, OneAtATime
<1>8. CASE Panics(n)
  <2>1. RunOf[n] \in Roots /\ RunOf[RunOf[n]] = RunOf[n]
    BY WorkflowAssumption, RootFacts
  <2>2. CASE RunOf[p] = RunOf[n]
    <3>1. p = RunOf[n] /\ q = RunOf[n]
      BY <1>8, <2>2 DEF Panics
    <3> QED
      BY <3>1 DEF Lineage
  <2>3. CASE RunOf[p] # RunOf[n]
    <3>1. at'[p] = at[p] /\ at'[q] = at[q]
      BY <1>8, <2>1, <2>3 DEF Panics
    <3> QED
      BY <3>1 DEF OneAtATime
  <2> QED
    BY <2>2, <2>3
<1> QED
  BY <1>1, <1>2, <1>3, <1>4, <1>5, <1>6, <1>7, <1>8 DEF Shape

(* A run that starts has no future yet.                                    *)
LEMMA StartKeepsTree ==
  ASSUME TreeInv, NEW r \in Roots, Start(r)
  PROVE  QuietBelow' /\ OneAtATime'
<1> USE DEF TreeInv, TypeOK
<1>1. /\ r \in Nodes /\ \A n \in Nodes : r \notin Below[n]
      /\ RunOf[r] = r /\ \A n \in Nodes : RunOf[n] = r => n = r \/ n \in Below[r]
  BY RootFacts
<1>2. \A n \in Nodes : RunOf[n] = r => at[n] = "idle"
  BY <1>1 DEF Start, QuietBelow
<1>3. QuietBelow'
  <2> SUFFICES ASSUME NEW p \in Nodes, at'[p] # "working", NEW m \in Below[p] PROVE at'[m] = "idle"
    BY DEF QuietBelow
  <2>1. m \in Nodes /\ m # r
    BY <1>1, BelowFacts
  <2>2. at[p] # "working"
    BY <1>1 DEF Start
  <2> QED
    BY <2>1, <2>2 DEF Start, QuietBelow
<1>4. OneAtATime'
  <2> SUFFICES ASSUME NEW p \in Nodes, NEW q \in Nodes, RunOf[p] = RunOf[q],
                      at'[p] # "idle", at'[q] # "idle"
               PROVE  Lineage(p, q)
    BY DEF OneAtATime, Lineage, Apart
  <2> QED
    BY <1>1, <1>2 DEF Start, OneAtATime, Lineage
<1> QED
  BY <1>3, <1>4

LEMMA TypedShape ==
  ASSUME TreeInv, NEW n \in Nodes, Shape(n)
  PROVE  at' \in [Nodes -> Place]
<1> USE DEF TreeInv, TypeOK, Moves, Place
<1>1. CASE Settles(n)
  BY <1>1 DEF Settles
<1>2. ASSUME NEW c \in Children(n), Calls(n, c) \/ Leaves(n, c) PROVE at' \in [Nodes -> Place]
  BY <1>2 DEF Calls, Call, Leaves, Leave
<1>3. CASE Advances(n)
  BY <1>3 DEF Advances
<1>4. CASE EnterParallel(n)
  BY <1>4 DEF EnterParallel
<1>5. CASE ParallelJoins(n)
  BY <1>5 DEF ParallelJoins, Merged
<1>6. CASE Elapses(n)
  BY <1>6 DEF Elapses
<1>7. CASE Panics(n)
  BY <1>7 DEF Panics
<1> QED
  BY <1>1, <1>2, <1>3, <1>4, <1>5, <1>6, <1>7 DEF Shape

(* Only a Seq that goes on to its next child counts while it is working.   *)
LEMMA CountKept ==
  ASSUME TreeInv, [Next]_vars
  PROVE  /\ pos' \in [Nodes -> Nat]
         /\ \A n \in Nodes : (at[n] = "working" /\ at'[n] = "working") =>
              pos'[n] = pos[n] \/ (Kind[n] = "Seq" /\ pos'[n] \in DOMAIN Kids[n])
         /\ \A n \in Nodes : (at[n] # "working" /\ at'[n] = "working" /\ Kind[n] = "Seq") =>
              pos'[n] = 1 /\ Kids[n] # <<>>
<1> USE DEF TreeInv, TypeOK
<1> DEFINE Kept ==
      /\ pos' \in [Nodes -> Nat]
      /\ \A n \in Nodes : (at[n] = "working" /\ at'[n] = "working") =>
           pos'[n] = pos[n] \/ (Kind[n] = "Seq" /\ pos'[n] \in DOMAIN Kids[n])
      /\ \A n \in Nodes : (at[n] # "working" /\ at'[n] = "working" /\ Kind[n] = "Seq") =>
           pos'[n] = 1 /\ Kids[n] # <<>>
<1>1. CASE \E r \in Roots : Start(r) \/ Cancel(r)
  BY <1>1 DEF Start, Cancel
<1>2. ASSUME NEW n \in Nodes, Enter(n) PROVE Kept
  <2> USE DEF Enters
  <2>1. CASE BailOut(n)
    BY <2>1 DEF BailOut
  <2>2. CASE EnterAction(n)
    BY <2>2 DEF EnterAction
  <2>3. CASE EnterSeq(n)
    <3>1. pos' \in [Nodes -> Nat] /\ \A k \in Nodes : k # n => pos'[k] = pos[k]
      BY <2>3 DEF EnterSeq
    <3>2. \A k \in Nodes : k # n /\ at'[k] = "working" => at[k] = "working"
      BY <2>3 DEF EnterSeq, Call
    <3>3. at'[n] = "working" => at[n] # "working" /\ pos'[n] = 1 /\ Kids[n] # <<>>
      BY <2>3 DEF EnterSeq
    <3> QED
      BY <3>1, <3>2, <3>3
  <2>4. CASE EnterParallel(n)
    BY <2>4 DEF EnterParallel
  <2>5. CASE EnterIf(n)
    BY <2>5 DEF EnterIf, Call
  <2>6. CASE EnterTimeout(n)
    BY <2>6 DEF EnterTimeout, Call
  <2>7. CASE EnterLoop(n)
    BY <2>7 DEF EnterLoop
  <2>8. CASE EnterWait(n)
    BY <2>8 DEF EnterWait
  <2> QED
    BY <1>2, <2>1, <2>2, <2>3, <2>4, <2>5, <2>6, <2>7, <2>8 DEF Enter
<1>3. ASSUME NEW n \in Nodes, Resume(n) PROVE Kept
  <2> USE DEF Loops
  <2>1. CASE Awake(n)
    BY <2>1 DEF Awake
  <2>2. CASE SeqStep(n)
    <3>1. Kids[n] \in Seq(Nodes) /\ pos[n] \in DOMAIN Kids[n]
      BY <2>2, WorkflowAssumption DEF SeqStep, SeqInRange
    <3>2. \A k \in Nodes : at'[k] = "working" => at[k] = "working"
      BY <2>2 DEF SeqStep, Leave
    <3>3. /\ pos' \in [Nodes -> Nat]
          /\ \A k \in Nodes : k # n => pos'[k] = pos[k]
          /\ pos'[n] = pos[n] \/ pos'[n] \in DOMAIN Kids[n]
      BY <2>2, <3>1 DEF SeqStep
    <3> QED
      BY <2>2, <3>2, <3>3 DEF SeqStep
  <2>3. CASE ParallelJoins(n)
    BY <2>3 DEF ParallelJoins, Merged
  <2>4. CASE PassesOn(n)
    BY <2>4 DEF PassesOn, Leave
  <2>5. CASE LoopTurn(n)
    BY <2>5 DEF LoopTurn, Call
  <2>6. CASE LoopBodyReturns(n)
    BY <2>6 DEF LoopBodyReturns, Leave
  <2>7. CASE RetryTurn(n)
    BY <2>7 DEF RetryTurn, Call
  <2>8. CASE RetryBodyReturns(n)
    BY <2>8 DEF RetryBodyReturns, Leave
  <2>9. CASE Acquire(n)
    BY <2>9 DEF Acquire
  <2>10. CASE Execute(n)
    BY <2>10 DEF Execute
  <2>11. CASE ActionReturns(n)
    BY <2>11 DEF ActionReturns
  <2> QED
    BY <1>3, <2>1, <2>2, <2>3, <2>4, <2>5, <2>6, <2>7, <2>8, <2>9, <2>10, <2>11 DEF Resume
<1>4. ASSUME NEW n \in Nodes, Elapses(n) \/ Panics(n) PROVE Kept
  BY <1>4 DEF Elapses, Panics
<1>5. CASE AllEnded \/ UNCHANGED vars
  BY <1>5 DEF AllEnded, vars
<1> QED
  BY <1>1, <1>2, <1>3, <1>4, <1>5 DEF Next

(* Guards and tokens keep their types.                                     *)
LEMMA RestTyped ==
  ASSUME TypeOK, [Next]_vars
  PROVE  owner' \in [Locks -> SUBSET Nodes] /\ cancelled' \in SUBSET Roots
<1> USE DEF TypeOK
<1>1. CASE \E r \in Roots : Start(r) \/ Cancel(r)
  BY <1>1 DEF Start, Cancel
<1>2. ASSUME NEW n \in Nodes, Enter(n)
      PROVE  owner' \in [Locks -> SUBSET Nodes] /\ cancelled' \in SUBSET Roots
  BY <1>2 DEF Enter, BailOut, EnterAction, EnterSeq, EnterParallel, EnterIf, EnterTimeout,
              EnterLoop, EnterWait
<1>3. ASSUME NEW n \in Nodes, Resume(n)
      PROVE  owner' \in [Locks -> SUBSET Nodes] /\ cancelled' \in SUBSET Roots
  <2>1. CASE Acquire(n)
    BY <2>1 DEF Acquire
  <2>2. CASE ActionReturns(n)
    BY <2>2 DEF ActionReturns, OwnersWithout
  <2> QED
    BY <1>3, <2>1, <2>2 DEF Resume, Awake, SeqStep, ParallelJoins, PassesOn, LoopTurn,
       LoopBodyReturns, RetryTurn, RetryBodyReturns, Execute
<1>4. ASSUME NEW n \in Nodes, Elapses(n) \/ Panics(n)
      PROVE  owner' \in [Locks -> SUBSET Nodes] /\ cancelled' \in SUBSET Roots
  <2>1. RunOf[n] \in Roots
    BY WorkflowAssumption
  <2> QED
    BY <1>4, <2>1 DEF Elapses, Panics, DroppedOwners, OwnersWithout, TokenOf
<1>5. CASE AllEnded \/ UNCHANGED vars
  BY <1>5 DEF AllEnded, vars
<1> QED
  BY <1>1, <1>2, <1>3, <1>4, <1>5 DEF Next

LEMMA TreeInit == Init => TreeInv
BY WorkflowAssumption DEF Init, TreeInv, TypeOK, Place, QuietBelow, OneAtATime, SeqInRange

LEMMA TreeNext == TreeInv /\ [Next]_vars => TreeInv'
<1> SUFFICES ASSUME TreeInv, [Next]_vars PROVE TreeInv'
  OBVIOUS
<1> USE DEF TreeInv
<1>1. \/ at' = at
      \/ \E n \in Nodes : Shape(n)
      \/ \E r \in Roots : Start(r)
  BY Shapes
<1>2. TypeOK'
  <2>1. at' \in [Nodes -> Place]
    BY <1>1, TypedShape DEF TypeOK, Start, Place
  <2> QED
    BY <2>1, CountKept, RestTyped DEF TypeOK
<1>3. QuietBelow'
  BY <1>1, QuietShape, StartKeepsTree DEF QuietBelow
<1>4. OneAtATime'
  BY <1>1, OneShape, StartKeepsTree DEF OneAtATime, Lineage, Apart
<1>5. SeqInRange'
  <2> SUFFICES ASSUME NEW n \in Nodes, Kind[n] = "Seq", at'[n] = "working"
               PROVE  pos'[n] \in DOMAIN Kids[n]
    BY DEF SeqInRange
  <2>1. Kids[n] \in Seq(Nodes)
    BY WorkflowAssumption
  <2>2. CASE at[n] = "working"
    BY <2>2, CountKept DEF SeqInRange
  <2>3. CASE at[n] # "working"
    <3>1. pos'[n] = 1 /\ Kids[n] # <<>>
      BY <2>3, CountKept
    <3> QED
      BY <2>1, <3>1
  <2> QED
    BY <2>2, <2>3
<1> QED
  BY <1>2, <1>3, <1>4, <1>5

LEMMA Trees == Spec => []TreeInv
BY TreeInit, TreeNext, PTL DEF Spec

(* The state of the interpreter is always of its types.                    *)
THEOREM TypeCorrect == Spec => []TypeOK
BY Trees, PTL DEF TreeInv

(* When run_workflow has returned, or the task of a run has unwound, no    *)
(* future of the run is left.                                              *)
THEOREM RunsEndWhole == Spec => []NothingOutlivesItsRun
<1>1. TreeInv => NothingOutlivesItsRun
  BY WorkflowAssumption DEF TreeInv, QuietBelow, NothingOutlivesItsRun, Ended
<1> QED
  BY <1>1, Trees, PTL

(* Only the branches of a Parallel node execute together.                  *)
THEOREM BranchesOnly == Spec => []ConcurrentOnlyInParallel
<1>1. TreeInv => ConcurrentOnlyInParallel
  BY DEF TreeInv, QuietBelow, OneAtATime, Lineage, ConcurrentOnlyInParallel
<1> QED
  BY <1>1, Trees, PTL

-----------------------------------------------------------------------------
(* The locks.                                                              *)

Holding == {"acquiring", "executing"}

\* An action holds the locks it has counted, all of them when it executes.
CountsLocks ==
  \A n \in Nodes : at[n] \in Holding =>
    /\ pos[n] <= Len(Claims[n])
    /\ at[n] = "executing" => pos[n] = Len(Claims[n])
    /\ \A i \in 1..pos[n] : n \in owner[Lock(n, i)]

OneOwner == \A l \in Locks : \A m, n \in owner[l] : m = n

LockInv == GuardsAreLive /\ CountsLocks /\ OneOwner

\* A step that takes and drops no lock: whoever holds some goes on holding them, and
\* who begins to acquire has none.
NoLocks ==
  /\ owner' = owner
  /\ \A n \in Nodes : at[n] \in Holding =>
       /\ at'[n] \in Holding /\ pos'[n] = pos[n]
       /\ at[n] = "executing" => at'[n] = "executing"
       /\ at'[n] = "executing" => at[n] = "executing" \/ pos[n] = Len(Claims[n])
  /\ \A n \in Nodes : at[n] \notin Holding /\ at'[n] \in Holding =>
       at'[n] = "acquiring" /\ pos'[n] = 0

LEMMA NoLocksKeep ==
  ASSUME TypeOK, LockInv, NoLocks
  PROVE  LockInv'
<1> USE DEF LockInv, NoLocks, TypeOK, Holding
<1>1. GuardsAreLive'
  <2> SUFFICES ASSUME NEW l \in Locks, NEW n \in owner'[l]
               PROVE  at'[n] \in Holding /\ \E i \in 1..pos'[n] : l = Lock(n, i)
    BY DEF GuardsAreLive
  <2>1. n \in Nodes /\ at[n] \in Holding /\ \E i \in 1..pos[n] : l = Lock(n, i)
    BY DEF GuardsAreLive
  <2> QED
    BY <2>1
<1>2. CountsLocks'
  <2> SUFFICES ASSUME NEW n \in Nodes, at'[n] \in Holding
               PROVE  /\ pos'[n] <= Len(Claims[n])
                      /\ at'[n] = "executing" => pos'[n] = Len(Claims[n])
                      /\ \A i \in 1..pos'[n] : n \in owner'[Lock(n, i)]
    BY DEF CountsLocks
  <2>1. CASE at[n] \in Holding
    BY <2>1 DEF CountsLocks
  <2>2. CASE at[n] \notin Holding
    <3>1. Len(Claims[n]) \in Nat
      BY WorkflowAssumption
    <3> QED
      BY <2>2, <3>1
  <2> QED
    BY <2>1, <2>2
<1>3. OneOwner'
  BY DEF OneOwner
<1> QED
  BY <1>1, <1>2, <1>3

(* A node that enters holds nothing, nor do its children.                  *)
LEMMA EnterNoLocks ==
  ASSUME TreeInv, NEW n \in Nodes, Enter(n)
  PROVE  NoLocks
<1> USE DEF NoLocks, Holding, Enters
<1>0. at \in [Nodes -> Place] /\ pos \in [Nodes -> Nat]
  BY DEF TreeInv, TypeOK
<1>1. at[n] = "called"
  BY DEF Enter, BailOut, EnterAction, EnterSeq, EnterParallel, EnterIf, EnterTimeout,
         EnterLoop, EnterWait
<1>2. \A c \in Children(n) : at[c] = "idle"
  BY <1>0, <1>1, ChildBelow DEF TreeInv, QuietBelow
<1>3. CASE BailOut(n)
  BY <1>0, <1>3 DEF BailOut
<1>4. CASE EnterAction(n)
  BY <1>0, <1>4 DEF EnterAction
<1>5. CASE EnterSeq(n)
  <2>1. CASE Kids[n] = <<>>
    BY <1>0, <1>5, <2>1 DEF EnterSeq
  <2>2. CASE Kids[n] # <<>>
    <3>1. Kids[n] \in Seq(Nodes)
      BY WorkflowAssumption
    <3>2. Kids[n][1] \in Children(n)
      BY <2>2, <3>1, KidIsChild
    <3> QED
      BY <1>0, <1>2, <1>5, <2>2, <3>2 DEF EnterSeq, Call
  <2> QED
    BY <2>1, <2>2
<1>6. CASE EnterParallel(n)
  BY <1>0, <1>2, <1>6 DEF EnterParallel
<1>7. CASE EnterIf(n)
  <2>1. Kids[n][1] \in Children(n) /\ (Len(Kids[n]) = 2 => Kids[n][2] \in Children(n))
    BY <1>0, <1>7, FirstKid DEF EnterIf
  <2> QED
    BY <1>0, <1>2, <1>7, <2>1 DEF EnterIf, Call
<1>8. CASE EnterTimeout(n)
  <2>1. Kids[n][1] \in Children(n)
    BY <1>0, <1>8, FirstKid DEF EnterTimeout
  <2> QED
    BY <1>0, <1>2, <1>8, <2>1 DEF EnterTimeout, Call
<1>9. CASE EnterLoop(n)
  BY <1>0, <1>9 DEF EnterLoop
<1>10. CASE EnterWait(n)
  BY <1>0, <1>10 DEF EnterWait
<1> QED
  BY <1>3, <1>4, <1>5, <1>6, <1>7, <1>8, <1>9, <1>10 DEF Enter

(* Nor does a node that goes on with its children.                         *)
LEMMA ResumeNoLocks ==
  ASSUME TreeInv, NEW n \in Nodes, Resume(n), ~Acquire(n), ~ActionReturns(n)
  PROVE  NoLocks
<1> USE DEF NoLocks, Holding
<1>0. at \in [Nodes -> Place] /\ pos \in [Nodes -> Nat]
  BY DEF TreeInv, TypeOK
<1>1. at[n] = "turning" => \A c \in Children(n) : at[c] = "idle"
  BY ChildBelow DEF TreeInv, QuietBelow
<1>2. CASE Awake(n)
  BY <1>0, <1>2 DEF Awake
<1>3. CASE SeqStep(n)
  <2> DEFINE c == Kids[n][pos[n]]
  <2>1. c \in Children(n) /\ pos[n] \in DOMAIN Kids[n] /\ Kids[n] \in Seq(Nodes)
    BY <1>0, <1>3, KidIsChild, WorkflowAssumption DEF SeqStep, TreeInv, SeqInRange
  <2>2. CASE at[c] = "Continue" /\ pos[n] < Len(Kids[n])
    <3> DEFINE d == Kids[n][pos[n] + 1]
    <3>1. pos[n] + 1 \in DOMAIN Kids[n]
      BY <2>1, <2>2
    <3>2. d \in Children(n) /\ d \in Below[n]
      BY <3>1, KidIsChild, ChildBelow
    <3>3. at[d] # "idle" => d = c
      BY <1>0, <1>3, <2>1, <3>2, OnlyChild DEF TreeInv, SeqStep
    <3>4. at' = [at EXCEPT ![c] = "idle", ![d] = "called"] /\ at[c] \in Flow /\ at[n] = "working"
      BY <1>0, <1>3, <2>2 DEF SeqStep
    <3>5. pos' = [pos EXCEPT ![n] = @ + 1] /\ owner' = owner
      BY <1>0, <1>3, <2>2 DEF SeqStep
    <3> HIDE DEF c, d
    <3> QED
      BY <1>0, <3>3, <3>4, <3>5
  <2>3. CASE ~(at[c] = "Continue" /\ pos[n] < Len(Kids[n]))
    BY <1>0, <1>3, <2>1, <2>3 DEF SeqStep, Leave
  <2> QED
    BY <2>2, <2>3
<1>4. CASE ParallelJoins(n)
  BY <1>0, <1>4 DEF ParallelJoins, Merged
<1>5. CASE PassesOn(n)
  BY <1>0, <1>5 DEF PassesOn, Leave
<1>6. CASE LoopTurn(n)
  <2>1. Kids[n][1] \in Children(n)
    BY <1>0, <1>6, FirstKid DEF LoopTurn, Loops
  <2> QED
    BY <1>0, <1>1, <1>6, <2>1 DEF LoopTurn, Call
<1>7. CASE LoopBodyReturns(n)
  <2>1. pos' = [pos EXCEPT ![n] = @ + 1] /\ owner' = owner
    BY <1>0, <1>7 DEF LoopBodyReturns
  <2> QED
    BY <1>0, <1>7, <2>1 DEF LoopBodyReturns, Leave
<1>8. CASE RetryTurn(n)
  <2>1. Kids[n][1] \in Children(n)
    BY <1>0, <1>8, FirstKid DEF RetryTurn, Loops
  <2> QED
    BY <1>0, <1>1, <1>8, <2>1 DEF RetryTurn, Call
<1>9. CASE RetryBodyReturns(n)
  <2>1. pos' = [pos EXCEPT ![n] = @ + 1] /\ owner' = owner
    BY <1>0, <1>9 DEF RetryBodyReturns
  <2> QED
    BY <1>0, <1>9, <2>1 DEF RetryBodyReturns, Leave
<1>10. CASE Execute(n)
  BY <1>0, <1>10 DEF Execute
<1> QED
  BY <1>2, <1>3, <1>4, <1>5, <1>6, <1>7, <1>8, <1>9, <1>10 DEF Resume

LEMMA LockIsLock ==
  ASSUME NEW n \in Nodes, NEW i \in 1..Len(Claims[n])
  PROVE  Lock(n, i) \in Locks
<1>1. RunOf[n] \in Roots /\ Claims[n] \in Seq(Resources)
  BY WorkflowAssumption
<1>2. Claims[n][i] \in Resources
  BY <1>1
<1> QED
  BY <1>1, <1>2

(* The guards of some nodes are dropped, and the nodes with them.          *)
LEMMA DropKeeps ==
  ASSUME TypeOK, LockInv, NEW S, owner' = OwnersWithout(S),
         \A n \in Nodes : at[n] \in Holding /\ n \notin S => at'[n] = at[n] /\ pos'[n] = pos[n],
         \A n \in Nodes : at'[n] \in Holding => n \notin S /\ at[n] = at'[n] /\ pos'[n] = pos[n]
  PROVE  LockInv'
<1> USE DEF LockInv
<1>1. \A l \in Locks : owner'[l] = owner[l] \ S
  BY DEF OwnersWithout
<1>2. GuardsAreLive'
  <2> SUFFICES ASSUME NEW l \in Locks, NEW n \in owner'[l]
               PROVE  at'[n] \in Holding /\ \E i \in 1..pos'[n] : l = Lock(n, i)
    BY DEF GuardsAreLive, Holding
  <2>1. n \in Nodes /\ n \notin S /\ at[n] \in Holding /\ \E i \in 1..pos[n] : l = Lock(n, i)
    BY <1>1 DEF GuardsAreLive, TypeOK, Holding
  <2> QED
    BY <2>1
<1>3. CountsLocks'
  <2> SUFFICES ASSUME NEW n \in Nodes, at'[n] \in Holding
               PROVE  /\ pos'[n] <= Len(Claims[n])
                      /\ at'[n] = "executing" => pos'[n] = Len(Claims[n])
                      /\ \A i \in 1..pos'[n] : n \in owner'[Lock(n, i)]
    BY DEF CountsLocks
  <2>1. n \notin S /\ at[n] = at'[n] /\ pos'[n] = pos[n] /\ pos[n] \in Nat /\ Len(Claims[n]) \in Nat
    BY WorkflowAssumption DEF TypeOK
  <2>2. ASSUME NEW i \in 1..pos[n] PROVE n \in owner'[Lock(n, i)]
    <3>1. pos[n] <= Len(Claims[n]) /\ n \in owner[Lock(n, i)]
      BY <2>1 DEF CountsLocks
    <3>2. i \in 1..Len(Claims[n])
      BY <2>1, <3>1
    <3>3. Lock(n, i) \in Locks
      BY <3>2, LockIsLock
    <3> QED
      BY <1>1, <2>1, <3>1, <3>3
  <2> QED
    BY <2>1, <2>2 DEF CountsLocks
<1>4. OneOwner'
  BY <1>1 DEF OneOwner
<1> QED
  BY <1>2, <1>3, <1>4

LEMMA AcquireKeeps ==
  ASSUME TypeOK, LockInv, NEW n \in Nodes, Acquire(n)
  PROVE  LockInv'
<1> USE DEF LockInv
<1> DEFINE l == Lock(n, pos[n] + 1)
<1>1. /\ at' = at /\ at[n] = "acquiring" /\ pos[n] < Len(Claims[n])
      /\ owner[l] = {} /\ owner' = [owner EXCEPT ![l] = @ \union {n}]
      /\ pos' = [pos EXCEPT ![n] = @ + 1] /\ pos[n] \in Nat /\ Len(Claims[n]) \in Nat
  BY WorkflowAssumption DEF Acquire, IsFree, TypeOK
<1>2. l \in Locks
  <2>1. pos[n] + 1 \in 1..Len(Claims[n])
    BY <1>1
  <2> QED
    BY <2>1, LockIsLock
<1>3. pos'[n] = pos[n] + 1 /\ \A m \in Nodes : m # n => pos'[m] = pos[m]
  BY <1>1 DEF TypeOK
<1>4. owner'[l] = {n} /\ \A k \in Locks : k # l => owner'[k] = owner[k]
  BY <1>1, <1>2 DEF TypeOK
<1>5. GuardsAreLive'
  <2> SUFFICES ASSUME NEW k \in Locks, NEW m \in owner'[k]
               PROVE  at[m] \in Holding /\ \E i \in 1..pos'[m] : k = Lock(m, i)
    BY <1>1 DEF GuardsAreLive, Holding
  <2>1. CASE k = l
    <3>1. m = n /\ pos'[n] \in 1..pos'[n]
      BY <1>1, <1>3, <1>4, <2>1
    <3> QED
      BY <1>1, <1>3, <2>1, <3>1 DEF Holding
  <2>2. CASE k # l
    <3>1. m \in owner[k] /\ m \in Nodes
      BY <1>4, <2>2 DEF TypeOK
    <3>2. PICK i \in 1..pos[m] : k = Lock(m, i)
      BY <3>1 DEF GuardsAreLive
    <3>3. i \in 1..pos'[m]
      BY <1>1, <1>3, <3>1 DEF TypeOK
    <3> QED
      BY <3>1, <3>2, <3>3 DEF GuardsAreLive, Holding
  <2> QED
    BY <2>1, <2>2
<1>6. CountsLocks'
  <2> SUFFICES ASSUME NEW m \in Nodes, at[m] \in Holding
               PROVE  /\ pos'[m] <= Len(Claims[m])
                      /\ at[m] = "executing" => pos'[m] = Len(Claims[m])
                      /\ \A i \in 1..pos'[m] : m \in owner'[Lock(m, i)]
    BY <1>1 DEF CountsLocks
  <2>1. /\ pos[m] \in Nat /\ Len(Claims[m]) \in Nat /\ pos[m] <= Len(Claims[m])
        /\ at[m] = "executing" => pos[m] = Len(Claims[m])
        /\ \A i \in 1..pos[m] : m \in owner[Lock(m, i)]
    <3>1. pos[m] \in Nat /\ Len(Claims[m]) \in Nat
      BY WorkflowAssumption DEF TypeOK
    <3> QED
      BY <3>1 DEF CountsLocks
  <2>2. \A i \in 1..pos[m] : m \in owner'[Lock(m, i)]
    <3> TAKE i \in 1..pos[m]
    <3>1. i \in 1..Len(Claims[m])
      BY <2>1
    <3>2. Lock(m, i) \in Locks /\ m \in owner[Lock(m, i)]
      BY <2>1, <3>1, LockIsLock
    <3> QED
      BY <1>1, <1>4, <3>2
  <2>3. CASE m = n
    <3>1. \A i \in 1..pos'[m] : i \in 1..pos[m] \/ i = pos[n] + 1
      BY <1>3, <2>1, <2>3
    <3>2. m \in owner'[Lock(m, pos[n] + 1)]
      BY <1>4, <2>3
    <3> QED
      BY <1>1, <1>3, <2>2, <2>3, <3>1, <3>2
  <2>4. CASE m # n
    BY <1>3, <2>1, <2>2, <2>4
  <2> QED
    BY <2>3, <2>4
<1>7. OneOwner'
  BY <1>4 DEF OneOwner
<1> QED
  BY <1>5, <1>6, <1>7

LEMMA LockInit == Init => LockInv
BY DEF Init, LockInv, GuardsAreLive, CountsLocks, OneOwner, Holding

LEMMA LockNext == TreeInv /\ LockInv /\ [Next]_vars => LockInv'
<1> SUFFICES ASSUME TreeInv, LockInv, [Next]_vars PROVE LockInv'
  OBVIOUS
<1>0. TypeOK /\ at \in [Nodes -> Place]
  BY DEF TreeInv, TypeOK
<1>1. ASSUME NEW r \in Roots, Start(r) \/ Cancel(r) PROVE LockInv'
  <2>1. NoLocks
    BY <1>0, <1>1, WorkflowAssumption DEF Start, Cancel, NoLocks, Holding
  <2> QED
    BY <1>0, <2>1, NoLocksKeep
<1>2. ASSUME NEW n \in Nodes, Enter(n) PROVE LockInv'
  BY <1>0, <1>2, EnterNoLocks, NoLocksKeep
<1>3. ASSUME NEW n \in Nodes, Resume(n), ~Acquire(n), ~ActionReturns(n) PROVE LockInv'
  BY <1>0, <1>3, ResumeNoLocks, NoLocksKeep
<1>4. ASSUME NEW n \in Nodes, Acquire(n) PROVE LockInv'
  BY <1>0, <1>4, AcquireKeeps
<1>5. ASSUME NEW n \in Nodes, ActionReturns(n) PROVE LockInv'
  <2>1. /\ \A m \in Nodes : m # n => at'[m] = at[m] /\ pos'[m] = pos[m]
        /\ at'[n] \notin Holding
        /\ owner' = OwnersWithout({n})
    BY <1>0, <1>5 DEF ActionReturns, Holding
  <2> QED
    BY <1>0, <2>1, DropKeeps
<1>6. ASSUME NEW n \in Nodes, Elapses(n) PROVE LockInv'
  <2>1. /\ \A m \in Nodes : m # n /\ m \notin Below[n] => at'[m] = at[m]
        /\ \A m \in Below[n] : m \in Nodes => at'[m] \notin Holding
        /\ at[n] \notin Holding /\ at'[n] \notin Holding /\ pos' = pos
        /\ owner' = OwnersWithout(Below[n])
    BY <1>0, <1>6 DEF Elapses, Dropped, DroppedOwners, Holding
  <2> QED
    BY <1>0, <2>1, DropKeeps
<1>7. ASSUME NEW n \in Nodes, Panics(n) PROVE LockInv'
  <2> DEFINE S == {m \in Nodes : RunOf[m] = RunOf[n]}
  <2>0. RunOf[n] \in S
    BY WorkflowAssumption, RootFacts
  <2>1. /\ \A m \in Nodes : m \notin S => at'[m] = at[m]
        /\ \A m \in S : at'[m] \notin Holding
        /\ pos' = pos /\ owner' = OwnersWithout(S)
    BY <1>0, <1>7, <2>0 DEF Panics, Holding
  <2> QED
    BY <1>0, <2>1, DropKeeps
<1>8. CASE AllEnded \/ UNCHANGED vars
  BY <1>8 DEF AllEnded, vars, LockInv, GuardsAreLive, CountsLocks, OneOwner
<1> QED
  BY <1>1, <1>2, <1>3, <1>4, <1>5, <1>6, <1>7, <1>8 DEF Next

(* A timeout, a panic or a failure leaves no lock behind.                  *)
THEOREM NoLockLeftBehind == Spec => []GuardsAreLive
<1>1. LockInv => GuardsAreLive
  BY DEF LockInv
<1> QED
  BY <1>1, LockInit, LockNext, Trees, PTL DEF Spec

(* What two actions of runs with one pool both claim, they use one after   *)
(* the other.                                                              *)
THEOREM OneAtADevice == Spec => []DevicesExclusive
<1>1. TypeOK /\ LockInv => DevicesExclusive
  <2> SUFFICES ASSUME TypeOK, LockInv, NEW m \in Nodes, NEW n \in Nodes,
                      at[m] = "executing", at[n] = "executing",
                      NEW x \in ClaimsOf(m) \intersect ClaimsOf(n),
                      PoolOf[RunOf[m]] = PoolOf[RunOf[n]]
               PROVE  m = n
    BY DEF DevicesExclusive
  <2>1. Claims[m] \in Seq(Resources) /\ Claims[n] \in Seq(Resources)
    BY WorkflowAssumption
  <2>2. PICK i \in 1..Len(Claims[m]), j \in 1..Len(Claims[n]) : x = Claims[m][i] /\ x = Claims[n][j]
    BY <2>1 DEF ClaimsOf
  <2>3. Lock(m, i) = Lock(n, j) /\ Lock(m, i) \in Locks
    BY <2>2, LockIsLock
  <2>4. m \in owner[Lock(m, i)] /\ n \in owner[Lock(n, j)]
    BY <2>2 DEF LockInv, CountsLocks, Holding
  <2> QED
    BY <2>3, <2>4 DEF LockInv, OneOwner
<1> QED
  BY <1>1, LockInit, LockNext, Trees, TypeCorrect, PTL DEF Spec

-----------------------------------------------------------------------------
(* The token that a timeout sets.                                          *)

\* The node a run ends with, if it is not to end in Continue.
Blames(n) ==
  \/ at[n] \in {"Failed", "Stop"}
  \/ Kind[n] = "Retry" /\ at[n] \in {"sleeping", "turning"}

SomebodyBlames ==
  \A r \in cancelled \ Cancellable :
    at[r] = "panicked" \/ \E n \in Nodes : RunOf[n] = r /\ Blames(n)

\* What a step makes of a node of run r that blames.
StillBlamed(r) == at'[r] = "panicked" \/ \E n \in Nodes : RunOf[n] = r /\ Blames(n)'

(* Entering changes nodes that are called or idle.                         *)
LEMMA EnterKeepsBlame ==
  ASSUME TreeInv, NEW n \in Nodes, Enter(n)
  PROVE  /\ \A x \in Nodes : at[x] \notin {"idle", "called"} => at'[x] = at[x]
         /\ cancelled' = cancelled
<1> USE DEF Enters
<1>0. at \in [Nodes -> Place]
  BY DEF TreeInv, TypeOK
<1>1. at[n] = "called"
  BY DEF Enter, BailOut, EnterAction, EnterSeq, EnterParallel, EnterIf, EnterTimeout,
         EnterLoop, EnterWait
<1>2. \A c \in Children(n) : at[c] = "idle"
  BY <1>1, ChildBelow DEF TreeInv, QuietBelow
<1>3. CASE BailOut(n)
  BY <1>0, <1>3 DEF BailOut
<1>4. CASE EnterAction(n)
  BY <1>0, <1>4 DEF EnterAction
<1>5. CASE EnterSeq(n)
  <2>1. CASE Kids[n] = <<>>
    BY <1>0, <1>5, <2>1 DEF EnterSeq
  <2>2. CASE Kids[n] # <<>>
    <3>1. Kids[n] \in Seq(Nodes)
      BY WorkflowAssumption
    <3>2. Kids[n][1] \in Children(n)
      BY <2>2, <3>1, KidIsChild
    <3> QED
      BY <1>0, <1>1, <1>2, <1>5, <2>2, <3>2 DEF EnterSeq, Call
  <2> QED
    BY <2>1, <2>2
<1>6. CASE EnterParallel(n)
  BY <1>0, <1>1, <1>2, <1>6 DEF EnterParallel
<1>7. CASE EnterIf(n)
  <2>1. Kids[n][1] \in Children(n) /\ (Len(Kids[n]) = 2 => Kids[n][2] \in Children(n))
    BY <1>7, FirstKid DEF EnterIf
  <2> QED
    BY <1>0, <1>1, <1>2, <1>7, <2>1 DEF EnterIf, Call
<1>8. CASE EnterTimeout(n)
  <2>1. Kids[n][1] \in Children(n)
    BY <1>8, FirstKid DEF EnterTimeout
  <2> QED
    BY <1>0, <1>1, <1>2, <1>8, <2>1 DEF EnterTimeout, Call
<1>9. CASE EnterLoop(n)
  BY <1>0, <1>9 DEF EnterLoop
<1>10. CASE EnterWait(n)
  BY <1>0, <1>10 DEF EnterWait
<1> QED
  BY <1>3, <1>4, <1>5, <1>6, <1>7, <1>8, <1>9, <1>10 DEF Enter

(* A parent that goes on takes the blame of its child over.                *)
LEMMA ResumeKeepsBlame ==
  ASSUME TreeInv, NEW n \in Nodes, Resume(n), NEW x \in Nodes, Blames(x), RunOf[x] \in cancelled
  PROVE  Blames(x)' \/ (RunOf[n] = RunOf[x] /\ Blames(n)')
<1> USE DEF Blames, Leave
<1>0. at \in [Nodes -> Place]
  BY DEF TreeInv, TypeOK
<1>1. at[n] = "turning" => \A c \in Children(n) : at[c] = "idle"
  BY ChildBelow DEF TreeInv, QuietBelow
<1>2. CASE Awake(n)
  BY <1>0, <1>2 DEF Awake
<1>3. CASE SeqStep(n)
  <2> DEFINE c == Kids[n][pos[n]]
  <2>1. c \in Children(n) /\ pos[n] \in DOMAIN Kids[n] /\ Kids[n] \in Seq(Nodes)
    BY <1>3, KidIsChild, WorkflowAssumption DEF SeqStep, TreeInv, SeqInRange
  <2>2. CASE at[c] = "Continue" /\ pos[n] < Len(Kids[n])
    <3> DEFINE d == Kids[n][pos[n] + 1]
    <3>1. pos[n] + 1 \in DOMAIN Kids[n]
      BY <2>1, <2>2
    <3>2. d \in Children(n) /\ d \in Below[n]
      BY <3>1, KidIsChild, ChildBelow
    <3>3. at[d] # "idle" => d = c
      BY <1>3, <2>1, <3>2, OnlyChild DEF TreeInv, SeqStep
    <3>4. at' = [at EXCEPT ![c] = "idle", ![d] = "called"] /\ at[c] = "Continue"
      BY <1>3, <2>2 DEF SeqStep
    <3> HIDE DEF c, d
    <3> QED
      BY <1>0, <3>3, <3>4
  <2>3. CASE ~(at[c] = "Continue" /\ pos[n] < Len(Kids[n]))
    <3>1. at' = [at EXCEPT ![n] = at[c], ![c] = "idle"] /\ at[c] \in Flow /\ at[n] = "working"
      BY <1>3, <2>3 DEF SeqStep
    <3>2. c # n /\ RunOf[c] = RunOf[n]
      BY <2>1, ChildBelow
    <3> HIDE DEF c
    <3> QED
      BY <1>0, <3>1, <3>2
  <2> QED
    BY <2>2, <2>3
<1>4. CASE ParallelJoins(n)
  <2>1. CASE x \in Children(n)
    <3>1. at[x] \in {"Failed", "Stop"} /\ RunOf[x] = RunOf[n]
      BY <1>4, <2>1, ChildBelow DEF ParallelJoins
    <3>2. at'[n] \in {"Failed", "Stop"}
      BY <1>4, <2>1, <3>1 DEF ParallelJoins, Merged
    <3> QED
      BY <3>1, <3>2
  <2>2. CASE x \notin Children(n)
    BY <1>4, <2>2 DEF ParallelJoins
  <2> QED
    BY <2>1, <2>2
<1>5. CASE PassesOn(n)
  <2>1. PICK c \in Children(n) : Returned(c) /\ at' = [at EXCEPT ![n] = at[c], ![c] = "idle"]
    BY <1>5 DEF PassesOn
  <2>2. c # n /\ RunOf[c] = RunOf[n] /\ at[n] = "working"
    BY <1>5, ChildBelow DEF PassesOn
  <2> QED
    BY <1>0, <2>1, <2>2
<1>6. CASE LoopTurn(n)
  <2>1. Kids[n][1] \in Children(n)
    BY <1>6, FirstKid DEF LoopTurn, Loops
  <2> QED
    BY <1>0, <1>1, <1>6, <2>1 DEF LoopTurn, Call
<1>7. CASE LoopBodyReturns(n)
  <2> DEFINE c == Kids[n][1]
  <2>1. c # n /\ RunOf[c] = RunOf[n] /\ at[n] = "working" /\ Returned(c)
    BY <1>7, FirstKid, ChildBelow DEF LoopBodyReturns, Loops
  <2>2. at' = [at EXCEPT ![n] = IF at[c] = "Continue" THEN "turning" ELSE at[c], ![c] = "idle"]
    BY <1>7 DEF LoopBodyReturns
  <2> HIDE DEF c
  <2> QED
    BY <1>0, <2>1, <2>2
<1>8. CASE RetryTurn(n)
  <2>1. Kids[n][1] \in Children(n)
    BY <1>8, FirstKid DEF RetryTurn, Loops
  <2> QED
    BY <1>0, <1>1, <1>8, <2>1 DEF RetryTurn, Call
<1>9. CASE RetryBodyReturns(n)
  <2> DEFINE c == Kids[n][1]
  <2>1. c # n /\ RunOf[c] = RunOf[n] /\ at[n] = "working" /\ Returned(c) /\ Kind[n] = "Retry"
    BY <1>9, FirstKid, ChildBelow DEF RetryBodyReturns, Loops
  <2>2. \/ at' = [at EXCEPT ![n] = "sleeping", ![c] = "idle"]
        \/ at' = [at EXCEPT ![n] = at[c], ![c] = "idle"]
    BY <1>9 DEF RetryBodyReturns
  <2> HIDE DEF c
  <2> QED
    BY <1>0, <2>1, <2>2
<1>10. CASE Acquire(n)
  BY <1>10 DEF Acquire
<1>11. CASE Execute(n)
  BY <1>0, <1>11 DEF Execute
<1>12. CASE ActionReturns(n)
  BY <1>0, <1>12 DEF ActionReturns
<1> QED
  BY <1>2, <1>3, <1>4, <1>5, <1>6, <1>7, <1>8, <1>9, <1>10, <1>11, <1>12 DEF Resume

LEMMA ResumeKeepsPanic ==
  ASSUME TreeInv, NEW n \in Nodes, Resume(n), NEW r \in Roots, at[r] = "panicked"
  PROVE  at'[r] = "panicked" /\ cancelled' = cancelled
<1> USE DEF Leave
<1>0. at \in [Nodes -> Place] /\ r \in Nodes /\ r \notin Children(n)
  BY RootFacts, ChildBelow DEF TreeInv, TypeOK
<1>1. CASE Awake(n)
  BY <1>0, <1>1 DEF Awake
<1>2. CASE SeqStep(n)
  <2>1. /\ Kids[n][pos[n]] \in Children(n)
        /\ pos[n] < Len(Kids[n]) => Kids[n][pos[n] + 1] \in Children(n)
    <3>1. pos[n] \in DOMAIN Kids[n] /\ Kids[n] \in Seq(Nodes) /\ pos[n] \in Nat
      BY <1>2, WorkflowAssumption DEF SeqStep, TreeInv, SeqInRange, TypeOK
    <3>2. pos[n] < Len(Kids[n]) => pos[n] + 1 \in DOMAIN Kids[n]
      BY <3>1
    <3> QED
      BY <3>1, <3>2, KidIsChild
  <2> QED
    BY <1>0, <1>2, <2>1 DEF SeqStep
<1>3. CASE ParallelJoins(n)
  BY <1>0, <1>3 DEF ParallelJoins
<1>4. CASE PassesOn(n)
  BY <1>0, <1>4 DEF PassesOn
<1>5. CASE LoopTurn(n)
  <2>1. Kids[n][1] \in Children(n)
    BY <1>5, FirstKid DEF LoopTurn, Loops
  <2> QED
    BY <1>0, <1>5, <2>1 DEF LoopTurn, Call
<1>6. CASE LoopBodyReturns(n)
  <2>1. Kids[n][1] \in Children(n)
    BY <1>6, FirstKid DEF LoopBodyReturns, Loops
  <2> QED
    BY <1>0, <1>6, <2>1 DEF LoopBodyReturns
<1>7. CASE RetryTurn(n)
  <2>1. Kids[n][1] \in Children(n)
    BY <1>7, FirstKid DEF RetryTurn, Loops
  <2> QED
    BY <1>0, <1>7, <2>1 DEF RetryTurn, Call
<1>8. CASE RetryBodyReturns(n)
  <2>1. Kids[n][1] \in Children(n)
    BY <1>8, FirstKid DEF RetryBodyReturns, Loops
  <2> QED
    BY <1>0, <1>8, <2>1 DEF RetryBodyReturns
<1>9. CASE Acquire(n)
  BY <1>9 DEF Acquire
<1>10. CASE Execute(n)
  BY <1>0, <1>10 DEF Execute
<1>11. CASE ActionReturns(n)
  BY <1>0, <1>11 DEF ActionReturns
<1> QED
  BY <1>1, <1>2, <1>3, <1>4, <1>5, <1>6, <1>7, <1>8, <1>9, <1>10, <1>11 DEF Resume

LEMMA BlameInit == Init => SomebodyBlames
BY DEF Init, SomebodyBlames

LEMMA BlameNext == TreeInv /\ SomebodyBlames /\ [Next]_vars => SomebodyBlames'
<1> SUFFICES ASSUME TreeInv, SomebodyBlames, [Next]_vars,
                    NEW r \in cancelled' \ Cancellable
             PROVE  StillBlamed(r)
  BY DEF SomebodyBlames, StillBlamed
<1> USE DEF StillBlamed
<1>0. at \in [Nodes -> Place] /\ cancelled \subseteq Roots
  BY DEF TreeInv, TypeOK
<1>a. r \in cancelled =>
        at[r] = "panicked" \/ \E x \in Nodes : RunOf[x] = r /\ Blames(x)
  BY DEF SomebodyBlames
<1>1. ASSUME NEW q \in Roots, Start(q) \/ Cancel(q) PROVE StillBlamed(r)
  <2>1. /\ r \in cancelled
        /\ \A x \in Nodes : at[x] # "idle" => at'[x] = at[x]
    BY <1>0, <1>1 DEF Start, Cancel
  <2>2. r \in Nodes /\ \A x \in Nodes : Blames(x) => Blames(x)'
    BY <1>0, <2>1, RootFacts DEF Blames
  <2> QED
    BY <1>a, <2>1, <2>2
<1>2. ASSUME NEW n \in Nodes, Enter(n) PROVE StillBlamed(r)
  <2>1. /\ r \in cancelled /\ r \in Nodes
        /\ \A x \in Nodes : at[x] \notin {"idle", "called"} => at'[x] = at[x]
    BY <1>0, <1>2, EnterKeepsBlame, RootFacts
  <2>2. \A x \in Nodes : Blames(x) => Blames(x)'
    BY <2>1 DEF Blames
  <2> QED
    BY <1>a, <2>1, <2>2
<1>3. ASSUME NEW n \in Nodes, Resume(n) PROVE StillBlamed(r)
  <2>1. cancelled' = cancelled
    BY <1>3 DEF Resume, Awake, SeqStep, ParallelJoins, PassesOn, LoopTurn, LoopBodyReturns,
       RetryTurn, RetryBodyReturns, Acquire, Execute, ActionReturns
  <2>2. at[r] = "panicked" => at'[r] = "panicked"
    BY <1>0, <1>3, <2>1, ResumeKeepsPanic
  <2>3. ASSUME NEW x \in Nodes, RunOf[x] = r, Blames(x)
        PROVE  \E y \in Nodes : RunOf[y] = r /\ Blames(y)'
    <3>1. Blames(x)' \/ (RunOf[n] = RunOf[x] /\ Blames(n)')
      BY <1>3, <2>1, <2>3, ResumeKeepsBlame
    <3> QED
      BY <2>3, <3>1
  <2> QED
    BY <1>a, <2>1, <2>2, <2>3
<1>4. ASSUME NEW n \in Nodes, Elapses(n) PROVE StillBlamed(r)
  <2>1. /\ at' = [m \in Nodes |-> IF m = n THEN "Failed" ELSE IF m \in Below[n] THEN "idle" ELSE at[m]]
        /\ cancelled' = cancelled \union {RunOf[n]}
        /\ at[n] = "working"
    BY <1>4 DEF Elapses, Dropped, TokenOf
  <2>2. CASE r = RunOf[n]
    BY <2>1, <2>2 DEF Blames
  <2>3. CASE r # RunOf[n]
    <3>1. r \in cancelled /\ r \in Nodes /\ RunOf[r] = r
      BY <1>0, <2>1, <2>3, RootFacts
    <3>2. \A x \in Nodes : RunOf[x] = r => at'[x] = at[x]
      BY <2>1, <2>3, BelowFacts
    <3>3. \A x \in Nodes : RunOf[x] = r /\ Blames(x) => Blames(x)'
      BY <3>2 DEF Blames
    <3> QED
      BY <1>a, <3>1, <3>2, <3>3
  <2> QED
    BY <2>2, <2>3
<1>5. ASSUME NEW n \in Nodes, Panics(n) PROVE StillBlamed(r)
  <2>1. r \in cancelled /\ r \in Nodes /\ RunOf[r] = r
    BY <1>0, <1>5, RootFacts DEF Panics
  <2>2. CASE r = RunOf[n]
    BY <1>5, <2>1, <2>2 DEF Panics
  <2>3. CASE r # RunOf[n]
    <3>1. \A x \in Nodes : RunOf[x] = r => at'[x] = at[x]
      <4>1. RunOf[n] \in Roots /\ RunOf[RunOf[n]] = RunOf[n]
        BY WorkflowAssumption, RootFacts
      <4> QED
        BY <1>5, <2>3, <4>1 DEF Panics
    <3>2. \A x \in Nodes : RunOf[x] = r /\ Blames(x) => Blames(x)'
      BY <3>1 DEF Blames
    <3> QED
      BY <1>a, <2>1, <3>1, <3>2
  <2> QED
    BY <2>2, <2>3
<1>6. CASE AllEnded \/ UNCHANGED vars
  <2>1. r \in cancelled /\ at' = at
    BY <1>6 DEF AllEnded, vars
  <2> QED
    BY <1>a, <2>1 DEF Blames
<1> QED
  BY <1>1, <1>2, <1>3, <1>4, <1>5, <1>6 DEF Next

(* A run in which a timeout elapsed does not end in Continue.              *)
THEOREM TimeoutsShow == Spec => []TimeoutsAreNotHidden
<1>1. TreeInv /\ SomebodyBlames => TimeoutsAreNotHidden
  <2> SUFFICES ASSUME TreeInv, SomebodyBlames, NEW r \in cancelled \ Cancellable,
                      at[r] = "Continue"
               PROVE  FALSE
    BY DEF TimeoutsAreNotHidden
  <2>1. r \in Roots /\ r \in Nodes
    BY RootFacts DEF TreeInv, TypeOK
  <2>2. PICK x \in Nodes : RunOf[x] = r /\ Blames(x)
    BY DEF SomebodyBlames
  <2>3. x # r /\ at[x] # "idle"
    BY <2>1, <2>2 DEF Blames
  <2>4. x \in Below[r]
    BY <2>1, <2>2, <2>3, RootFacts
  <2> QED
    BY <2>1, <2>3, <2>4 DEF TreeInv, QuietBelow
<1> QED
  BY <1>1, BlameInit, BlameNext, Trees, PTL DEF Spec

=============================================================================
