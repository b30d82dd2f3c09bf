------------------------------ MODULE TreeModel ------------------------------
(***************************************************************************)
(* The trees of a macro as the editor shows and edits them                 *)
(* (crates/app/src/tree_model.rs): a constraint tree and a workflow tree,  *)
(* each flattened into rows, and edit helpers that are given the position  *)
(* of a row and find the node by a walk of their own that counts rows.     *)
(*                                                                         *)
(* A node is [kind, id, cfg, kids].  The id is history: it names the node  *)
(* through all edits.  cfg says whose settings a leaf holds: its own id at *)
(* first.  The text of rows and settings is left out.  The children of an  *)
(* If are its `then` and, if it has one, its `otherwise`.                  *)
(*                                                                         *)
(* Each walk over a tree is a function on trees that is defined by its     *)
(* values for the children of a node.                                      *)
(***************************************************************************)
EXTENDS Integers, SequencesExt

CONSTANT MaxHeight           (* bound: how deep the nodes of a tree go      *)

ASSUME MaxHeightAssumption == MaxHeight \in Nat

Conditions == {"Always", "Leaf", "Not", "All", "Any"}
Bodies     == {"While", "ForEach", "Retry", "Timeout"}
Nodes      == {"Action", "Wait", "Seq", "Parallel", "If"} \union Bodies
Leaves     == {"Action", "Wait", "Always", "Leaf"}
Lists      == {"Seq", "Parallel", "All", "Any"}

Node(kind, id, kids) == [kind |-> kind, id |-> id, cfg |-> id, kids |-> kids]

\* The trees of at most d levels.
TreesTo[d \in Nat] ==
  IF d = 0 THEN {}
  ELSE [kind : Conditions \union Nodes, id : Nat, cfg : Nat, kids : Seq(TreesTo[d - 1])]

Tree == TreesTo[MaxHeight]

\* The sums of the first elements of a sequence.
Before(widths) ==
  LET sum[k \in 0..Len(widths)] == IF k = 0 THEN 0 ELSE sum[k - 1] + widths[k] IN sum

Total(widths) == Before(widths)[Len(widths)]

\* Mutant: the label rows of an If are not counted.
LabelsUncounted(n) == 0

\* An If shows a row "then:" or "else:" above each child.
Labels(n) == IF n.kind = "If" THEN 1 ELSE 0

-----------------------------------------------------------------------------
(* The rows: [id, label, shown], in the order of the flatten walk.  A row    *)
(* of a leaf with settings holds a copy of them, for the pane to show.       *)

HasSettings(n) == n.kind \in {"Action", "Leaf"}

Shows(n, label, shown) == <<[id |-> n.id, label |-> label, shown |-> shown]>>

NodeRow(n)  == Shows(n, FALSE, IF HasSettings(n) THEN {n.cfg} ELSE {})
LabelRow(n) == IF n.kind = "If" THEN Shows(n, TRUE, {}) ELSE <<>>

Rows[n \in Tree] ==
  NodeRow(n) \o FlattenSeq([k \in DOMAIN n.kids |-> LabelRow(n) \o Rows[n.kids[k]]])

\* By position, from 0.
ByPosition(rows) == [p \in 0..Len(rows) - 1 |-> rows[p + 1]]

flatten_workflow(n)   == ByPosition(Rows[n])
flatten_constraint(n) == ByPosition(Rows[n])

\* The rows of a subtree, as the move helpers compute them.
Size[n \in Tree] == 1 + Total([k \in DOMAIN n.kids |-> Labels(n) + Size[n.kids[k]]])

\* replace_action_rec and delete_workflow_rec have no arm for ForEach: they count
\* one position for it and do not look inside.
NotEntered(n) == n.kind = "ForEach"

Counted[n \in Tree] ==
  IF NotEntered(n) THEN 1
  ELSE 1 + Total([k \in DOMAIN n.kids |-> Labels(n) + Counted[n.kids[k]]])

\* What each child of a node takes, with its label.
Sizes(n)  == [k \in DOMAIN n.kids |-> Labels(n) + Size[n.kids[k]]]
Counts(n) == [k \in DOMAIN n.kids |-> Labels(n) + Counted[n.kids[k]]]

\* The positions of the children of a node at position `at`, given what they take.
Starts(n, at, widths) ==
  [k \in DOMAIN n.kids |-> at + 1 + Before(widths)[k - 1] + Labels(n)]

-----------------------------------------------------------------------------
(* Replacing the settings of a leaf.                                       *)

Updating(pos, cfg) ==
  LET updated[n \in Tree] == [at \in Nat |->
        IF HasSettings(n) /\ at = pos THEN [n EXCEPT !.cfg = cfg]
        ELSE IF NotEntered(n) THEN n
        ELSE LET from == Starts(n, at, Counts(n))
             IN  [n EXCEPT !.kids = [k \in DOMAIN n.kids |-> updated[n.kids[k]][from[k]]]]]
  IN  updated

update_workflow_action(root, pos, cfg) == Updating(pos, cfg)[root][0]
update_constraint_leaf(root, pos, cfg) == Updating(pos, cfg)[root][0]

-----------------------------------------------------------------------------
(* Deleting a node with its subtree.  An Option is a sequence of at most one.*)

OrElse(option, n) == IF option = <<>> THEN n ELSE option[1]

Without(options) == FlattenSeq(options)

EmptyBody(n) == Node("Seq", n.id, <<>>)

\* Mutant: a group of two is dissolved, whether or not one of them was deleted.
SimplifiedBefore(n, kids) ==
  CASE Len(kids) = 0 -> IF n.kind = "Seq" THEN [n EXCEPT !.kids = <<>>]
                                          ELSE Node("Always", n.id, <<>>)
    [] Len(kids) > 0 /\ Len(n.kids) = 2 -> kids[1]
    [] OTHER -> [n EXCEPT !.kids = kids]

\* A Seq, All or Any of one child becomes the child; an empty All or Any is Always.
Simplified(n, kids) ==
  CASE Len(kids) = 0 -> IF n.kind = "Seq" THEN [n EXCEPT !.kids = <<>>]
                                          ELSE Node("Always", n.id, <<>>)
    [] Len(kids) = 1 -> kids[1]
    [] OTHER -> [n EXCEPT !.kids = kids]

\* A node whose children are what the walk has left of them.
Rebuilt(n, left) ==
  LET kids == Without(left)
      Body(k) == OrElse(left[k], EmptyBody(n.kids[k]))
  IN  CASE n.kind \in {"Seq", "All", "Any"} -> Simplified(n, kids)
        [] n.kind = "Parallel" -> [n EXCEPT !.kids = kids]
        [] n.kind = "Not" -> IF kids = <<>> THEN Node("Always", n.id, <<>>)
                                            ELSE [n EXCEPT !.kids = kids]
        [] n.kind = "If" ->
             [n EXCEPT !.kids = Without([k \in DOMAIN left |-> IF k = 1 THEN <<Body(1)>> ELSE left[k]])]
        [] n.kind \in Bodies -> [n EXCEPT !.kids = [k \in DOMAIN left |-> Body(k)]]
        [] OTHER -> n

Deleting(pos) ==
  LET left[n \in Tree] == [at \in Nat |->
        IF at = pos THEN <<>>
        ELSE IF NotEntered(n) THEN <<n>>
        ELSE LET from == Starts(n, at, Counts(n))
             IN  <<Rebuilt(n, [k \in DOMAIN n.kids |-> left[n.kids[k]][from[k]]])>>]
  IN  left

delete_workflow_at(root, pos)   == OrElse(Deleting(pos)[root][0], EmptyBody(root))
delete_constraint_at(root, pos) ==
  OrElse(Deleting(pos)[root][0], Node("Always", root.id, <<>>))

-----------------------------------------------------------------------------
(* Moving a node before or behind its sibling.                             *)

\* Mutant: the last child goes round to the front.
NeighbourRound(kids, i, up) ==
  IF up THEN {i - 1} \intersect DOMAIN kids ELSE {(i % Len(kids)) + 1}

Neighbour(kids, i, up) == {IF up THEN i - 1 ELSE i + 1} \intersect DOMAIN kids

Swapped(kids, i, others) ==
  [k \in DOMAIN kids |-> IF k = i /\ others # {} THEN kids[CHOOSE j \in others : TRUE]
                         ELSE IF k \in others THEN kids[i] ELSE kids[k]]

Moving(pos, up) ==
  LET moved[n \in Tree] == [at \in Nat |->
        LET from == Starts(n, at, Sizes(n))
            Hit == {i \in DOMAIN n.kids : from[i] = pos}
            Inside(k) == from[k] <= pos /\ pos < from[k] + Size[n.kids[k]]
        IN  IF n.kind \in Lists /\ Hit # {}
              THEN LET i == CHOOSE h \in Hit : TRUE
                   IN  [n EXCEPT !.kids = Swapped(n.kids, i, Neighbour(n.kids, i, up))]
              ELSE [n EXCEPT !.kids =
                      [k \in DOMAIN n.kids |->
                         IF Inside(k) THEN moved[n.kids[k]][from[k]] ELSE n.kids[k]]]]
  IN  moved

move_workflow_node(root, pos, up)   == Moving(pos, up)[root][0]
move_constraint_node(root, pos, up) == Moving(pos, up)[root][0]

-----------------------------------------------------------------------------
(* Wrapping and adding.                                                    *)

GroupOf(kind) == CASE kind = "And" -> "All" [] kind = "Or" -> "Any" [] kind = "Not" -> "Not"

wrap_expr(n, kind, id) ==
  IF kind # "Not" /\ n.kind = GroupOf(kind) THEN n ELSE Node(GroupOf(kind), id, <<n>>)

Wrapping(pos, kind, id) ==
  LET wrapped[n \in Tree] == [at \in Nat |->
        IF at = pos THEN wrap_expr(n, kind, id)
        ELSE LET from == Starts(n, at, Sizes(n))
             IN  [n EXCEPT !.kids = [k \in DOMAIN n.kids |-> wrapped[n.kids[k]][from[k]]]]]
  IN  wrapped

\* Nothing selected (-1): the root.
wrap_constraint_at(root, pos, kind, id) ==
  Wrapping(IF pos < 0 THEN 0 ELSE pos, kind, id)[root][0]

\* Mutant: any group takes the new condition in.
AddToGroup(root, id) ==
  IF root.kind \in {"All", "Any"}
    THEN [root EXCEPT !.kids = Append(@, Node("Leaf", id, <<>>))]
    ELSE Node("All", id + 1, <<root, Node("Leaf", id, <<>>)>>)

add_constraint_leaf(root, id) ==
  LET leaf == Node("Leaf", id, <<>>) IN
  CASE root.kind = "Always" -> leaf
    [] root.kind = "All" -> [root EXCEPT !.kids = Append(@, leaf)]
    [] OTHER -> Node("All", id + 1, <<root, leaf>>)

\* Appended to the root, which is first wrapped in a Seq unless it is one.
Appended(root, n, id) ==
  IF root.kind = "Seq" THEN [root EXCEPT !.kids = Append(@, n)] ELSE Node("Seq", id, <<root, n>>)

add_workflow_action(root, id) == Appended(root, Node("Action", id, <<>>), id + 1)

add_workflow_if(root, id) ==
  Appended(root, Node("If", id, <<Node("Seq", id + 1, <<>>)>>), id + 2)

add_workflow_parallel(root, id) ==
  Appended(root, Node("Parallel", id, <<Node("Seq", id + 1, <<>>), Node("Seq", id + 2, <<>>)>>),
           id + 3)

-----------------------------------------------------------------------------
\* ConstraintExpr::evaluate, when the leaves in `true` hold and the others do not.
HoldsIn(true) ==
  LET holds[n \in Tree] ==
        \/ n.kind = "Always"
        \/ n.kind = "Leaf" /\ n.id \in true
        \/ n.kind = "Not" /\ \A k \in DOMAIN n.kids : ~holds[n.kids[k]]
        \/ n.kind = "All" /\ \A k \in DOMAIN n.kids : holds[n.kids[k]]
        \/ n.kind = "Any" /\ \E k \in DOMAIN n.kids : holds[n.kids[k]]
  IN  holds

-----------------------------------------------------------------------------
\* The nodes of a tree, and their names: each node has one of its own.
Below[n \in Tree] == {n} \union UNION {Below[n.kids[k]] : k \in DOMAIN n.kids}

Ids(n) == {m.id : m \in Below[n]}

\* The children that a node of its kind has.
WellShaped(n) ==
  /\ n.kind \in Leaves => Len(n.kids) = 0
  /\ n.kind \in Bodies \union {"Not"} => Len(n.kids) = 1
  /\ n.kind = "If" => Len(n.kids) \in {1, 2}
  /\ \A k \in DOMAIN n.kids : n.kids[k].kind \in Conditions <=> n.kind \in Conditions

Apart(n) ==
  \A i \in DOMAIN n.kids :
    n.id \notin Ids(n.kids[i]) /\ \A j \in 1..i - 1 : Ids(n.kids[i]) \intersect Ids(n.kids[j]) = {}

WellFormed(n) == \A m \in Below[n] : WellShaped(m) /\ Apart(m)

IsWorkflow(n) == n.kind \in Nodes

=============================================================================
