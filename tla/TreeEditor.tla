----------------------------- MODULE TreeEditor ------------------------------
(***************************************************************************)
(* Editing the selected macro (crates/app/src/callbacks.rs): the rows of   *)
(* its constraint and workflow trees, the row that is selected in each,    *)
(* and the property pane, which keeps the settings of the leaf whose row   *)
(* was clicked until another row is.                                       *)
(*                                                                         *)
(* Each callback also sends the edited macro to the engine and saves the   *)
(* list, all under the mutex: that is Edit of module Editor, where the     *)
(* trees are a body.  The rows are rebuilt in each callback, so they are   *)
(* those of the tree.  What a user types into the pane is left out: to     *)
(* apply the pane is to give the selected row the settings of the leaf     *)
(* that the pane shows.                                                    *)
(***************************************************************************)
EXTENDS TreeModel

CONSTANTS
  Macros,                    (* the macros that may be opened               *)
  MaxEdits                   (* bound                                       *)

\* The levels that a tree may have after n edits: each adds at most one.
Levels(n) == MaxHeight - (MaxEdits + 1 - n)

ASSUME MacrosAssumption ==
  /\ MaxEdits \in Nat
  /\ Levels(0) >= 2
  /\ \A m \in Macros :
       /\ m.workflow \in TreesTo[Levels(0)] /\ IsWorkflow(m.workflow)
       /\ m.constraints \in TreesTo[Levels(0)] /\ ~IsWorkflow(m.constraints)
       /\ \A n \in {m.workflow, m.constraints} : WellFormed(n) /\ Ids(n) \subseteq 0..99

VARIABLES
  workflow, constraints,     (* Macro.workflow (or root_workflow()) and     *)
                             (* Macro.constraints                           *)
  flow, cond,                (* of each tree: the selected row, and the leaf *)
                             (* that the pane shows, if any                 *)
  edits                      (* edits so far; they name the new nodes       *)

vars == <<workflow, constraints, flow, cond, edits>>

NothingSelected == [row |-> -1, shown |-> {}]

Init ==
  /\ \E m \in Macros : workflow = m.workflow /\ constraints = m.constraints
  /\ flow = NothingSelected /\ cond = NothingSelected
  /\ edits = 0

\* A click on a row loads its settings into the pane, if it has any.
Selected(rows, p) == [row |-> p, shown |-> rows[p].shown]

\* New nodes are numbered by the edit that makes them.
NewId == 100 + 10 * edits

Edits == edits < MaxEdits /\ edits' = edits + 1

EditsWorkflow    == Edits /\ UNCHANGED <<constraints, cond>>
EditsConstraints == Edits /\ UNCHANGED <<workflow, flow>>

-----------------------------------------------------------------------------
(* The workflow tab.                                                       *)

workflow_node_selected ==
  /\ \E rows \in {flatten_workflow(workflow)} :
     \E p \in DOMAIN rows : flow' = Selected(rows, p)
  /\ UNCHANGED <<workflow, constraints, cond, edits>>

\* Apply, enabled while a row is selected and the pane shows an action.
workflow_update ==
  /\ EditsWorkflow
  /\ \E cfg \in flow.shown : workflow' = update_workflow_action(workflow, flow.row, cfg)
  /\ UNCHANGED flow

\* Mutant: the selection stays.
workflow_delete_node_keeping ==
  /\ EditsWorkflow
  /\ flow.row >= 0
  /\ workflow' = delete_workflow_at(workflow, flow.row)
  /\ UNCHANGED flow

workflow_delete_node ==
  /\ EditsWorkflow
  /\ flow.row >= 0
  /\ workflow' = delete_workflow_at(workflow, flow.row)
  /\ flow' = NothingSelected

\* The arrows are disabled on label rows.
workflow_move(up) ==
  /\ EditsWorkflow
  /\ \E rows \in {flatten_workflow(workflow)} :
     \E p \in DOMAIN rows : ~rows[p].label /\ workflow' = move_workflow_node(workflow, p, up)
  /\ UNCHANGED flow

workflow_add ==
  /\ EditsWorkflow
  /\ \/ workflow' = add_workflow_action(workflow, NewId)
     \/ workflow' = add_workflow_if(workflow, NewId)
     \/ workflow' = add_workflow_parallel(workflow, NewId)
  /\ UNCHANGED flow

-----------------------------------------------------------------------------
(* The constraint tab.                                                     *)

constraint_node_selected ==
  /\ \E rows \in {flatten_constraint(constraints)} :
     \E p \in DOMAIN rows : cond' = Selected(rows, p)
  /\ UNCHANGED <<workflow, constraints, flow, edits>>

constraint_update ==
  /\ EditsConstraints
  /\ \E cfg \in cond.shown : constraints' = update_constraint_leaf(constraints, cond.row, cfg)
  /\ UNCHANGED cond

constraint_delete_node ==
  /\ EditsConstraints
  /\ cond.row >= 0
  /\ constraints' = delete_constraint_at(constraints, cond.row)
  /\ cond' = NothingSelected

constraint_move(up) ==
  /\ EditsConstraints
  /\ \E p \in DOMAIN flatten_constraint(constraints) :
       constraints' = move_constraint_node(constraints, p, up)
  /\ UNCHANGED cond

constraint_add_leaf ==
  /\ EditsConstraints
  /\ constraints' = add_constraint_leaf(constraints, NewId)
  /\ UNCHANGED cond

constraint_wrap(kind) ==
  /\ EditsConstraints
  /\ constraints' = wrap_constraint_at(constraints, cond.row, kind, NewId)
  /\ UNCHANGED cond

-----------------------------------------------------------------------------
\* Another macro is selected, or the file was reloaded: the tabs are refilled.
refresh_macro_detail ==
  /\ flow' = NothingSelected /\ cond' = NothingSelected
  /\ UNCHANGED <<workflow, constraints, edits>>

WorkflowTab ==
  \/ workflow_node_selected
  \/ workflow_update
  \/ workflow_delete_node
  \/ workflow_add
  \/ \E up \in BOOLEAN : workflow_move(up)

ConstraintTab ==
  \/ constraint_node_selected
  \/ constraint_update
  \/ constraint_delete_node
  \/ constraint_add_leaf
  \/ \E kind \in {"And", "Or", "Not"} : constraint_wrap(kind)
  \/ \E up \in BOOLEAN : constraint_move(up)

Next == WorkflowTab \/ ConstraintTab \/ refresh_macro_detail

Spec == Init /\ [][Next]_vars

-----------------------------------------------------------------------------
(* Properties.  Those about the trees alone are stated while nothing is      *)
(* selected: refresh_macro_detail leads there from every state.              *)

Trees ==
  IF flow = NothingSelected /\ cond = NothingSelected THEN {workflow, constraints} ELSE {}

(* Every node keeps its identity, and the selected row exists, however the   *)
(* tree was edited since it was selected.                                    *)
TypeOK ==
  /\ workflow \in Tree /\ IsWorkflow(workflow) /\ WellFormed(workflow)
  /\ constraints \in Tree /\ ~IsWorkflow(constraints) /\ WellFormed(constraints)
  /\ flow.row \in {-1} \union DOMAIN flatten_workflow(workflow)
  /\ cond.row \in {-1} \union DOMAIN flatten_constraint(constraints)
  /\ flow.shown \subseteq Nat /\ cond.shown \subseteq Nat
  /\ edits \in 0..MaxEdits

\* The actions and conditions of a tree in order, with the settings they hold and
\* the nodes that decide whether they are executed: all but the Seqs above them.
Paths == Seq(Nat \X Nat)

Deeper(n, k, under) == IF n.kind = "Seq" THEN under ELSE Append(under, <<n.id, Labels(n) * k>>)

Plan[n \in Tree] == [under \in Paths |->
  IF n.kind = "Always" THEN <<>>
  ELSE IF n.kind \in Leaves THEN <<[id |-> n.id, cfg |-> n.cfg, under |-> under]>>
  ELSE FlattenSeq([k \in DOMAIN n.kids |-> Plan[n.kids[k]][Deeper(n, k, under)]])]

Planned(n) == Plan[n][<<>>]

\* The positions up to the first ForEach: from there on the walks that do not enter
\* it count otherwise than the rows do.
Loops(n) == {m.id : m \in {l \in Below[n] : l.kind = "ForEach"}}

Stable(n, rows) ==
  LET loops == Loops(n) IN {p \in DOMAIN rows : \A q \in 0..p - 1 : rows[q].id \notin loops}

\* Some leaves by name, whatever their positions, are given other settings.
SettingById(ids, cfg) ==
  LET set[n \in Tree] ==
        [n EXCEPT !.cfg = IF n.id \in ids THEN cfg ELSE @,
                  !.kids = [k \in DOMAIN n.kids |-> set[n.kids[k]]]]
  IN  set

(* "Positions are stable": the settings given for a row go to the leaf that  *)
(* the row shows and to nothing else, and a row of no leaf takes none,       *)
(* unless there is a ForEach above it.                                       *)
UpdateHitsItsRow ==
  \A n \in Trees :
    LET rows == flatten_workflow(n) IN
    \A p \in Stable(n, rows) :
      update_workflow_action(n, p, 0)
        = SettingById(IF rows[p].shown = {} THEN {} ELSE {rows[p].id}, 0)[n]

\* The names of the nodes under the node of that name, and a plan without them.
Under(n, id) == UNION {Ids(m) : m \in {x \in Below[n] : x.id = id}}

Spared(plan, gone) ==
  FlattenSeq([i \in DOMAIN plan |-> IF plan[i].id \in gone THEN <<>> ELSE <<plan[i]>>])

(* Deleting the node of a row of the workflow takes away the actions under   *)
(* it and no others; those that stay keep their order, and the conditions,   *)
(* loops and branches that they are executed under, although groups of one   *)
(* child are dissolved all over the tree.                                    *)
DeleteSparesTheRest ==
  workflow \in Trees =>
    LET rows == flatten_workflow(workflow)
        plan == Planned(workflow)
    IN  \A p \in Stable(workflow, rows) :
          ~rows[p].label =>
            Planned(delete_workflow_at(workflow, p))
              = Spared(plan, Under(workflow, rows[p].id))

\* A node by name, swapped with its neighbour, whatever its position.
SwappingById(id, up) ==
  LET swapped[n \in Tree] ==
        LET at == {i \in DOMAIN n.kids : n.kids[i].id = id}
            to == {j \in DOMAIN n.kids : \E i \in at : j = IF up THEN i - 1 ELSE i + 1}
        IN  IF n.kind \in Lists /\ at # {} /\ to # {}
              THEN [n EXCEPT !.kids = [k \in DOMAIN n.kids |->
                     IF k \in at THEN n.kids[CHOOSE j \in to : TRUE]
                     ELSE IF k \in to THEN n.kids[CHOOSE i \in at : TRUE] ELSE n.kids[k]]]
              ELSE [n EXCEPT !.kids = [k \in DOMAIN n.kids |-> swapped[n.kids[k]]]]
  IN  swapped

(* Moving a row swaps its node with its neighbour under the same parent, and *)
(* changes nothing else, wherever the row is.                                *)
MovesSwapNeighbours ==
  \A n \in Trees :
    LET rows == flatten_workflow(n) IN
    \A p \in DOMAIN rows : \A up \in BOOLEAN :
      ~rows[p].label => move_workflow_node(n, p, up) = SwappingById(rows[p].id, up)[n]

\* A condition without the node `id`: a group that is left without a child holds,
\* and so does a negation.
HoldsWithout(id, true) ==
  LET holds[n \in Tree] ==
        LET rest == {k \in DOMAIN n.kids : n.kids[k].id # id} IN
        \/ n.kind \in {"Always", "Leaf"} /\ HoldsIn(true)[n]
        \/ n.kind \notin {"Always", "Leaf"} /\ rest = {}
        \/ n.kind = "Not" /\ rest # {} /\ \A k \in rest : ~holds[n.kids[k]]
        \/ n.kind = "All" /\ rest # {} /\ \A k \in rest : holds[n.kids[k]]
        \/ n.kind = "Any" /\ rest # {} /\ \E k \in rest : holds[n.kids[k]]
  IN  holds

(* What an edit does to the meaning of a constraint: an added condition is   *)
(* one more that must hold, whatever the root; a move, and a wrap in AND or  *)
(* OR, change nothing; a deletion does no more than leave the node out,      *)
(* although groups are dissolved all over the tree.                          *)
ConditionsKeepTheirMeaning ==
  constraints \in Trees =>
    LET c == constraints
        rows == flatten_constraint(c)
        leaves == {m.id : m \in {l \in Below[c] : l.kind = "Leaf"}}
        arranged == {move_constraint_node(c, p, up) : p \in DOMAIN rows, up \in BOOLEAN}
        wrapped == {wrap_constraint_at(c, p, k, NewId) : p \in DOMAIN rows, k \in {"And", "Or"}}
    IN  /\ \A more \in {add_constraint_leaf(c, NewId)} :
             \A true \in SUBSET (leaves \union {NewId}) :
               HoldsIn(true)[more] <=> HoldsIn(true)[c] /\ NewId \in true
        /\ \A n \in arranged \union wrapped :
             \A true \in SUBSET leaves : HoldsIn(true)[n] <=> HoldsIn(true)[c]
        /\ \A p \in DOMAIN rows \ {0} : \A less \in {delete_constraint_at(c, p)} :
             \A true \in SUBSET leaves :
               HoldsIn(true)[less] <=> HoldsWithout(rows[p].id, true)[c]

(* "Positions are stable ... same ordering as the flatten walk", and the     *)
(* pane edits "the currently selected tree node": the settings of a leaf are *)
(* its own, since the pane is only applied to the node whose row it was      *)
(* loaded from.  The code does not keep this.                                *)
SettingsStayHome ==
  \A n \in {workflow, constraints} : \A m \in Below[n] : m.kind \in Leaves => m.cfg = m.id

=============================================================================
