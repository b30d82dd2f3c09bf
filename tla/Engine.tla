-------------------------------- MODULE Engine --------------------------------
(***************************************************************************)
(* The engine thread (crates/core/src/engine_loop.rs) and the EventRouter  *)
(* it owns (router.rs): commands and events arrive on two channels, select *)
(* takes from either, and an event is matched through an index from event  *)
(* kinds to macros before its macros are handed to the scheduler.          *)
(*                                                                         *)
(* The body of a macro stands for all of it that a command replaces as a   *)
(* whole: triggers, constraints, workflow, permissions.  An event is named *)
(* by the one trigger it matches.  An entry list of the index is a bag:    *)
(* its order is lost in the unstable sort by priority and in the spawning  *)
(* of tasks that race.                                                     *)
(***************************************************************************)
EXTENDS Naturals, Sequences, FiniteSets

CONSTANTS
  Ids,
  Bodies,
  Triggers, Kinds,
  KindOf,        (* event_kind_of a trigger, which is the kind of its event *)
  TriggersOf,    (* the triggers of a body, in order                        *)
  Conditional    (* bodies whose constraints do not always hold             *)

ASSUME EngineAssumption ==
  /\ KindOf \in [Triggers -> Kinds]
  /\ TriggersOf \in [Bodies -> Seq(Triggers)]
  /\ Conditional \subseteq Bodies

Macro == [id : Ids, enabled : BOOLEAN, body : Bodies]

Command ==
  [op : {"AddMacro", "UpdateMacro"}, m : Macro]
    \union [op : {"DeleteMacro", "TriggerManually", "DryRunMacro"}, id : Ids]
    \union [op : {"SetEnabled"}, id : Ids, enabled : BOOLEAN]
    \union [op : {"Shutdown"}]

VARIABLES
  macros,    (* EventRouter.macros: at most one macro for an id             *)
  index,     (* EventRouter.index: how often an id is listed for a kind     *)
  cmds,      (* the command channel                                         *)
  events,    (* the event channel                                           *)
  inline,    (* the macro that a manual trigger runs on the engine thread   *)
  up,        (* the engine thread is in its loop                            *)
  batch      (* history: what the last event handed to schedule()           *)

router == <<macros, index>>
evars  == <<macros, index, cmds, events, inline, up, batch>>

EngineTypeOK ==
  /\ macros \in [Ids -> SUBSET Macro]
  /\ \A i \in Ids, m, n \in Macro : {m, n} \subseteq macros[i] => m = n /\ m.id = i
  /\ index \in [Kinds -> [Ids -> Nat]]
  /\ cmds \in Seq(Command)
  /\ events \in Seq(Triggers)
  /\ inline \in SUBSET Ids
  /\ up \in BOOLEAN
  /\ batch \in [Ids -> Nat]

NoIndex == [k \in Kinds |-> [i \in Ids |-> 0]]

EngineInit ==
  /\ macros = [i \in Ids |-> {}]
  /\ index = NoIndex
  /\ cmds = <<>>
  /\ events = <<>>
  /\ inline = {}
  /\ up = TRUE
  /\ batch = [i \in Ids |-> 0]

-----------------------------------------------------------------------------
(* The router.                                                             *)

\* The positions of the triggers of kind k.
OfKind(b, k) == {j \in DOMAIN TriggersOf[b] : KindOf[TriggersOf[b][j]] = k}

\* Mutant: only the first trigger of a macro is indexed.
EntriesOfFirst(b, k) == IF 1 \in OfKind(b, k) THEN 1 ELSE 0

\* One entry per trigger, also for triggers of one kind.
Entries(b, k) == Cardinality(OfKind(b, k))

\* add_macro, over an index: the entries of a macro it replaces stay.
IndexWith(ix, m) ==
  [k \in Kinds |-> [ix[k] EXCEPT ![m.id] = @ + Entries(m.body, k)]]

\* Mutant: the entries of a removed macro stay.
IndexKept(i) == index

\* remove_macro, over the index: the kinds of the current triggers are cleaned.
IndexWithout(i) ==
  [k \in Kinds |->
     IF \E m \in macros[i] : OfKind(m.body, k) # {} THEN [index[k] EXCEPT ![i] = 0] ELSE index[k]]

Insert(m, ix) ==
  /\ macros' = [macros EXCEPT ![m.id] = {m}]
  /\ index' = IndexWith(ix, m)

\* The macros of which some trigger matches the event, found without the index.
Matching(t) ==
  {i \in Ids : \E m \in macros[i] : m.enabled /\ \E j \in DOMAIN TriggersOf[m.body] : TriggersOf[m.body][j] = t}

\* What the index finds for the event: entries of registered, enabled macros with a
\* trigger that matches.
Candidates(t) == {i \in Matching(t) : index[KindOf[t]][i] > 0}

IsConditional(i) == \E m \in macros[i] : m.body \in Conditional

-----------------------------------------------------------------------------
(* The engine thread.                                                      *)

Receive(op) ==
  /\ up /\ inline = {} /\ cmds # <<>>
  /\ Head(cmds).op = op
  /\ cmds' = Tail(cmds)

AddMacro ==
  /\ Receive("AddMacro")
  /\ Insert(Head(cmds).m, index)
  /\ UNCHANGED <<events, inline, up, batch>>

UpdateMacro ==
  /\ Receive("UpdateMacro")
  /\ Insert(Head(cmds).m, IndexWithout(Head(cmds).m.id))
  /\ UNCHANGED <<events, inline, up, batch>>

DeleteMacro ==
  /\ Receive("DeleteMacro")
  /\ macros' = [macros EXCEPT ![Head(cmds).id] = {}]
  /\ index' = IndexWithout(Head(cmds).id)
  /\ UNCHANGED <<events, inline, up, batch>>

SetEnabled ==
  /\ Receive("SetEnabled")
  /\ macros' = [macros EXCEPT ![Head(cmds).id] =
                  {[m EXCEPT !.enabled = Head(cmds).enabled] : m \in @}]
  /\ UNCHANGED <<index, events, inline, up, batch>>

\* dispatch_manual_trigger and dispatch_dry_run: an enabled macro whose constraints
\* hold is executed by the engine thread itself, which does nothing else meanwhile.
RunInline ==
  /\ Receive("TriggerManually") \/ Receive("DryRunMacro")
  /\ LET i == Head(cmds).id IN
       \/ (\E m \in macros[i] : m.enabled) /\ inline' = {i}
       \/ ((\A m \in macros[i] : ~m.enabled) \/ IsConditional(i)) /\ UNCHANGED inline
  /\ UNCHANGED <<router, events, up, batch>>

InlineReturns ==
  /\ up /\ inline # {}
  /\ inline' = {}
  /\ UNCHANGED <<router, cmds, events, up, batch>>

\* Mutant: the engine does not stop while events are waiting.
ShutdownWhenDrained ==
  /\ Receive("Shutdown")
  /\ up' = (events # <<>>)
  /\ UNCHANGED <<router, events, inline, batch>>

\* The loop returns at once; events and commands still in the channels are lost.
Shutdown ==
  /\ Receive("Shutdown")
  /\ up' = FALSE
  /\ UNCHANGED <<router, events, inline, batch>>

\* How often the event may fire i: the constraints are evaluated for every entry.
Firings(t, i) ==
  LET entries == index[KindOf[t]][i] IN
  IF i \notin Candidates(t) THEN {0} ELSE IF IsConditional(i) THEN 0..entries ELSE {entries}

\* dispatch_scheduled: every entry of a candidate whose constraints hold fires.
DispatchEvent ==
  /\ up /\ inline = {} /\ events # <<>>
  /\ LET t == Head(events) IN
       batch' \in {f \in [Ids -> UNION {Firings(t, i) : i \in Ids}] :
                     \A i \in Ids : f[i] \in Firings(t, i)}
  /\ events' = Tail(events)
  /\ UNCHANGED <<router, cmds, inline, up>>

TakeCommand ==
  \/ AddMacro
  \/ UpdateMacro
  \/ DeleteMacro
  \/ SetEnabled
  \/ RunInline
  \/ Shutdown

-----------------------------------------------------------------------------
(* Properties of the engine by itself.                                     *)

Registered == {i \in Ids : macros[i] # {}}

(* The index is exact: an id is listed once for every trigger of its macro *)
(* that has the kind, and an id that is not registered is not listed.      *)
IndexExact ==
  \A k \in Kinds, i \in Ids :
    /\ \A m \in macros[i] : index[k][i] = Entries(m.body, k)
    /\ i \notin Registered => index[k][i] = 0

(* Nothing but an AddMacro for a macro that is already registered spoils   *)
(* the index: updates, deletions and switches keep it exact, in any order. *)
Readding ==
  /\ cmds # <<>> /\ Head(cmds).op = "AddMacro"
  /\ Head(cmds).m.id \in Registered

IndexStaysExact == [][(IndexExact /\ ~Readding) => IndexExact']_evars

(* The index is an optimisation that nobody can see: whatever was added,   *)
(* replaced, updated and removed before, an event fires exactly the        *)
(* enabled macros that have a matching trigger, but for those whose        *)
(* constraints fail.                                                       *)
FiresWhatMatches ==
  [][Len(events') < Len(events) =>
       LET t == Head(events)
           fired == {i \in Ids : batch'[i] > 0}
       IN  /\ fired \subseteq Matching(t)
           /\ {i \in Matching(t) : ~IsConditional(i)} \subseteq fired]_evars

=============================================================================
